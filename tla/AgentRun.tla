------------------------------ MODULE AgentRun ------------------------------
(***************************************************************************)
(* One agent run: AgentEngine.run (agent_engine.py), the request boundary  *)
(* it owns (PiRequestBoundary and execute_pi, pi_execution.py), and, as    *)
(* far as the boundary sees them, the pi worker (runtime/pi/src) and the   *)
(* model provider.                                                         *)
(*                                                                         *)
(* A turn is one logical model request, an attempt one POST.  The durable  *)
(* state is the run's journal and the status of its record; a response is  *)
(* what the loop does next with it.  The run's claim (a kernel lock) lets  *)
(* one call of run() in at a time, so pc is the position of the call that  *)
(* holds it.  The process may die anywhere, its worker a little later.     *)
(*                                                                         *)
(* Between two awaits the code runs uninterrupted, but it may die between  *)
(* two writes: a step is one durable write, or one wait.  The worker's     *)
(* loop is deterministic, so the next life replays the same conversation   *)
(* (pi.context.frozen); the limits of the context, of tokens and of cost   *)
(* are "refused", or part of the response that passes them ("over").       *)
(***************************************************************************)
EXTENDS Naturals, FiniteSets

CONSTANTS
  MaxTurns,        \* budget.max_turns
  MaxAttempts,     \* profile.max_attempts
  MaxCorrections,  \* contract corrections of one run (2 in the code)
  Retry408,        \* profile.retry_received_408_once
  MaxCrashes       \* bound: how often the process dies

ASSUME RunAssumption ==
  /\ MaxTurns \in Nat \ {0} /\ MaxAttempts \in Nat \ {0}
  /\ MaxCorrections \in Nat /\ MaxCrashes \in Nat
  /\ Retry408 \in BOOLEAN

Turns    == 1..MaxTurns
Attempts == 1..MaxAttempts
Requests == Turns \X Attempts

VARIABLES
  \* The journal: model.turn.started, pi.response.received and the attempt it
  \* answers, model.turn.completed, tool.call.completed, model.attempt.*,
  started, response, answers, completed, tooled, attempt,
  \* model.turn.failed, model.turn.interrupted, judgment.validated, run.failed;
  failed, interrupted, validated, failure,
  status,          \* and the record of the run.
  entry, permits,  \* The parent's budget, as RequestLedger promises it.
  ready, sent,     \* POSTs a worker was told to make; how often each was made.
  pc, turn,        \* The call: its position, metrics.turns,
  tried,           \* the attempt of the current request,
  regenerated,     \* whether it used its 408 retry (regeneration_used),
  error,           \* the exception that ends it,
  returned,        \* and what the last call returned.
  crashes

journal  == <<started, response, answers, completed, tooled, attempt>>
ending   == <<failed, interrupted, validated, failure, status>>
budget   == <<entry, permits>>
world    == <<ready, sent>>
request  == <<tried, regenerated>>
vars     == <<journal, ending, budget, world, pc, turn, request, error, returned, crashes>>

Contents == {"tools", "invalid", "final", "over", "unusable"}
Failures == {"failed", "cancelled", "budget_exhausted", "human_input_required"}
Errors   == Failures \cup {"provider_failure"}

\* How an attempt fails: before generation (a classified 429; another refusal),
\* by a received 408, or so that nobody knows (5xx, transport).
NotStarted == {"rate_limited", "refused"}
Faults     == NotStarted \cup {"timeout408", "unknown"}

\* Where the call awaits its worker, a request slot or a tool.
Awaits == {"thinking", "admitted", "attempting", "waiting", "turned", "ended", "done"}
PCs == Awaits \cup
  {"idle", "opening", "reserved", "judging", "received", "observed", "settled", "finishing",
   "closing", "failing", "interrupting", "terminating", "committing"}

Budget == INSTANCE RequestLedger WITH Keys <- Requests

TypeOK ==
  /\ started \subseteq Turns /\ completed \subseteq Turns /\ tooled \subseteq Turns
  /\ response \in [Turns -> Contents \cup {"none"}]
  /\ answers \in [Turns -> 0..MaxAttempts]
  /\ attempt \in [Requests -> Faults \cup {"none", "dispatched", "succeeded"}]
  /\ failed \subseteq Turns /\ interrupted \subseteq Turns
  /\ validated \in BOOLEAN
  /\ failure \in Failures \cup {"none"}
  /\ status \in Failures \cup {"running", "completed"}
  /\ Budget!TypeOK
  /\ ready \subseteq Requests /\ sent \in [Requests -> Nat]
  /\ pc \in PCs
  /\ turn \in 0..MaxTurns /\ tried \in 0..MaxAttempts /\ regenerated \in BOOLEAN
  /\ error \in Errors \cup {"none"}
  /\ returned \in Failures \cup {"none", "completed", "raised"}
  /\ crashes \in 0..MaxCrashes

Init ==
  /\ started = {} /\ completed = {} /\ tooled = {}
  /\ response = [n \in Turns |-> "none"]
  /\ answers = [n \in Turns |-> 0]
  /\ attempt = [k \in Requests |-> "none"]
  /\ failed = {} /\ interrupted = {} /\ validated = FALSE
  /\ failure = "none" /\ status = "running"
  /\ Budget!Init
  /\ ready = {} /\ sent = [k \in Requests |-> 0]
  /\ pc = "idle" /\ turn = 0 /\ tried = 0 /\ regenerated = FALSE
  /\ error = "none" /\ returned = "none" /\ crashes = 0

Number  == turn + 1         \* the turn that comes next, or is under way
Current == <<Number, tried>>  \* the physical request under way

-----------------------------------------------------------------------------
(* The call and its memory. *)

Forget ==
  /\ pc' = "idle" /\ turn' = 0 /\ tried' = 0 /\ regenerated' = FALSE
  /\ error' = "none"

Return(result) == Forget /\ returned' = result

Goto(at) ==
  /\ pc' = at
  /\ UNCHANGED <<turn, request, error, returned>>

\* An exception leaves execute_pi; the worker it leaves behind is closed first.
Raise(e) ==
  /\ pc' = "closing" /\ error' = e
  /\ UNCHANGED <<turn, request, returned>>

CallRun ==
  /\ pc = "idle"
  /\ pc' = "opening" /\ returned' = "none"
  /\ UNCHANGED <<journal, ending, budget, world, turn, request, error, crashes>>

\* _terminal_result: a finished run answers with what it ended as.
ReopenTerminal ==
  /\ pc = "opening" /\ status # "running"
  /\ Return(status)
  /\ UNCHANGED <<journal, ending, budget, world, crashes>>

\* A failure that was appended and not committed is committed now.
ResumeFailure ==
  /\ pc = "opening" /\ status = "running" /\ failure # "none"
  /\ Goto("committing")
  /\ UNCHANGED <<journal, ending, budget, world, crashes>>

\* has_unresolved_model_dispatch
Unresolved == {n \in started \ completed : response[n] = "none"}

\* No regeneration: the run ends for a person to review.
RefuseUnresolved ==
  /\ pc = "opening" /\ status = "running" /\ failure = "none"
  /\ Unresolved # {}
  /\ pc' = "failing" /\ error' = "human_input_required"
  /\ turn' = Cardinality(completed)
  /\ UNCHANGED <<journal, ending, budget, world, request, returned, crashes>>

StartWorker ==
  /\ pc = "opening" /\ status = "running" /\ failure = "none"
  /\ Unresolved = {}
  /\ Goto("thinking")
  /\ UNCHANGED <<journal, ending, budget, world, crashes>>

(* Mutant of Cancel: nothing interrupts the wait for a response. *)
CancelBetweenRequests ==
  /\ pc \in Awaits \ {"waiting"}
  /\ \E e \in {"cancelled", "budget_exhausted"} : Raise(e)
  /\ UNCHANGED <<journal, ending, budget, world, crashes>>

\* The cancellation token or the wall clock, at any await (_run_with_control).
Cancel ==
  /\ pc \in Awaits
  /\ \E e \in {"cancelled", "budget_exhausted"} : Raise(e)
  /\ UNCHANGED <<journal, ending, budget, world, crashes>>

\* The worker exits, or breaks the protocol.
LoseWorker ==
  /\ pc \in {"thinking", "attempting", "waiting", "turned", "ended"}
  /\ Raise("failed")
  /\ UNCHANGED <<journal, ending, budget, world, crashes>>

Crash ==
  /\ pc # "idle" /\ crashes < MaxCrashes
  /\ crashes' = crashes + 1
  /\ Forget
  /\ UNCHANGED <<journal, ending, budget, world, returned>>

-----------------------------------------------------------------------------
(* A turn: PiRequestBoundary.callback. *)

\* record_turn: the turn counts, and may have spent more than the run may.
Record ==
  /\ turn' = Number
  /\ IF response[Number] = "over"
     THEN pc' = "closing" /\ error' = "budget_exhausted"
     ELSE pc' = "turned" /\ UNCHANGED error
  /\ UNCHANGED <<request, returned>>

\* model_admit of a turn that is completed.
ReplayTurn ==
  /\ pc = "thinking" /\ Number \in completed
  /\ Record
  /\ UNCHANGED <<journal, ending, budget, world, crashes>>

(* Mutant of ReplayResponse: only the turn itself is projected. *)
ReplayResponseUnsettled ==
  /\ pc = "thinking" /\ Number \in Turns \ completed /\ response[Number] # "none"
  /\ Goto("settled")
  /\ UNCHANGED <<journal, ending, budget, world, crashes>>

\* model_admit of a turn whose response is durable and not yet projected.
ReplayResponse ==
  /\ pc = "thinking" /\ Number \in Turns \ completed /\ response[Number] # "none"
  /\ Goto("received")
  /\ UNCHANGED <<journal, ending, budget, world, crashes>>

IsFresh(n) == n \in Turns \ (started \cup completed) /\ response[n] = "none"

Admit ==
  /\ pc = "thinking" /\ IsFresh(Number)
  /\ Goto("admitted")
  /\ UNCHANGED <<journal, ending, budget, world, crashes>>

\* The route, the turn limit, the context window, tokens and cost; after the
\* wait for a slot, the provider's identity.
RefuseRequest ==
  /\ \/ pc = "thinking" /\ IsFresh(Number) /\ \E e \in {"failed", "budget_exhausted"} : Raise(e)
     \/ pc = "thinking" /\ Number > MaxTurns /\ Raise("budget_exhausted")
     \/ pc = "admitted" /\ Raise("failed")
  /\ UNCHANGED <<journal, ending, budget, world, crashes>>

StartTurn ==
  /\ pc = "admitted"
  /\ started' = started \cup {Number}
  /\ tried' = 0 /\ regenerated' = FALSE
  /\ pc' = "attempting"
  /\ UNCHANGED <<response, answers, completed, tooled, attempt, ending, budget, world,
                 turn, error, returned, crashes>>

\* attempt_start: the budget admits the physical request ...
Reserve ==
  /\ pc = "attempting" /\ tried < MaxAttempts
  /\ tried' = tried + 1
  /\ Budget!Reserve(<<Number, tried + 1>>)
  /\ pc' = "reserved"
  /\ UNCHANGED <<journal, ending, world, turn, regenerated, error, returned, crashes>>

RefuseReservation ==
  /\ pc = "attempting" /\ tried < MaxAttempts
  /\ Raise("budget_exhausted")
  /\ UNCHANGED <<journal, ending, budget, world, crashes>>

\* ... it is recorded as dispatched, and the worker is told to go ahead.
Dispatch ==
  /\ pc = "reserved"
  /\ Budget!Permit(Current)
  /\ attempt' = [attempt EXCEPT ![Current] = "dispatched"]
  /\ ready' = ready \cup {Current}
  /\ Goto("waiting")
  /\ UNCHANGED <<started, response, answers, completed, tooled, ending, sent, crashes>>

\* The worker's POST: also after its harness died, until it notices.
Post(k) ==
  /\ k \in ready
  /\ ready' = ready \ {k}
  /\ sent' = [sent EXCEPT ![k] = @ + 1]
  /\ UNCHANGED <<journal, ending, budget, pc, turn, request, error, returned, crashes>>

\* attempt_end: the failure is recorded.  Nothing tells a POST that was lost
\* on its way from one whose answer was.
AttemptFails ==
  /\ pc = "waiting"
  /\ \E f \in Faults :
       /\ Current \in ready => f = "unknown"
       /\ attempt' = [attempt EXCEPT ![Current] = f]
  /\ ready' = ready \ {Current}
  /\ Goto("judging")
  /\ UNCHANGED <<started, response, answers, completed, tooled, ending, budget, sent, crashes>>

(* Mutant of MayRetry: a second 408 is retried as the first was. *)
MayRetryEvery408(f) ==
  /\ tried < MaxAttempts
  /\ f \in {"rate_limited"} \cup (IF Retry408 THEN {"timeout408"} ELSE {})

MayRetry(f) ==
  /\ tried < MaxAttempts
  /\ \/ f = "rate_limited"
     \/ f = "timeout408" /\ Retry408 /\ ~regenerated

(* Mutant of SettledBy: whatever failed cost nothing. *)
SettledByAnyFault(f) == TRUE

\* Only a request that was refused before generation is known to be free.
SettledBy(f) == f \in NotStarted

(* Mutant of JudgeFailure: a retry counts its attempts from the first. *)
JudgeFailureFromFirst ==
  /\ pc = "judging"
  /\ IF SettledBy(attempt[Current]) THEN Budget!Settle(Current) ELSE UNCHANGED budget
  /\ IF MayRetry(attempt[Current])
     THEN /\ pc' = "attempting" /\ tried' = 0
          /\ UNCHANGED <<turn, regenerated, error, returned>>
     ELSE Raise("provider_failure")
  /\ UNCHANGED <<journal, ending, world, crashes>>

JudgeFailure ==
  /\ pc = "judging"
  /\ IF SettledBy(attempt[Current]) THEN Budget!Settle(Current) ELSE UNCHANGED budget
  /\ IF MayRetry(attempt[Current])
     THEN /\ pc' = "attempting"
          /\ regenerated' = (regenerated \/ attempt[Current] = "timeout408")
          /\ UNCHANGED <<turn, tried, error, returned>>
     ELSE Raise("provider_failure")
  /\ UNCHANGED <<journal, ending, world, crashes>>

\* model_completed: the response is durable before anything reads it.
ReceiveResponse ==
  /\ pc = "waiting" /\ Current \notin ready
  /\ \E c \in Contents : response' = [response EXCEPT ![Number] = c]
  /\ answers' = [answers EXCEPT ![Number] = tried]
  /\ Goto("received")
  /\ UNCHANGED <<started, completed, tooled, attempt, ending, budget, world, crashes>>

\* commit_received, now or in a later life, of the request that was answered.
Answered(n) == <<n, answers[n]>>

RefuseResponse ==
  /\ pc = "received" /\ response[Number] = "unusable"
  /\ Raise("human_input_required")
  /\ UNCHANGED <<journal, ending, budget, world, crashes>>

ObserveSuccess ==
  /\ pc = "received" /\ response[Number] # "unusable"
  /\ attempt' = [attempt EXCEPT ![Answered(Number)] = "succeeded"]
  /\ Goto("observed")
  /\ UNCHANGED <<started, response, answers, completed, tooled, ending, budget, world, crashes>>

\* Settling what an earlier life settled changes nothing.
SettleUsage ==
  /\ pc = "observed"
  /\ IF entry[Answered(Number)] = "settled" THEN UNCHANGED budget
     ELSE Budget!Settle(Answered(Number))
  /\ Goto("settled")
  /\ UNCHANGED <<journal, ending, world, crashes>>

CompleteTurn ==
  /\ pc = "settled"
  /\ completed' = completed \cup {Number}
  /\ Record
  /\ UNCHANGED <<started, response, answers, tooled, attempt, ending, budget, world, crashes>>

-----------------------------------------------------------------------------
(* What the loop does with a response: the tool and turn_end callbacks. *)

\* A tool's result is executed once and replayed after.
ExecuteTool ==
  /\ pc = "turned" /\ response[turn] = "tools"
  /\ tooled' = tooled \cup {turn}
  /\ Goto("thinking")
  /\ UNCHANGED <<started, response, answers, completed, attempt, ending, budget, world, crashes>>

RefuseTool ==
  /\ pc = "turned" /\ response[turn] = "tools" /\ turn \notin tooled
  /\ Raise("failed")
  /\ UNCHANGED <<journal, ending, budget, world, crashes>>

Corrections == Cardinality({n \in 1..turn : response[n] = "invalid"})

Correct ==
  /\ pc = "turned" /\ response[turn] = "invalid"
  /\ IF Corrections > MaxCorrections THEN Raise("failed") ELSE Goto("thinking")
  /\ UNCHANGED <<journal, ending, budget, world, crashes>>

AcceptProposal ==
  /\ pc = "turned" /\ response[turn] = "final"
  /\ Goto("ended")
  /\ UNCHANGED <<journal, ending, budget, world, crashes>>

-----------------------------------------------------------------------------
(* The end of a run. *)

\* agent_end: _finish_judgment validates, then finishes.
ValidateJudgment ==
  /\ pc = "ended"
  /\ validated' = TRUE
  /\ Goto("finishing")
  /\ UNCHANGED <<journal, failed, interrupted, failure, status, budget, world, crashes>>

FinishJudgment ==
  /\ pc = "finishing"
  /\ status' = "completed"
  /\ Goto("done")
  /\ UNCHANGED <<journal, failed, interrupted, validated, failure, budget, world, crashes>>

\* The worker's last frame, or its loss, which no longer matters.
WorkerIsDone ==
  /\ pc = "done"
  /\ Return("completed")
  /\ UNCHANGED <<journal, ending, budget, world, crashes>>

CloseWorker ==
  /\ pc = "closing"
  /\ ready' = ready \ {Current}
  /\ Goto("failing")
  /\ UNCHANGED <<journal, ending, budget, sent, crashes>>

\* _finish_failure, one append after the other.
RecordProviderFailure ==
  /\ pc = "failing"
  /\ failed' = IF error = "provider_failure" THEN failed \cup {Number} ELSE failed
  /\ Goto("interrupting")
  /\ UNCHANGED <<journal, interrupted, validated, failure, status, budget, world, crashes>>

IsInterrupted ==
  \/ Number \in started \ (completed \cup failed)
  \/ error = "human_input_required"

(* Mutant of RecordInterruption: only the error says that a turn is open. *)
RecordReportedInterruption ==
  /\ pc = "interrupting"
  /\ interrupted' = IF error = "human_input_required" THEN interrupted \cup {Number}
                    ELSE interrupted
  /\ Goto("terminating")
  /\ UNCHANGED <<journal, failed, validated, failure, status, budget, world, crashes>>

RecordInterruption ==
  /\ pc = "interrupting"
  /\ interrupted' = IF IsInterrupted THEN interrupted \cup {Number} ELSE interrupted
  /\ Goto("terminating")
  /\ UNCHANGED <<journal, failed, validated, failure, status, budget, world, crashes>>

StatusOf(e) == IF e = "provider_failure" THEN "failed" ELSE e

(* Mutant of RecordFailure: the journal takes events of an ended run. *)
RecordFailureRegardless ==
  /\ pc = "terminating"
  /\ failure' = StatusOf(error) /\ Goto("committing")
  /\ UNCHANGED <<journal, failed, interrupted, validated, status, budget, world, crashes>>

\* RunJournal.append raises when the run has ended.
RecordFailure ==
  /\ pc = "terminating"
  /\ IF status = "running"
     THEN failure' = StatusOf(error) /\ Goto("committing")
     ELSE Return("raised") /\ UNCHANGED failure
  /\ UNCHANGED <<journal, failed, interrupted, validated, status, budget, world, crashes>>

\* _commit_failure_terminal: reopening a failure beside a judgement raises.
CommitFailure ==
  /\ pc = "committing"
  /\ IF validated
     THEN Return("raised") /\ UNCHANGED status
     ELSE status' = failure /\ Return(failure)
  /\ UNCHANGED <<journal, failed, interrupted, validated, failure, budget, world, crashes>>

-----------------------------------------------------------------------------
\* What the harness does by itself, without waiting for anybody.
Harness ==
  \/ ReopenTerminal \/ ResumeFailure \/ RefuseUnresolved \/ StartWorker
  \/ Dispatch \/ JudgeFailure
  \/ RefuseResponse \/ ObserveSuccess \/ SettleUsage \/ CompleteTurn
  \/ FinishJudgment \/ CloseWorker
  \/ RecordProviderFailure \/ RecordInterruption \/ RecordFailure \/ CommitFailure

\* What it does when the worker calls or a slot is free.
Callback ==
  \/ ReplayTurn \/ ReplayResponse \/ Admit \/ RefuseRequest \/ StartTurn
  \/ Reserve \/ RefuseReservation \/ AttemptFails \/ ReceiveResponse
  \/ ExecuteTool \/ RefuseTool \/ Correct \/ AcceptProposal
  \/ ValidateJudgment \/ WorkerIsDone

Next ==
  \/ CallRun \/ Harness \/ Callback \/ Cancel \/ LoseWorker \/ Crash
  \/ \E k \in Requests : Post(k)

Spec == Init /\ [][Next]_vars

\* The harness runs, the wall clock interrupts every await, and an unfinished
\* run is called again.  Nothing is assumed of the worker or the provider.
FairSpec ==
  /\ Spec
  /\ WF_vars(Harness) /\ WF_vars(Cancel)
  /\ WF_vars(status = "running" /\ CallRun)

-----------------------------------------------------------------------------
(* Properties. *)

\* An attempt that was followed by another POST of its turn.
Superseded(n) ==
  {a \in Attempts : \E b \in Attempts : b > a /\ sent[<<n, b>>] > 0}

\* Whatever fails, crashes or is called again, no POST is made twice, and a
\* turn is sent again only when the provider said that it did not generate, but
\* for the one 408 the profile authorizes (attempt_end, model_admit,
\* has_unresolved_model_dispatch).
NoBlindRegeneration ==
  /\ \A k \in Requests : sent[k] <= 1
  /\ \A n \in Turns :
       /\ \A a \in Superseded(n) :
            attempt[<<n, a>>] \in {"rate_limited"} \cup (IF Retry408 THEN {"timeout408"} ELSE {})
       /\ \A a, b \in Superseded(n) :
            attempt[<<n, a>>] = "timeout408" /\ attempt[<<n, b>>] = "timeout408" => a = b

\* A POST leaves only when its reservation and its dispatch are durable, and
\* its reservation is held until the provider answered it or refused to
\* generate ("unknown generation retains its reservation"): also that of a
\* worker that outlives its harness.
PostsAreAccounted ==
  \A k \in Requests :
    /\ (k \in ready \/ sent[k] > 0) => entry[k] # "free" /\ attempt[k] # "none"
    /\ entry[k] = "settled" => attempt[k] \in NotStarted \cup {"succeeded"}

\* A run completes on a final response to a conversation without gaps: every
\* turn before it completed, paid for, its tools executed, its corrections
\* within bounds; in whichever lives that was done.
CompletedIsBacked ==
  validated => \E last \in Turns :
    /\ completed = 1..last /\ started = completed
    /\ response[last] = "final"
    /\ \A n \in 1..(last - 1) :
         (response[n] = "tools" /\ n \in tooled) \/ response[n] = "invalid"
    /\ Cardinality({n \in completed : response[n] = "invalid"}) <= MaxCorrections
    /\ \A n \in completed : entry[Answered(n)] = "settled"

\* A run that failed says so of every request it cannot account for: a turn
\* that was started has its response, or is recorded as failed or interrupted
\* (_finish_failure numbers it from the turns this life happened to count).
AmbiguityIsReported ==
  failure # "none" =>
    \A n \in started : response[n] # "none" \/ n \in failed \cup interrupted

\* A run ends once: its record agrees with its journal, and what a call
\* returned is what the record says.
OneOutcome ==
  /\ status \in Failures => failure = status /\ ~validated
  /\ status = "completed" => validated /\ failure = "none"
  /\ returned \notin {"none", "raised"} => returned = status

\* The budget refuses a key it has seen ("no regeneration") and the settlement
\* of a request it did not admit: across attempts and lives the boundary asks
\* for neither.
KeysAreUnspent ==
  /\ pc = "attempting" /\ tried < MaxAttempts => entry[<<Number, tried + 1>>] = "free"
  /\ pc = "judging" => entry[Current] = "reserved" /\ permits[Current] = 1
  /\ pc = "observed" => permits[Answered(Number)] = 1

\* A run ends, for good, unless a failure was recorded beside a validated judgement:
\* reopen_authoritative_agent_terminal calls that "an invalid terminal event chain".
RunEnds == <>[](status # "running" \/ (validated /\ failure # "none"))

=============================================================================
