----------------------------- MODULE TriageRun -----------------------------
(***************************************************************************)
(* One member of a triage work plan: the run of one role on one work unit  *)
(* (event_impact_triage_work_runtime.py), the one-shot role boundary it    *)
(* calls (execute_pi_once, pi_execution.py), and the second run that an    *)
(* operator may authorize in its place: a replacement of an ambiguous run  *)
(* (_work_replacement.py) or the repair of its final response              *)
(* (_work_format_recovery.py).                                             *)
(*                                                                         *)
(* The plan calls the member, seals its usage, and may do so again after   *)
(* any end of the process.  The claim of the plan lets one such call in at *)
(* a time, so pc is the position of the call that holds it.  A step is one *)
(* durable write or one wait; the process may die between any two.         *)
(*                                                                         *)
(* log is the projection of the journal that the member reads: a dispatch, *)
(* how an attempt failed, an answer, and what ended the run.  The boundary *)
(* keeps its own records beside it: opened and reply.                      *)
(***************************************************************************)
EXTENDS Naturals, Sequences, FiniteSets

CONSTANTS
  MaxTurns,     \* binding.max_turns
  MaxAttempts,  \* profile.max_attempts
  MaxCrashes,   \* bound: how often the process dies
  MaxDelays     \* bound: how often the provider cannot be prepared

ASSUME TriageRunAssumption ==
  /\ MaxTurns \in Nat \ {0} /\ MaxAttempts \in Nat \ {0}
  /\ MaxCrashes \in Nat /\ MaxDelays \in Nat

Turns == 1..MaxTurns
Runs  == {"original", "replacement", "repair"}

\* What a reply holds: a valid output, one that breaks the contract, a valid one
\* whose usage passes the budget, or a configured secret.  (No usable turn at all is
\* an exception of the boundary, each time it is read.)
Contents == {"valid", "malformed", "over", "secret"}
Valid    == {"valid", "over"}

\* model.request.failed: retried (a classified 429, the one 408), declined by the
\* provider, or with an unknown outcome; "timedout" is the harness's own clock.
Failed == {"safe", "regenerable", "refused", "unknown", "timedout"}
\* model.request.ambiguous, with the dispatch it is about, and without one.
Ambiguous == {"ambiguous", "interrupted", "orphaned"}
Events == {"dispatched", "answered", "secret", "declined", "blocked", "unprepared",
           "validated", "repaired"} \cup Failed \cup Ambiguous

Endings == {"completed", "failed", "budget", "human"}

VARIABLES
  log,         \* of each run: the events of its journal
  opened,      \* of each run: turns whose request the boundary admitted
  reply,       \* of each run and turn: the durable reply of the provider
  status,      \* of each run: its record
  sealed,      \* of each run: provider attempts in its terminal artifact
  usage,       \* of each run: attempts in its usage records
  substitute,  \* the run authorized in place of the original
  oversized,   \* whether the prompt passes the serialized ceiling; the input decides
  pc, run, turn,
  asked,       \* physical dispatches of the current request
  spent,       \* metrics.provider_attempts
  verdict,     \* the status about to be sealed, or returned
  crashes, delays

journal == <<log, opened, reply>>
records == <<status, sealed, usage>>
call    == <<pc, run, turn, asked, spent, verdict>>
bounds  == <<crashes, delays>>
setting == <<substitute, oversized>>
vars    == <<journal, records, setting, call, bounds>>

MaxSpent == MaxTurns * MaxAttempts + 1

PCs == {"idle", "claimed", "admitting", "preparing", "invoking", "requesting", "attempted",
        "retrying", "replied", "received", "judging", "late", "faulted", "ending", "validating",
        "returned", "accepting"}

TypeOK ==
  /\ log \in [Runs -> Seq(Events)]
  /\ opened \in [Runs -> SUBSET Turns]
  /\ reply \in [Runs -> [Turns -> Contents \cup {"none"}]]
  /\ status \in [Runs -> Endings \cup {"none", "running"}]
  /\ sealed \in [Runs -> 0..MaxSpent]
  /\ usage \in [Runs -> SUBSET (0..MaxSpent)]
  /\ substitute \in {"none", "replacement", "repair"} /\ oversized \in BOOLEAN
  /\ pc \in PCs /\ run \in Runs /\ turn \in 0..MaxTurns + 1
  /\ asked \in 0..MaxAttempts /\ spent \in 0..MaxSpent
  /\ verdict \in Endings \cup {"none", "open", "raised"}
  /\ crashes \in 0..MaxCrashes /\ delays \in 0..MaxDelays

Init ==
  /\ log = [r \in Runs |-> <<>>]
  /\ opened = [r \in Runs |-> {}]
  /\ reply = [r \in Runs |-> [n \in Turns |-> "none"]]
  /\ status = [r \in Runs |-> "none"]
  /\ sealed = [r \in Runs |-> 0]
  /\ usage = [r \in Runs |-> {}]
  /\ substitute = "none" /\ oversized \in BOOLEAN
  /\ pc = "idle" /\ run = "original" /\ turn = 0
  /\ asked = 0 /\ spent = 0 /\ verdict = "none"
  /\ crashes = 0 /\ delays = 0

-----------------------------------------------------------------------------
(* Reading a journal. *)

Count(s, kinds) == Cardinality({i \in DOMAIN s : s[i] \in kinds})
Last(s) == s[Len(s)]
SameTurn(s, i, k) == \A j \in i..k : s[j] # "answered"

\* Whether the turn under way has an event of this kind: the identifiers of the events
\* name their turn.
Already(s, kind) == \E i \in DOMAIN s : s[i] = kind /\ SameTurn(s, i, Len(s))
Ended(r) == status[r] \in Endings

\* _partition_model_turn_events: a turn is attempts that failed and one that was
\* answered, and failed preparations may come before it; what follows the last turn is
\* the tail, without the failed preparations that open it.
Chained(s, k) ==
  \/ /\ s[k] \in Failed \cup {"answered"}
     /\ k > 1 /\ s[k - 1] = "dispatched"
  \/ /\ s[k] = "dispatched"
     /\ k > 1 => s[k - 1] \in Failed \cup {"unprepared", "answered"}
  \/ /\ s[k] = "unprepared"
     /\ k > 1 => s[k - 1] \in {"unprepared", "answered"}
IsTurnEnd(r, i) == log[r][i] = "answered" /\ \A k \in 1..i : Chained(log[r], k)
Groups(r) == Cardinality({i \in DOMAIN log[r] : IsTurnEnd(r, i)})
Since(r)  == {i \in DOMAIN log[r] : \A k \in i..Len(log[r]) : ~IsTurnEnd(r, k)}
Trailing(r) == {i \in Since(r) : \E k \in Since(r) : k =< i /\ log[r][k] # "unprepared"}
TrailingKinds(r) == {log[r][i] : i \in Trailing(r)}

\* _physical_provider_attempt_count
Attempts(r) ==
  IF Count(log[r], {"dispatched"}) > 0 THEN Count(log[r], {"dispatched"})
                                       ELSE Count(log[r], Ambiguous)

\* Those of the answered turns alone.
Projected(r) ==
  Cardinality({i \in DOMAIN log[r] : log[r][i] = "dispatched" /\ i \notin Since(r)})

(* Mutant of Prior: a replacement starts with every turn of its binding. *)
PriorForgotten(r) == 0

\* Turns that the original run spent count against its replacement.
Prior(r) == IF r = "replacement" THEN Count(log["original"], {"answered"}) ELSE 0

\* _unresolved_model_dispatches: nothing names the dispatch, and no reply is durable.
Unresolved(r) ==
  \E i \in DOMAIN log[r] :
    /\ log[r][i] = "dispatched"
    /\ \A k \in i + 1..Len(log[r]) :
         log[r][k] \notin Failed \cup {"ambiguous", "interrupted", "declined", "answered", "secret"}
    /\ \A n \in opened[r] : n > Prior(r) + Groups(r) => reply[r][n] = "none"

\* The output of the last answered turn.
Output(r) == reply[r][Prior(r) + Groups(r)]
HasOutput(r) == Groups(r) > 0 /\ Output(r) \in Valid

\* _trailing_attempts_are_safe_rejections
SafeTail(r) == TrailingKinds(r) = {"dispatched", "safe"} /\ Last(log[r]) = "safe"

\* A pending reply is looked for under the ordinal of this run alone.
PendingReply(r) ==
  /\ Groups(r) < MaxTurns /\ reply[r][Groups(r) + 1] # "none"
  /\ TrailingKinds(r) \subseteq {"dispatched"} \cup Failed

\* _recover_nonterminal_member: what the journal of an unfinished run says of it.
Reading(r) ==
  IF HasOutput(r) THEN (IF Trailing(r) = {} THEN "completed" ELSE "unreadable")
  ELSE IF Groups(r) >= MaxTurns THEN "failed"
  ELSE IF Trailing(r) = {} \/ PendingReply(r) \/ SafeTail(r) THEN "open"
  ELSE IF Last(log[r]) \in Ambiguous \cup Failed \cup {"declined", "blocked"} THEN "human"
  ELSE IF Last(log[r]) = "secret" THEN "failed"
  ELSE "unreadable"

-----------------------------------------------------------------------------
(* The call. *)

Write(event) == log' = [log EXCEPT ![run] = Append(@, event)]

Goto(at) == pc' = at /\ UNCHANGED <<run, turn, asked, spent, verdict>>

Forget ==
  /\ pc' = "idle" /\ run' = "original" /\ turn' = 0 /\ asked' = 0 /\ spent' = 0

\* The call ends, with a status or with an exception that nothing handles.
Leave(how) == Forget /\ verdict' = how

Crash ==
  /\ pc # "idle" /\ crashes < MaxCrashes
  /\ crashes' = crashes + 1
  /\ Leave("none")
  /\ UNCHANGED <<journal, records, setting, delays>>

\* _member_run_id: a failed run gives way to its repair, an ambiguous one to its
\* replacement.
Selected ==
  IF \/ substitute = "repair" /\ status["original"] = "failed"
     \/ substitute = "replacement" /\ status["original"] = "human"
  THEN substitute ELSE "original"

CallMember ==
  /\ pc = "idle"
  /\ pc' = "claimed" /\ run' = Selected
  /\ turn' = 0 /\ asked' = 0 /\ spent' = 0 /\ verdict' = "none"
  /\ UNCHANGED <<journal, records, setting, bounds>>

\* _replacement_prior_metrics: what the original was charged must be what its
\* journal says.  The call raises otherwise, which CompletedIsCharged excludes.
ChargedAsJournaled ==
  sealed["original"] = Attempts("original") /\ usage["original"] = {Attempts("original")}

\* The ceiling is checked before anything of the run is read.
SealOversized ==
  /\ pc = "claimed" /\ run # "repair" /\ oversized
  /\ IF Ended(run) THEN UNCHANGED status /\ Leave("raised")
     ELSE /\ status' = [status EXCEPT ![run] = "running"]
          /\ pc' = "ending" /\ verdict' = "budget" /\ UNCHANGED <<run, turn, asked, spent>>
  /\ UNCHANGED <<journal, sealed, usage, setting, bounds>>

Opens ==
  /\ pc = "claimed" /\ run # "repair" /\ ~oversized
  /\ run = "replacement" => ChargedAsJournaled

StartRun ==
  /\ Opens /\ status[run] = "none"
  /\ status' = [status EXCEPT ![run] = "running"]
  /\ pc' = "admitting" /\ turn' = Prior(run) + 1
  /\ UNCHANGED <<journal, sealed, usage, setting, run, asked, spent, verdict, bounds>>

ReopenTerminal ==
  /\ Opens /\ Ended(run)
  /\ pc' = "returned" /\ verdict' = status[run] /\ spent' = Attempts(run)
  /\ UNCHANGED <<journal, records, setting, run, turn, asked, bounds>>

\* A dispatch that nothing resolves is never sent again.
SealInterrupted ==
  /\ Opens /\ status[run] = "running" /\ Unresolved(run)
  /\ Write("interrupted")
  /\ pc' = "ending" /\ verdict' = "human" /\ spent' = Attempts(run)
  /\ UNCHANGED <<opened, reply, records, setting, run, turn, asked, bounds>>

(* Mutant of Recovering: a record that has ended is read once more. *)
RecoveringEnded == Opens /\ status[run] # "none" /\ ~Unresolved(run)

Recovering == Opens /\ status[run] = "running" /\ ~Unresolved(run)

RecoverEnding ==
  /\ Recovering /\ Reading(run) \in {"completed", "failed", "human"}
  /\ pc' = IF Reading(run) = "completed" THEN "validating" ELSE "ending"
  /\ verdict' = Reading(run) /\ spent' = Attempts(run)
  /\ UNCHANGED <<journal, records, setting, run, turn, asked, bounds>>

(* Mutant of RecoverTurn: the dispatch of a pending reply is counted now as well. *)
RecoverTurnCountedTwice ==
  /\ Recovering /\ Reading(run) = "open"
  /\ pc' = "admitting" /\ turn' = Prior(run) + Groups(run) + 1
  /\ spent' = Attempts(run)
  /\ UNCHANGED <<journal, records, setting, run, asked, verdict, bounds>>

(* Mutant of RecoverTurn: the turn after the last one is skipped. *)
RecoverTurnSkipsOne ==
  /\ Recovering /\ Reading(run) = "open"
  /\ pc' = "admitting" /\ turn' = Prior(run) + Groups(run) + 2
  /\ spent' = IF Trailing(run) # {} /\ PendingReply(run) THEN Projected(run) ELSE Attempts(run)
  /\ UNCHANGED <<journal, records, setting, run, asked, verdict, bounds>>

\* A pending reply is counted when it is projected, an attempt without one now.
RecoverTurn ==
  /\ Recovering /\ Reading(run) = "open"
  /\ pc' = "admitting" /\ turn' = Prior(run) + Groups(run) + 1
  /\ spent' = IF Trailing(run) # {} /\ PendingReply(run) THEN Projected(run) ELSE Attempts(run)
  /\ UNCHANGED <<journal, records, setting, run, asked, verdict, bounds>>

\* "continued after a valid recovered response", "has an invalid event tail"
RecoverNothing ==
  /\ Recovering /\ Reading(run) = "unreadable"
  /\ Leave("raised")
  /\ UNCHANGED <<journal, records, setting, bounds>>

-----------------------------------------------------------------------------
(* The turn loop. *)

Pending == turn \in Turns /\ reply[run][turn] # "none"

BlockedByHealth ==
  /\ pc = "admitting" /\ ~Pending
  /\ Write("blocked")
  /\ pc' = "ending" /\ verdict' = "human"
  /\ UNCHANGED <<opened, reply, records, setting, run, turn, asked, spent, bounds>>

EnterLoop ==
  /\ pc = "admitting"
  /\ Goto("preparing")
  /\ UNCHANGED <<journal, records, setting, bounds>>

\* No turn is left, or its input, output or cost is not.
RefuseTurn ==
  /\ pc = "preparing"
  /\ pc' = "ending" /\ verdict' = "budget"
  /\ UNCHANGED <<journal, records, setting, run, turn, asked, spent, bounds>>

\* The run stays open; "the unchanged Run can be retried by a later invocation".
PreparationFails ==
  /\ pc = "preparing" /\ turn \in Turns /\ ~Pending /\ delays < MaxDelays
  /\ delays' = delays + 1
  /\ Write("unprepared")
  /\ Leave("open")
  /\ UNCHANGED <<opened, reply, records, setting, crashes>>

\* A pending reply keeps the dispatches it answers.
Invoke ==
  /\ pc = "preparing" /\ turn \in Turns
  /\ pc' = "invoking"
  /\ asked' = IF Pending THEN Attempts(run) - Projected(run) ELSE 0
  /\ UNCHANGED <<journal, records, setting, run, turn, spent, verdict, bounds>>

\* model_admit: one admission per turn, over all lives of the run.
OpenRequest ==
  /\ pc = "invoking" /\ ~Pending /\ turn \notin opened[run]
  /\ opened' = [opened EXCEPT ![run] = @ \cup {turn}]
  /\ Goto("requesting")
  /\ UNCHANGED <<log, reply, records, setting, bounds>>

\* A durable reply is projected again, never asked for again.
ReplayReply ==
  /\ pc = "invoking" /\ Pending
  /\ Goto("replied")
  /\ UNCHANGED <<journal, records, setting, bounds>>

Dispatch ==
  /\ pc \in {"requesting", "retrying"} /\ asked < MaxAttempts
  /\ Write("dispatched")
  /\ pc' = "attempted" /\ asked' = asked + 1
  /\ UNCHANGED <<opened, reply, records, setting, run, turn, spent, verdict, bounds>>

\* attempt_end: another attempt follows only what it may.
AttemptRetried(fault) ==
  /\ fault = "regenerable" => ~Already(log[run], "regenerable")
  /\ asked < MaxAttempts
  /\ Write(fault)
  /\ Goto("retrying")

AttemptFails(fault) ==
  /\ fault = "safe" => asked = MaxAttempts
  /\ Write(fault)
  /\ Goto("faulted")

(* Mutant of EndAttempt: a transport error with an unknown outcome is tried again. *)
EndAttemptRetriesUnknown ==
  /\ pc = "attempted"
  /\ \/ \E fault \in {"safe", "regenerable", "unknown"} : AttemptRetried(fault)
     \/ \E fault \in {"safe", "refused", "unknown"} : AttemptFails(fault)
  /\ UNCHANGED <<opened, reply, records, setting, bounds>>

EndAttempt ==
  /\ pc = "attempted"
  /\ \/ \E fault \in {"safe", "regenerable"} : AttemptRetried(fault)
     \/ \E fault \in {"safe", "refused", "unknown"} : AttemptFails(fault)
  /\ UNCHANGED <<opened, reply, records, setting, bounds>>

\* The last attempt's failure ends the run for a person to review.
RecordFailure ==
  /\ pc = "faulted"
  /\ Write(IF Last(log[run]) = "unknown" THEN "ambiguous" ELSE "declined")
  /\ pc' = "ending" /\ verdict' = "human" /\ spent' = spent + asked
  /\ UNCHANGED <<opened, reply, records, setting, run, turn, asked, bounds>>

\* model_completed: the reply is durable before anyone looks at it.
ReceiveReply ==
  /\ pc = "attempted"
  /\ \E content \in Contents :
       /\ reply' = [reply EXCEPT ![run][turn] = content]
       /\ Goto("replied")
  /\ UNCHANGED <<log, opened, records, setting, bounds>>

Waits == {"invoking", "requesting", "attempted", "retrying", "replied"}

\* Any other exception of the boundary: a request that an earlier life admitted, an
\* unusable reply, a lost worker.  It counts one attempt and names no dispatch.
BoundaryFails ==
  /\ pc \in Waits
  /\ Write("orphaned")
  /\ pc' = "ending" /\ verdict' = "human" /\ spent' = spent + 1
  /\ UNCHANGED <<opened, reply, records, setting, run, turn, asked, bounds>>

\* The wall clock ends the wait, whatever has arrived.  A turn has one such event: the
\* second is refused, and the exception fails the run.
WaitTimesOut ==
  /\ pc \in Waits /\ ~Already(log[run], "timedout")
  /\ Write("timedout")
  /\ Goto("late")
  /\ UNCHANGED <<opened, reply, records, setting, bounds>>

WaitTimesOutAgain ==
  /\ pc \in Waits /\ Already(log[run], "timedout")
  /\ pc' = "ending" /\ verdict' = "failed"
  /\ UNCHANGED <<journal, records, setting, run, turn, asked, spent, bounds>>

RecordTimeout ==
  /\ pc = "late"
  /\ Write(IF asked > 0 THEN "ambiguous" ELSE "orphaned")
  /\ pc' = "ending" /\ verdict' = "human"
  /\ spent' = spent + (IF asked > 0 THEN asked ELSE 1)
  /\ UNCHANGED <<opened, reply, records, setting, run, turn, asked, bounds>>

\* run_once returns: the reply becomes an answer of this run.
ProjectAnswer ==
  /\ pc = "replied" /\ reply[run][turn] # "secret"
  /\ Write("answered")
  /\ pc' = "judging" /\ spent' = spent + asked
  /\ UNCHANGED <<opened, reply, records, setting, run, turn, asked, verdict, bounds>>

RejectSecret ==
  /\ pc = "replied" /\ reply[run][turn] = "secret"
  /\ Write("secret")
  /\ pc' = "ending" /\ verdict' = "failed" /\ spent' = spent + asked
  /\ UNCHANGED <<opened, reply, records, setting, run, turn, asked, bounds>>

JudgeAnswer ==
  /\ pc = "judging"
  /\ \/ /\ reply[run][turn] = "over"
        /\ pc' = "ending" /\ verdict' = "budget" /\ UNCHANGED turn
     \/ /\ reply[run][turn] = "valid"
        /\ pc' = "validating" /\ verdict' = "completed" /\ UNCHANGED turn
     \/ /\ reply[run][turn] \notin Valid /\ turn >= MaxTurns
        /\ pc' = "ending" /\ verdict' = "failed" /\ UNCHANGED turn
     \/ /\ reply[run][turn] \notin Valid /\ turn < MaxTurns
        /\ pc' = "preparing" /\ turn' = turn + 1 /\ UNCHANGED verdict
  /\ UNCHANGED <<journal, records, setting, run, asked, spent, bounds>>

-----------------------------------------------------------------------------
(* Ends. *)

\* _seal_completed writes the validation first, the end of the run next.
Validate ==
  /\ pc = "validating"
  /\ Write("validated")
  /\ Goto("ending")
  /\ UNCHANGED <<opened, reply, records, setting, bounds>>

Finish ==
  /\ pc = "ending"
  /\ status' = [status EXCEPT ![run] = verdict]
  /\ sealed' = [sealed EXCEPT ![run] = spent]
  /\ Goto("returned")
  /\ UNCHANGED <<journal, usage, setting, bounds>>

\* _append_usage: one record for each run; one that is there must be the same.
SealUsage ==
  /\ pc = "returned" /\ run # "repair"
  /\ IF usage[run] \in {{}, {spent}}
       THEN /\ usage' = [usage EXCEPT ![run] = {spent}]
            /\ IF verdict = "completed" THEN Goto("accepting") ELSE Leave(verdict)
       ELSE UNCHANGED usage /\ Leave("raised")
  /\ UNCHANGED <<journal, status, sealed, setting, bounds>>

\* _reopen_completed_member: the journal of the run is a chain of turns, the last of
\* which was validated, and stays in its budget.
IsAuthoritative(r) == TrailingKinds(r) = {"validated"} /\ Output(r) = "valid"

AcceptOutput ==
  /\ pc = "accepting"
  /\ Leave(IF IsAuthoritative(run) THEN "completed" ELSE "raised")
  /\ UNCHANGED <<journal, records, setting, bounds>>

-----------------------------------------------------------------------------
(* The second run. *)

\* authorize_once of a replacement: the run ended in doubt about a dispatch it names,
\* and was charged for it.
AuthorizeReplacement ==
  /\ substitute = "none" /\ status["original"] = "human" /\ usage["original"] # {}
  /\ Last(log["original"]) \in {"ambiguous", "interrupted"}
  /\ substitute' = "replacement"
  /\ UNCHANGED <<journal, records, oversized, call, bounds>>

(* Mutant of AuthorizeRepair: a run that was never charged is repaired as well. *)
AuthorizeUncharged ==
  /\ substitute = "none" /\ status["original"] = "failed"
  /\ Last(log["original"]) = "answered" /\ Groups("original") = MaxTurns
  /\ substitute' = "repair"
  /\ UNCHANGED <<journal, records, oversized, call, bounds>>

\* authorize_format_recovery: every turn was answered, the last answer can be read
\* once its punctuation is repaired.
AuthorizeRepair ==
  /\ substitute = "none" /\ status["original"] = "failed" /\ usage["original"] # {}
  /\ Last(log["original"]) = "answered" /\ Groups("original") = MaxTurns
  /\ substitute' = "repair"
  /\ UNCHANGED <<journal, records, oversized, call, bounds>>

StartRepair ==
  /\ pc = "claimed" /\ run = "repair" /\ status[run] = "none"
  /\ status' = [status EXCEPT ![run] = "running"]
  /\ UNCHANGED <<journal, sealed, usage, setting, call, bounds>>

\* The event is the same each time: a second append finds it there.  A repair is
\* charged to the original.
WriteRepair ==
  /\ pc = "claimed" /\ run = "repair" /\ status[run] = "running"
  /\ log' = [log EXCEPT ![run] = <<"repaired">>]
  /\ pc' = "ending" /\ verdict' = "completed" /\ spent' = Attempts("original")
  /\ UNCHANGED <<opened, reply, records, setting, run, turn, asked, bounds>>

ReopenRepair ==
  /\ \/ pc = "claimed" /\ run = "repair" /\ Ended(run)
     \/ pc = "returned" /\ run = "repair"
  /\ Leave(IF usage["original"] = {Attempts("original")} THEN "completed" ELSE "raised")
  /\ UNCHANGED <<journal, records, setting, bounds>>

-----------------------------------------------------------------------------
Work ==
  \/ SealOversized \/ StartRun \/ ReopenTerminal \/ SealInterrupted
  \/ RecoverEnding \/ RecoverTurn \/ RecoverNothing
  \/ BlockedByHealth \/ EnterLoop \/ RefuseTurn \/ Invoke
  \/ OpenRequest \/ ReplayReply \/ Dispatch \/ EndAttempt \/ RecordFailure
  \/ ReceiveReply \/ BoundaryFails \/ WaitTimesOut \/ WaitTimesOutAgain \/ RecordTimeout
  \/ ProjectAnswer \/ RejectSecret \/ JudgeAnswer
  \/ Validate \/ Finish \/ SealUsage \/ AcceptOutput
  \/ StartRepair \/ WriteRepair \/ ReopenRepair

Next ==
  \/ Work \/ CallMember \/ PreparationFails \/ Crash
  \/ AuthorizeReplacement \/ AuthorizeRepair

Spec == Init /\ [][Next]_vars

-----------------------------------------------------------------------------
(* Safety *)

\* A request is sent again only after the provider refused it before generation, or
\* once after its 408, whatever process it was sent by (execute_pi_once, the unresolved
\* dispatches of _run_member_claimed): no answer is ever asked for twice.
NoBlindRepeat ==
  \A r \in Runs : \A i, k \in DOMAIN log[r] :
    /\ i < k /\ log[r][i] = "dispatched" /\ log[r][k] = "dispatched"
    /\ SameTurn(log[r], i, k)
    => /\ log[r][i + 1] \in {"safe", "regenerable"}
       /\ log[r][i + 1] = "regenerable" =>
            \A n \in 1..i : log[r][n] = "regenerable" => ~SameTurn(log[r], n, i)

\* A replacement spends the turns its original left, over all its lives
\* (_replacement_prior_metrics, first_turn_number).
TurnsAreShared ==
  Count(log["original"], {"answered"}) + Count(log["replacement"], {"answered"}) =< MaxTurns

\* Whatever calls a completed run took, it is charged once and for every dispatch in
\* its journal (_append_usage, _metrics_from_events), or the plan could never end; and a
\* replacement never finds that its original was charged for anything else.
CompletedIsCharged ==
  /\ \A r \in Runs \ {"repair"} :
       status[r] = "completed" => sealed[r] = Attempts(r) /\ usage[r] \subseteq {Attempts(r)}
  /\ substitute = "replacement" => ChargedAsJournaled

\* At most one run of a member completes, and a second run never exists beside an
\* original that is uncharged or that holds an answer the plan may still accept.
OneVerdict ==
  \A r \in Runs \ {"original"} :
    status[r] # "none" =>
      /\ substitute = r /\ status["original"] \in {"failed", "human"}
      /\ usage["original"] # {} /\ ~HasOutput("original")

(* Implementation *)

Effective == IF substitute = "none" THEN "original" ELSE substitute
Job == INSTANCE TriageJobs WITH
  Jobs <- {"job"},
  outcome <- [j \in {"job"} |-> IF Ended(Effective) THEN status[Effective] ELSE "open"],
  second <- [j \in {"job"} |-> substitute # "none"]

\* The member is one job of the plan: it ends once, and is taken up once more at most.
ImplementsJob == Job!Spec
=============================================================================
