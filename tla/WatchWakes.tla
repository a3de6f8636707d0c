----------------------------- MODULE WatchWakes -----------------------------
(***************************************************************************)
(* From an agent's request for a watch to the judgment that answers its    *)
(* wakes: the admission of requests (agent_watch_admission.py), which      *)
(* share a watch or get one of their own; the dispatch of a wake to every  *)
(* request that shares its watch (agent_watch_wake_dispatch.py); and the   *)
(* one model run of each such callback (agent_watch_wake_judgment.py, with *)
(* the one-role runner of event_impact_triage_runtime.py).  The watches    *)
(* are those of AttentionWatch.                                            *)
(*                                                                         *)
(* Runners are processes of run_triage_watch_wake_callbacks.  A callback   *)
(* is a wake and a request; it has a run in the dispatch journal and the   *)
(* run of its role in a journal of its own, each under an exclusive claim  *)
(* that dies with its process.  A runner may die, or raise, at any point.  *)
(***************************************************************************)
EXTENDS AttentionWatch

CONSTANTS
  Requests,
  Runners,
  Scope,       \* of each request: operational_scope_key
  Parent,      \* of each request: parent_ref
  MaxChildren, \* maximum_children_per_parent
  MaxActive,   \* maximum_active_watches
  MaxTurns     \* callback_max_turns

ASSUME WatchWakesAssumption ==
  /\ Owners \subseteq Requests
  /\ MaxChildren \in Nat /\ MaxActive \in Nat /\ MaxTurns \in Nat \ {0}

Callbacks == Wakes \X Requests

\* An answer: a valid proposal, one that breaks the contract, one over the budget, and
\* one that _validate_turn refuses (another model, a tool call).
Answers == {"valid", "malformed", "over", "unusable"}

VARIABLES
  outcome,     \* of each request: its admission
  owner,       \* of each accepted request: the request whose watch it shares
  initial,     \* of each admitted request: cutoff of its initial snapshot
  subscribers, \* of each wake: its frozen callback set
  run,         \* of each callback: its dispatch run and the events it holds
  role,        \* of each callback: the run of its role
  asked,       \* of each callback: model requests that were sent
  answered,    \* of each callback: replies that are durable
  stored,      \* of each callback: turns that are completed in its journal
  reply,       \* of each callback: the last of them
  usage,       \* of each callback: the attempts of its usage record, {} without one
  decided,     \* callbacks with a decision
  at,          \* of each runner: where it is
  wake,        \* of each runner: the wake it dispatches
  todo,        \* of each runner: subscribers it has still to bind
  call,        \* of each runner: the callback it works on
  turn,        \* of each runner: turn_number
  tally        \* of each runner: provider_attempts of the result it holds

admissions == <<outcome, owner, initial>>
dispatches == <<subscribers, run>>
talk       == <<asked, answered, stored, reply>>
judgments  == <<role, talk, usage, decided>>
running    == <<at, wake, todo, call, turn, tally>>
wakeVars   == <<admissions, dispatches, judgments, running>>
vars       == <<watchVars, wakeVars>>

NoWake == [watch |-> Anyone, new |-> {}]
NoCall == <<NoWake, Anyone[1]>>

Ats == {"idle", "freezing", "binding", "appending", "selected", "claiming", "asking",
        "dispatching", "waiting", "storing", "judging", "charging", "deciding", "noting",
        "finishing"}

\* The points at which a runner holds the claim of the role of its callback.
Judging == {"asking", "dispatching", "waiting", "storing", "judging"}

WakeTypeOK ==
  /\ outcome \in [Requests -> {"none", "rejected", "admitted", "reused"}]
  /\ owner \in [Requests -> Requests]
  /\ initial \in [Requests -> 0..MaxVersions]
  /\ subscribers \in [Wakes -> SUBSET Requests]
  /\ run \in [Callbacks -> {"none", "started", "bound", "noted", "ended"}]
  /\ role \in [Callbacks -> {"none", "running", "completed", "failed"}]
  /\ asked \in [Callbacks -> Nat]
  /\ answered \in [Callbacks -> Nat]
  /\ stored \in [Callbacks -> Nat]
  /\ reply \in [Callbacks -> Answers \cup {"none"}]
  /\ usage \in [Callbacks -> SUBSET Nat]
  /\ decided \in SUBSET Callbacks
  /\ at \in [Runners -> Ats]
  /\ wake \in [Runners -> Wakes]
  /\ todo \in [Runners -> SUBSET Requests]
  /\ call \in [Runners -> Callbacks]
  /\ turn \in [Runners -> Nat]
  /\ tally \in [Runners -> Nat]

TypeOK == WatchTypeOK /\ WakeTypeOK

Init ==
  /\ WatchInit
  /\ outcome = [r \in Requests |-> "none"]
  /\ owner = [r \in Requests |-> r]
  /\ initial = [r \in Requests |-> 0]
  /\ subscribers = [m \in Wakes |-> {}]
  /\ run = [c \in Callbacks |-> "none"]
  /\ role = [c \in Callbacks |-> "none"]
  /\ asked = [c \in Callbacks |-> 0]
  /\ answered = [c \in Callbacks |-> 0]
  /\ stored = [c \in Callbacks |-> 0]
  /\ reply = [c \in Callbacks |-> "none"]
  /\ usage = [c \in Callbacks |-> {}]
  /\ decided = {}
  /\ at = [k \in Runners |-> "idle"]
  /\ wake = [k \in Runners |-> NoWake]
  /\ todo = [k \in Runners |-> {}]
  /\ call = [k \in Runners |-> NoCall]
  /\ turn = [k \in Runners |-> 0]
  /\ tally = [k \in Runners |-> 0]

-----------------------------------------------------------------------------
(* Admission. *)

Root(r) == <<r, 0>>

Accepted(r) == outcome[r] \in {"admitted", "reused"}

Admission(r, what, whose, c) ==
  /\ outcome' = [outcome EXCEPT ![r] = what]
  /\ owner' = [owner EXCEPT ![r] = whose]
  /\ initial' = [initial EXCEPT ![r] = c]
  /\ UNCHANGED <<watchVars, dispatches, judgments, running>>

\* The profile, the parent's view or the limits of the profile refuse the request.
Reject(r) == outcome[r] = "none" /\ Admission(r, "rejected", r, 0)

\* An owner whose own watch runs, or is still to be created.  Its heirs do not count.
Standing(o) ==
  /\ outcome[o] = "admitted" /\ ~past[o]
  /\ status[Root(o)] \in Live \cup {"none"}

BranchFree(r) ==
  Cardinality({q \in Requests : Accepted(q) /\ Parent[q] = Parent[r]}) < MaxChildren

\* expires_at of the owner must reach that of the new request: for a request decided
\* later it does not, unless both end with the same episode.
Equivalent(r, o) == Standing(o) /\ Scope[o] = Scope[r]

Exhausted(w) == status[w] # "none" /\ \E f \in Fields : used[w][f] >= Limit[f]

\* _commit_acceptance, one transaction.
Reuse(r, o) ==
  /\ outcome[r] = "none" /\ BranchFree(r) /\ Equivalent(r, o)
  /\ IF Exhausted(Root(o)) THEN Admission(r, "rejected", r, 0)
     ELSE Admission(r, "reused", o, 0)

Admit(r, c) ==
  /\ r \in Owners /\ outcome[r] = "none" /\ BranchFree(r)
  /\ Cardinality({o \in Owners : Standing(o)}) < MaxActive
  /\ Admission(r, "admitted", r, c)

\* _ensure_watch_activated and _reconcile_pending_watch_activations: the watch is
\* created by its own request, a repeat of it, or the next service that opens the root.
Activate(r) ==
  /\ outcome[r] = "admitted"
  /\ CreateWatch(Root(r), initial[r])
  /\ UNCHANGED wakeVars

-----------------------------------------------------------------------------
(* Dispatch. *)

Goto(k, where) == at' = [at EXCEPT ![k] = where]

\* The claim goes with the process; what was read is forgotten.
Leave(k) ==
  /\ Goto(k, "idle")
  /\ wake' = [wake EXCEPT ![k] = NoWake]
  /\ todo' = [todo EXCEPT ![k] = {}]
  /\ call' = [call EXCEPT ![k] = NoCall]
  /\ turn' = [turn EXCEPT ![k] = 0]
  /\ tally' = [tally EXCEPT ![k] = 0]

Quit(k) ==
  /\ at[k] # "idle" /\ Leave(k)
  /\ UNCHANGED <<watchVars, admissions, dispatches, judgments>>

\* dispatch_pending: the wake was pending when the list was read.
PickWake(k, m) ==
  /\ at[k] = "idle" /\ m \in outbox \ delivered
  /\ Goto(k, "freezing")
  /\ wake' = [wake EXCEPT ![k] = m]
  /\ UNCHANGED <<watchVars, admissions, dispatches, judgments, todo, call, turn, tally>>

\* Requests that share the watch at the root of the wake's line.
Audience(m) == {r \in Requests : Accepted(r) /\ owner[r] = m.watch[1]}

(* Mutant of CallbackSet: whoever shares the watch by now. *)
CallbackSetRead(m) == Audience(m)

\* callback_bindings: the set is frozen by the first dispatch.
CallbackSet(m) == IF subscribers[m] = {} THEN Audience(m) ELSE subscribers[m]

Freeze(k) ==
  LET m == wake[k] IN
  /\ at[k] = "freezing" /\ CallbackSet(m) # {}
  /\ subscribers' = [subscribers EXCEPT ![m] = CallbackSet(m)]
  /\ todo' = [todo EXCEPT ![k] = CallbackSet(m)]
  /\ Goto(k, "binding")
  /\ UNCHANGED <<watchVars, admissions, run, judgments, wake, call, turn, tally>>

BindClaimed(c) == \E j \in Runners : at[j] = "appending" /\ call[j] = c

\* _dispatch_callback under the claim of the run: its record, then its first event.
StartCallback(k, r) ==
  LET c == <<wake[k], r>> IN
  /\ at[k] = "binding" /\ r \in todo[k]
  /\ run[c] \in {"none", "started"} /\ ~BindClaimed(c)
  /\ run' = [run EXCEPT ![c] = "started"]
  /\ call' = [call EXCEPT ![k] = c]
  /\ Goto(k, "appending")
  /\ UNCHANGED <<watchVars, admissions, subscribers, judgments, wake, todo, turn, tally>>

AppendBinding(k) ==
  /\ at[k] = "appending"
  /\ run' = [run EXCEPT ![call[k]] = IF @ = "started" THEN "bound" ELSE @]
  /\ todo' = [todo EXCEPT ![k] = @ \ {call[k][2]}]
  /\ call' = [call EXCEPT ![k] = NoCall]
  /\ Goto(k, "binding")
  /\ UNCHANGED <<watchVars, admissions, subscribers, judgments, wake, turn, tally>>

\* The run has its first event: this runner's claim finds it, or _await_concurrent_dispatch.
SkipBound(k, r) ==
  /\ at[k] = "binding" /\ r \in todo[k]
  /\ run[<<wake[k], r>>] \notin {"none", "started"}
  /\ todo' = [todo EXCEPT ![k] = @ \ {r}]
  /\ UNCHANGED <<watchVars, admissions, dispatches, judgments, at, wake, call, turn, tally>>

\* mark_wake_delivered
Deliver(k) ==
  /\ at[k] = "binding" /\ todo[k] = {}
  /\ delivered' = delivered \cup {wake[k]}
  /\ Leave(k)
  /\ UNCHANGED <<rows, clocks, outbox, journaled, polling, admissions, dispatches,
                 judgments>>

Dispatch(k) ==
  \/ \E m \in Wakes : PickWake(k, m)
  \/ Freeze(k) \/ AppendBinding(k) \/ Deliver(k)
  \/ \E r \in Requests : StartCallback(k, r) \/ SkipBound(k, r)

-----------------------------------------------------------------------------
(* Judgment. *)

Unfinished == {"started", "bound", "noted"}

\* running_dispatches reopens every unfinished run, and raises at one that has no event.
Select(k) ==
  /\ at[k] = "idle"
  /\ \E c \in Callbacks : run[c] \in Unfinished
  /\ \A c \in Callbacks : run[c] # "started"
  /\ Goto(k, "selected")
  /\ UNCHANGED <<watchVars, admissions, dispatches, judgments, wake, todo, call, turn,
                 tally>>

\* _reopen_dispatch accepts one event, or two and the end of the run; a run that has
\* ended is read again and changes nothing.
Prepare(k, c) ==
  /\ at[k] = "selected" /\ run[c] = "bound"
  /\ call' = [call EXCEPT ![k] = c]
  /\ Goto(k, "claiming")
  /\ UNCHANGED <<watchVars, admissions, dispatches, judgments, wake, todo, turn, tally>>

RoleEnded(c) == role[c] \in {"completed", "failed"}

(* Mutant of RoleTaken: the role is not claimed. *)
RoleUnclaimed(c) == FALSE

RoleTaken(c) == \E j \in Runners : at[j] \in Judging /\ call[j] = c

\* A request was sent and no reply of the role is durable.
Interrupted(c) == role[c] = "running" /\ asked[c] > 0 /\ answered[c] = 0

\* The live result counts the attempts that failed; a reopened one counts the turns.
Result(k, c, what, attempts) ==
  /\ role' = [role EXCEPT ![c] = what]
  /\ tally' = [tally EXCEPT ![k] = attempts]
  /\ Goto(k, "charging")

\* _run_role_claimed
EnterRole(k) ==
  LET c == call[k] IN
  /\ at[k] = "claiming" /\ ~RoleTaken(c) /\ role[c] \in {"none", "running"} /\ ~Interrupted(c)
  /\ role' = [role EXCEPT ![c] = "running"]
  /\ turn' = [turn EXCEPT ![k] = 1]
  /\ Goto(k, "asking")
  /\ UNCHANGED <<watchVars, admissions, dispatches, talk, usage, decided, wake, todo, call,
                 tally>>

\* "automatic retry is forbidden"
SealInterrupted(k) ==
  LET c == call[k] IN
  /\ at[k] = "claiming" /\ ~RoleTaken(c) /\ Interrupted(c)
  /\ Result(k, c, "failed", stored[c])
  /\ UNCHANGED <<watchVars, admissions, dispatches, talk, usage, decided, wake, todo, call,
                 turn>>

ReopenRole(k) ==
  LET c == call[k] IN
  /\ at[k] = "claiming" /\ ~RoleTaken(c) /\ RoleEnded(c)
  /\ Result(k, c, role[c], stored[c])
  /\ UNCHANGED <<watchVars, admissions, dispatches, talk, usage, decided, wake, todo, call,
                 turn>>

\* Before a turn: the run is cancelled, a budget is spent, or the turn was sent in
\* another life and has no reply.
RefuseTurn(k) ==
  /\ at[k] = "asking"
  /\ Result(k, call[k], "failed", turn[k] - 1)
  /\ UNCHANGED <<watchVars, admissions, dispatches, talk, usage, decided, wake, todo, call,
                 turn>>

ReplayTurn(k) ==
  /\ at[k] = "asking" /\ turn[k] =< answered[call[k]]
  /\ Goto(k, "storing")
  /\ UNCHANGED <<watchVars, admissions, dispatches, judgments, wake, todo, call, turn,
                 tally>>

OpenTurn(k) ==
  /\ at[k] = "asking" /\ turn[k] > asked[call[k]]
  /\ Goto(k, "dispatching")
  /\ UNCHANGED <<watchVars, admissions, dispatches, judgments, wake, todo, call, turn,
                 tally>>

SendTurn(k) ==
  /\ at[k] = "dispatching"
  /\ asked' = [asked EXCEPT ![call[k]] = @ + 1]
  /\ Goto(k, "waiting")
  /\ UNCHANGED <<watchVars, admissions, dispatches, role, answered, stored, reply, usage,
                 decided, wake, todo, call, turn, tally>>

ReceiveTurn(k, a) ==
  /\ at[k] = "waiting"
  /\ answered' = [answered EXCEPT ![call[k]] = @ + 1]
  /\ reply' = [reply EXCEPT ![call[k]] = a]
  /\ Goto(k, "storing")
  /\ UNCHANGED <<watchVars, admissions, dispatches, role, asked, stored, usage, decided,
                 wake, todo, call, turn, tally>>

\* The wait times out, or the provider fails: then its attempt is counted.
TurnFails(k) ==
  /\ at[k] = "waiting"
  /\ \E n \in {0, 1} : Result(k, call[k], "failed", turn[k] - 1 + n)
  /\ UNCHANGED <<watchVars, admissions, dispatches, talk, usage, decided, wake, todo, call,
                 turn>>

\* Only the last reply can be other than malformed.
Answer(k) == IF turn[k] < answered[call[k]] THEN "malformed" ELSE reply[call[k]]

\* _validate_turn, then _store_turn.
RefuseReply(k) ==
  /\ at[k] = "storing" /\ Answer(k) = "unusable"
  /\ Result(k, call[k], "failed", turn[k] - 1)
  /\ UNCHANGED <<watchVars, admissions, dispatches, talk, usage, decided, wake, todo, call,
                 turn>>

StoreTurn(k) ==
  /\ at[k] = "storing" /\ Answer(k) # "unusable"
  /\ stored' = [stored EXCEPT ![call[k]] = IF turn[k] > @ THEN turn[k] ELSE @]
  /\ Goto(k, "judging")
  /\ UNCHANGED <<watchVars, admissions, dispatches, role, asked, answered, reply, usage,
                 decided, wake, todo, call, turn, tally>>

CorrectAnswer(k) ==
  /\ at[k] = "judging" /\ Answer(k) = "malformed" /\ turn[k] < MaxTurns
  /\ turn' = [turn EXCEPT ![k] = @ + 1]
  /\ Goto(k, "asking")
  /\ UNCHANGED <<watchVars, admissions, dispatches, judgments, wake, todo, call, tally>>

\* _seal_completed and _seal_failure.
SealAnswer(k) ==
  /\ at[k] = "judging" /\ (Answer(k) = "malformed" => turn[k] >= MaxTurns)
  /\ Result(k, call[k], IF Answer(k) = "valid" THEN "completed" ELSE "failed", turn[k])
  /\ UNCHANGED <<watchVars, admissions, dispatches, talk, usage, decided, wake, todo, call,
                 turn>>

\* _append_usage: a record that differs from the result at hand raises.
Charge(k) ==
  LET c == call[k] IN
  /\ at[k] = "charging" /\ usage[c] \subseteq {tally[k]}
  /\ usage' = [usage EXCEPT ![c] = {tally[k]}]
  /\ Goto(k, IF role[c] = "completed" THEN "deciding" ELSE "noting")
  /\ UNCHANGED <<watchVars, admissions, dispatches, role, talk, decided, wake, todo, call,
                 turn, tally>>

AdmitDecision(k) ==
  /\ at[k] = "deciding"
  /\ decided' = decided \cup {call[k]}
  /\ Goto(k, "noting")
  /\ UNCHANGED <<watchVars, admissions, dispatches, role, talk, usage, wake, todo, call,
                 turn, tally>>

\* _finish_dispatch: the second event of the dispatch run, then its end.
NoteJudgment(k) ==
  /\ at[k] = "noting"
  /\ run' = [run EXCEPT ![call[k]] = IF @ = "ended" THEN @ ELSE "noted"]
  /\ Goto(k, "finishing")
  /\ UNCHANGED <<watchVars, admissions, subscribers, judgments, wake, todo, call, turn,
                 tally>>

FinishDispatch(k) ==
  /\ at[k] = "finishing"
  /\ run' = [run EXCEPT ![call[k]] = "ended"]
  /\ Leave(k)
  /\ UNCHANGED <<watchVars, admissions, subscribers, judgments>>

Judge(k) ==
  \/ Select(k) \/ \E c \in Callbacks : Prepare(k, c)
  \/ EnterRole(k) \/ SealInterrupted(k) \/ ReopenRole(k)
  \/ RefuseTurn(k) \/ ReplayTurn(k) \/ OpenTurn(k) \/ SendTurn(k) \/ TurnFails(k)
  \/ \E a \in Answers : ReceiveTurn(k, a)
  \/ RefuseReply(k) \/ StoreTurn(k) \/ CorrectAnswer(k) \/ SealAnswer(k)
  \/ Charge(k) \/ AdmitDecision(k) \/ NoteJudgment(k) \/ FinishDispatch(k)

-----------------------------------------------------------------------------
AdmitRequest ==
  \E r \in Requests :
    \/ Reject(r)
    \/ \E o \in Owners : Reuse(r, o)
    \/ \E c \in 0..journaled : Admit(r, c)
    \/ r \in Owners /\ Activate(r)

Next ==
  \/ WatchNext /\ UNCHANGED wakeVars
  \/ AdmitRequest
  \/ \E k \in Runners : Dispatch(k) \/ Judge(k) \/ Quit(k)

Spec == Init /\ [][Next]_vars

-----------------------------------------------------------------------------
(* The properties. *)

(* A wake is delivered to all or not at all: its frozen subscribers have each a run
   bound in the journal before the row is marked, they share the root of the watch
   that announced it, and nobody else has a run (callback_bindings,
   _dispatch_callback, mark_wake_delivered). *)
DeliveredIsBound ==
  /\ \A m \in Wakes :
       /\ subscribers[m] # {} => m \in outbox /\ subscribers[m] \subseteq Audience(m)
       /\ m \in delivered =>
            /\ subscribers[m] # {}
            /\ \A r \in subscribers[m] : run[<<m, r>>] \notin {"none", "started"}
  /\ \A c \in Callbacks : run[c] # "none" => c[2] \in subscribers[c[1]]

Judged(c) ==
  /\ answered[c] =< asked[c] /\ asked[c] =< answered[c] + 1
  /\ stored[c] =< answered[c] /\ answered[c] =< stored[c] + 1
  /\ asked[c] > 0 => role[c] # "none" /\ run[c] \notin {"none", "started"}
  /\ role[c] = "completed" => reply[c] = "valid" /\ asked[c] = stored[c]
  /\ usage[c] # {} => RoleEnded(c)
  /\ c \in decided => role[c] = "completed" /\ usage[c] = {stored[c]}
  /\ run[c] \in {"noted", "ended"} =>
       RoleEnded(c) /\ usage[c] # {} /\ (role[c] = "completed" <=> c \in decided)

(* A callback is judged once, by whatever number of processes and lives: never two
   model requests without a reply, and what the run of the dispatch, the decision and
   the usage record say of the role is what its sealed run says (_run_role_claimed,
   _finish_dispatch). *)
JudgedOnce == \A c \in Callbacks : Judged(c)

=============================================================================
