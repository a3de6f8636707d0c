--------------------------- MODULE AttentionWatch ---------------------------
(***************************************************************************)
(* Attention watches (attention_watch.py).  A watch polls one collection   *)
(* policy at a cadence, under an allowance of polls, bytes and wakes, and  *)
(* writes a wake to its outbox when a poll finds versions that it has not  *)
(* seen.  A gap in the receipts poisons it for good: an operator may then  *)
(* rebaseline it, which retires the row and creates its heir with what is  *)
(* left of the allowance.  A watch is named by the request it was admitted *)
(* for and its place in that line of heirs.                                *)
(*                                                                         *)
(* Pollers are the processes that call run_due.  A poll is a claim (one    *)
(* transaction), the collection, the reading of the frozen snapshot and of *)
(* the seen set, and one guarded write.  A poller may die between any two; *)
(* its lease then lapses.  A poller has one claim at a time and forgets it *)
(* when it dies, so its name stands for the random token of the lease.     *)
(*                                                                         *)
(* Versions are numbered in the order of their receipt: the versions of a  *)
(* snapshot are those up to its cutoff.  All of them match the scope.      *)
(***************************************************************************)
EXTENDS Naturals, FiniteSets

CONSTANTS
  Owners,       \* agent requests that may be given a watch, and its line of heirs
  Pollers,
  Limit,        \* maximum_polls, maximum_bytes, maximum_wakes of a new watch
  MaxHeirs,     \* bound: rebaselines of one line
  MaxVersions,  \* bound: versions that match the scope
  Sizes         \* bytes of a response

Fields == {"polls", "bytes", "wakes"}

ASSUME AttentionWatchAssumption ==
  /\ Limit \in [Fields -> Nat \ {0}]
  /\ MaxHeirs \in Nat /\ MaxVersions \in Nat /\ Sizes \subseteq Nat /\ Owners # {}
  /\ "nobody" \notin Pollers

Watches  == Owners \X (0..MaxHeirs)
Versions == 1..MaxVersions
Wakes    == [watch : Watches, new : SUBSET Versions]

Heir(w) == <<w[1], w[2] + 1>>

Live     == {"active", "backing_off", "triggered"}
Terminal == {"cancelled", "expired", "rebaselined"}

\* What a poll came to, once its response was read.
Findings == {"none", "failed", "expired", "invalid", "overspent", "partial", "gap",
             "quiet", "cooling", "wake"}

VARIABLES
  status,    \* of each watch, "none" before it is created
  gap,       \* of each watch: last_error_kind is watch_snapshot_incomplete
  holder,    \* of each watch: lease_token
  lapsed,    \* of each watch: lease_expires_at has passed
  used,      \* of each watch: poll_count, byte_count, wake_count
  limit,     \* of each watch: the maxima of its policy
  cooling,   \* of each watch: wake_allowed_at has not come
  base,      \* of each watch: the versions of its initial snapshot
  seen,      \* of each watch: attention_watch_seen_versions
  past,      \* of each line: expires_at has passed
  outbox,    \* attention_watch_outbox
  delivered, \* the wakes of it that are delivered
  journaled, \* the number of versions the journal holds
  pc,        \* of each poller: where its run_due is
  polled,    \* of each poller: the watch it claimed
  spent,     \* of each poller: byte_count, as the claim read it
  size,      \* of each poller: bytes of the response
  cut,       \* of each poller: cutoff of the collected snapshot
  finding,   \* of each poller
  fresh      \* of each poller: new_version_ids

rows    == <<status, gap, holder, used, limit, seen, base>>
clocks  == <<lapsed, cooling, past>>
mail    == <<outbox, delivered>>
polling == <<pc, polled, spent, size, cut, finding, fresh>>
watchVars == <<rows, clocks, mail, journaled, polling>>

WatchTypeOK ==
  /\ status \in [Watches -> Live \cup Terminal \cup {"none"}]
  /\ gap \in [Watches -> BOOLEAN]
  /\ holder \in [Watches -> Pollers \cup {"nobody"}]
  /\ lapsed \in [Watches -> BOOLEAN]
  /\ used \in [Watches -> [Fields -> Nat]]
  /\ limit \in [Watches -> [Fields -> Nat]]
  /\ cooling \in [Watches -> BOOLEAN]
  /\ base \in [Watches -> SUBSET Versions]
  /\ seen \in [Watches -> SUBSET Versions]
  /\ past \in [Owners -> BOOLEAN]
  /\ outbox \in SUBSET Wakes /\ delivered \in SUBSET Wakes
  /\ journaled \in 0..MaxVersions
  /\ pc \in [Pollers -> {"idle", "collecting", "reading", "writing"}]
  /\ polled \in [Pollers -> Watches]
  /\ spent \in [Pollers -> Nat]
  /\ size \in [Pollers -> Nat]
  /\ cut \in [Pollers -> 0..MaxVersions]
  /\ finding \in [Pollers -> Findings]
  /\ fresh \in [Pollers -> SUBSET Versions]

Zero == [f \in Fields |-> 0]
Anyone == CHOOSE w \in Watches : TRUE

WatchInit ==
  /\ status = [w \in Watches |-> "none"]
  /\ gap = [w \in Watches |-> FALSE]
  /\ holder = [w \in Watches |-> "nobody"]
  /\ lapsed = [w \in Watches |-> FALSE]
  /\ used = [w \in Watches |-> Zero]
  /\ limit = [w \in Watches |-> Zero]
  /\ cooling = [w \in Watches |-> FALSE]
  /\ base = [w \in Watches |-> {}]
  /\ seen = [w \in Watches |-> {}]
  /\ past = [r \in Owners |-> FALSE]
  /\ outbox = {} /\ delivered = {}
  /\ journaled = 0
  /\ pc = [k \in Pollers |-> "idle"]
  /\ polled = [k \in Pollers |-> Anyone]
  /\ spent = [k \in Pollers |-> 0]
  /\ size = [k \in Pollers |-> 0]
  /\ cut = [k \in Pollers |-> 0]
  /\ finding = [k \in Pollers |-> "none"]
  /\ fresh = [k \in Pollers |-> {}]

-----------------------------------------------------------------------------
(* The operator and the clock. *)

\* create: the initial snapshot ends at the cutoff c.
CreateWatch(w, c) ==
  /\ status[w] = "none"
  /\ status' = [status EXCEPT ![w] = "active"]
  /\ limit' = [limit EXCEPT ![w] = Limit]
  /\ base' = [base EXCEPT ![w] = 1..c]
  /\ seen' = [seen EXCEPT ![w] = 1..c]
  /\ UNCHANGED <<gap, holder, used, clocks, mail, journaled, polling>>

Left(w) == [f \in Fields |-> limit[w][f] - used[w][f]]

(* Mutant of HeirLimit: the heir starts with the allowance of a new watch. *)
HeirLimitRenewed(w) == Limit

HeirLimit(w) == Left(w)

\* rebaseline: one transaction retires the row and inserts its heir.  Asking again
\* for the same replacement returns that heir; any other replacement is refused.
Rebaseline(w, c) ==
  /\ status[w] = "backing_off" /\ gap[w] /\ ~past[w[1]]
  /\ \A f \in Fields : used[w][f] < limit[w][f]
  /\ w[2] < MaxHeirs
  /\ status' = [status EXCEPT ![w] = "rebaselined", ![Heir(w)] = "active"]
  /\ holder' = [holder EXCEPT ![w] = "nobody"]
  /\ lapsed' = [lapsed EXCEPT ![w] = FALSE]
  /\ limit' = [limit EXCEPT ![Heir(w)] = HeirLimit(w)]
  /\ cooling' = [cooling EXCEPT ![Heir(w)] = cooling[w]]
  /\ base' = [base EXCEPT ![Heir(w)] = 1..c]
  /\ seen' = [seen EXCEPT ![Heir(w)] = 1..c]
  /\ UNCHANGED <<gap, used, past, mail, journaled, polling>>

CancelWatch(w) ==
  /\ status[w] \in Live
  /\ status' = [status EXCEPT ![w] = "cancelled"]
  /\ gap' = [gap EXCEPT ![w] = FALSE]
  /\ holder' = [holder EXCEPT ![w] = "nobody"]
  /\ lapsed' = [lapsed EXCEPT ![w] = FALSE]
  /\ UNCHANGED <<used, limit, seen, base, cooling, past, mail, journaled, polling>>

Lapse(w) ==
  /\ holder[w] # "nobody" /\ ~lapsed[w]
  /\ lapsed' = [lapsed EXCEPT ![w] = TRUE]
  /\ UNCHANGED <<rows, cooling, past, mail, journaled, polling>>

Cool(w) ==
  /\ cooling[w]
  /\ cooling' = [cooling EXCEPT ![w] = FALSE]
  /\ UNCHANGED <<rows, lapsed, past, mail, journaled, polling>>

Pass(r) ==
  /\ ~past[r]
  /\ past' = [past EXCEPT ![r] = TRUE]
  /\ UNCHANGED <<rows, lapsed, cooling, mail, journaled, polling>>

-----------------------------------------------------------------------------
(* run_due. *)

\* _claim_due ends a watch whose time or allowance is over, whoever holds its lease.
Over(w) == past[w[1]] \/ \E f \in Fields : used[w][f] >= limit[w][f]

EndAtClaim(w) ==
  /\ status[w] \in Live /\ Over(w)
  /\ status' = [status EXCEPT ![w] = "expired"]
  /\ gap' = [gap EXCEPT ![w] = FALSE]
  /\ holder' = [holder EXCEPT ![w] = "nobody"]
  /\ lapsed' = [lapsed EXCEPT ![w] = FALSE]
  /\ UNCHANGED <<used, limit, seen, base, cooling, past, mail, journaled, polling>>

\* Whether next_due_at has come is left open.
Claim(k, w) ==
  /\ pc[k] = "idle" /\ status[w] \in Live /\ ~Over(w)
  /\ holder[w] = "nobody" \/ lapsed[w]
  /\ holder' = [holder EXCEPT ![w] = k]
  /\ lapsed' = [lapsed EXCEPT ![w] = FALSE]
  /\ pc' = [pc EXCEPT ![k] = "collecting"]
  /\ polled' = [polled EXCEPT ![k] = w]
  /\ spent' = [spent EXCEPT ![k] = used[w].bytes]
  /\ UNCHANGED <<status, gap, used, limit, seen, base, cooling, past, mail, journaled,
                 size, cut, finding, fresh>>

\* A failed collection is recorded as a poll of no bytes; what it read may have
\* reached the journal.
CollectionFails(k) ==
  /\ pc[k] = "collecting"
  /\ journaled' \in journaled..MaxVersions
  /\ pc' = [pc EXCEPT ![k] = "writing"]
  /\ finding' = [finding EXCEPT ![k] = "failed"]
  /\ UNCHANGED <<rows, clocks, mail, polled, spent, size, cut, fresh>>

\* What poll_completed_at says of the watch.
Timing(w) == IF past[w[1]] THEN "expired" ELSE IF cooling[w] THEN "cooling" ELSE "wake"

\* The collector answers, or hands over the snapshot of a collection that others
\* share; recording it adds its versions to the journal.
Collect(k) ==
  \E n \in journaled..MaxVersions, b \in Sizes :
    \E c \in 0..n :
      /\ pc[k] = "collecting"
      /\ journaled' = n
      /\ pc' = [pc EXCEPT ![k] = "reading"]
      /\ size' = [size EXCEPT ![k] = b]
      /\ cut' = [cut EXCEPT ![k] = c]
      /\ finding' = [finding EXCEPT ![k] = Timing(polled[k])]
      /\ UNCHANGED <<rows, clocks, mail, polled, spent, fresh>>

\* The exits of run_due, in their order, up to the reading of the seen set.
Exits(k) ==
  LET w == polled[k] IN
  IF finding[k] = "expired" THEN {"expired"}
  ELSE {"invalid"} \cup
       IF spent[k] + size[k] > limit[w].bytes THEN {"overspent"}
       ELSE {"partial", "gap", IF 1..cut[k] \subseteq seen[w] THEN "quiet" ELSE finding[k]}

Read(k) ==
  /\ pc[k] = "reading"
  /\ \E f \in Exits(k) : finding' = [finding EXCEPT ![k] = f]
  /\ fresh' = [fresh EXCEPT ![k] = 1..cut[k] \ seen[polled[k]]]
  /\ pc' = [pc EXCEPT ![k] = "writing"]
  /\ UNCHANGED <<rows, clocks, mail, journaled, polled, spent, size, cut>>

Forget(k) ==
  /\ pc' = [pc EXCEPT ![k] = "idle"]
  /\ polled' = [polled EXCEPT ![k] = Anyone]
  /\ spent' = [spent EXCEPT ![k] = 0]
  /\ size' = [size EXCEPT ![k] = 0]
  /\ cut' = [cut EXCEPT ![k] = 0]
  /\ finding' = [finding EXCEPT ![k] = "none"]
  /\ fresh' = [fresh EXCEPT ![k] = {}]

StatusAfter(f) ==
  CASE f \in {"expired", "overspent"}         -> "expired"
    [] f \in {"failed", "invalid", "partial", "gap"} -> "backing_off"
    [] f = "quiet"                            -> "active"
    [] OTHER                                  -> "triggered"

(* Mutant of HoldsLease: any lease on the watch will do. *)
SomeLease(k) == holder[polled[k]] # "nobody"

HoldsLease(k) == holder[polled[k]] = k

\* Only a committed poll marks what it found; under the cooldown nothing is marked.
SeenAfter(k) ==
  IF finding[k] \in {"quiet", "wake"} THEN seen[polled[k]] \cup 1..cut[k]
  ELSE seen[polled[k]]

\* trigger_key: a wake for the same versions is not written twice.
Wake(k) == [watch |-> polled[k], new |-> fresh[k]]
Rings(k) == finding[k] = "wake" /\ Wake(k) \notin outbox

\* _record_poll and _commit_success.
WritePoll(k) ==
  LET w == polled[k] IN
  /\ pc[k] = "writing" /\ HoldsLease(k)
  /\ status' = [status EXCEPT ![w] = StatusAfter(finding[k])]
  /\ gap' = [gap EXCEPT ![w] = finding[k] = "gap"]
  /\ holder' = [holder EXCEPT ![w] = "nobody"]
  /\ lapsed' = [lapsed EXCEPT ![w] = FALSE]
  /\ used' = [used EXCEPT ![w] = [polls |-> @.polls + 1, bytes |-> @.bytes + size[k],
                                  wakes |-> @.wakes + IF Rings(k) THEN 1 ELSE 0]]
  /\ seen' = [seen EXCEPT ![w] = SeenAfter(k)]
  /\ cooling' = [cooling EXCEPT ![w] = @ \/ finding[k] = "wake"]
  /\ outbox' = outbox \cup IF Rings(k) THEN {Wake(k)} ELSE {}
  /\ Forget(k)
  /\ UNCHANGED <<limit, base, past, delivered, journaled>>

\* "stale_claim", and a poller that dies, or raises, at any point.
Abandon(k) ==
  /\ pc[k] # "idle"
  /\ Forget(k)
  /\ UNCHANGED <<rows, clocks, mail, journaled>>

Poll ==
  \E k \in Pollers :
    \/ \E w \in Watches : Claim(k, w)
    \/ CollectionFails(k) \/ Collect(k) \/ Read(k) \/ WritePoll(k) \/ Abandon(k)

Tend ==
  \E w \in Watches :
    \/ CancelWatch(w) \/ EndAtClaim(w) \/ Lapse(w) \/ Cool(w)
    \/ \E c \in 0..journaled : Rebaseline(w, c)

WatchNext == Poll \/ Tend \/ \E r \in Owners : Pass(r)

-----------------------------------------------------------------------------
(* The properties. *)

Outboxed(w) == {m \in outbox : m.watch = w}

Announced(w) ==
  /\ seen[w] = base[w] \cup UNION {m.new : m \in Outboxed(w)}
  /\ \A m \in Outboxed(w) :
       /\ m.new # {} /\ m.new \cap base[w] = {}
       /\ \A n \in Outboxed(w) : m = n \/ m.new \cap n.new = {}

(* A version is announced once: whatever pollers work on a watch, die, or come back
   after their lease has gone to another, the versions it has seen are those of its
   initial snapshot and those of its wakes, and no two of these share a version
   (_commit_success; a wake that the cooldown holds back marks nothing). *)
AnnouncedOnce == \A w \in Watches : Announced(w)

Conserved(w) ==
  /\ status[w] = "rebaselined" => limit[Heir(w)] = Left(w)
  /\ used[w].polls =< limit[w].polls
  /\ used[w].wakes = Cardinality(Outboxed(w)) /\ used[w].wakes =< limit[w].wakes
  /\ used[w].bytes > limit[w].bytes => status[w] \notin {"active", "triggered", "rebaselined"}

(* The allowance survives the rebaselines: what a retired watch had spent and what its
   heir may spend are what the watch was given; polls and wakes never pass their limit,
   each wake is charged, and a watch that spent too many bytes collects no more: it is
   over, or backs off after an invalid snapshot until the next claim ends it
   (rebaseline, _record_poll, _claim_due). *)
AllowanceIsConserved == \A w \in Watches : Conserved(w)

=============================================================================
