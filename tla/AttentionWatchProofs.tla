------------------------ MODULE AttentionWatchProofs ------------------------
(***************************************************************************)
(* Proofs about AttentionWatch for any owners, pollers, allowance and      *)
(* bounds.                                                                 *)
(***************************************************************************)
EXTENDS AttentionWatch, FiniteSetTheorems, TLAPS

(* A step of the system, as the watches see it: the creation of the first watch of a     *)
(* line, one of their own, or one that changes nothing of them but what is delivered.    *)
Still == delivered' \in SUBSET Wakes /\ UNCHANGED <<rows, clocks, outbox, journaled, polling>>

WatchStep ==
  \/ \E o \in Owners, c \in 0..MaxVersions : CreateWatch(<<o, 0>>, c)
  \/ WatchNext
  \/ Still

(* A watch that does not run is leased to nobody. *)
Resting == \A w \in Watches : status[w] \notin Live => holder[w] = "nobody"

(* A watch that is not there has announced and spent nothing, and an heir is there only  *)
(* when the watch it replaces is retired.                                                *)
Lineage ==
  \A w \in Watches :
    /\ status[w] = "none" => used[w] = Zero /\ Outboxed(w) = {}
    /\ w[2] > 0 /\ status[w] # "none" => status[<<w[1], w[2] - 1>>] = "rebaselined"

(* The heir of a retired watch is there. *)
Retired ==
  \A w \in Watches : status[w] = "rebaselined" => Heir(w) \in Watches /\ status[Heir(w)] # "none"

(* A leased watch has an allowance left. *)
Charged ==
  \A w \in Watches : holder[w] # "nobody" => \A f \in Fields : used[w][f] < limit[w][f]

(* What the poller that holds the lease has read is still so when it writes. *)
ReadHeld(k) ==
  /\ pc[k] = "reading" => finding[k] \in {"expired", "cooling", "wake"}
  /\ pc[k] \in {"idle", "collecting"} => size[k] = 0
  /\ pc[k] = "writing" => finding[k] # "none" /\ (finding[k] = "failed" => size[k] = 0)
  /\ pc[k] # "idle" /\ holder[polled[k]] = k =>
       /\ spent[k] = used[polled[k]].bytes
       /\ pc[k] = "writing" /\ finding[k] \in {"quiet", "cooling", "wake"} =>
            /\ fresh[k] = 1..cut[k] \ seen[polled[k]]
            /\ finding[k] = "quiet" <=> fresh[k] = {}
       /\ pc[k] = "writing" /\ finding[k] \in {"partial", "gap", "quiet", "cooling", "wake"} =>
            used[polled[k]].bytes + size[k] =< limit[polled[k]].bytes

ReadHolds == \A k \in Pollers : ReadHeld(k)

WatchInv ==
  /\ WatchTypeOK /\ IsFiniteSet(outbox)
  /\ Resting /\ Lineage /\ Retired /\ Charged /\ ReadHolds
  /\ AnnouncedOnce /\ AllowanceIsConserved

LEMMA RootIsWatch ==
  ASSUME NEW o \in Owners
  PROVE  <<o, 0>> \in Watches
BY AttentionWatchAssumption DEF Watches

LEMMA HeirIsWatch ==
  ASSUME NEW w \in Watches, w[2] < MaxHeirs
  PROVE  Heir(w) \in Watches
BY AttentionWatchAssumption DEF Watches, Heir

LEMMA AnyoneIsWatch == Anyone \in Watches
<1>1. PICK o \in Owners : TRUE
  BY AttentionWatchAssumption
<1>2. \E w \in Watches : TRUE
  BY RootIsWatch, <1>1
<1> QED BY <1>2 DEF Anyone

LEMMA Prefix ==
  ASSUME NEW c \in 0..MaxVersions
  PROVE  1..c \in SUBSET Versions
BY AttentionWatchAssumption DEF Versions

LEMMA Predecessor ==
  ASSUME NEW w \in Watches, w[2] > 0
  PROVE  <<w[1], w[2] - 1>> \in Watches
BY AttentionWatchAssumption DEF Watches

(* A watch that runs has no heir, so that it may go on or end alone. *)
LEMMA EndsAlone ==
  ASSUME WatchTypeOK, Lineage, NEW w \in Watches, status[w] \in Live,
         NEW s \in Live \cup Terminal, status' = [status EXCEPT ![w] = s],
         \A v \in Watches : v # w => used'[v] = used[v] /\ Outboxed(v)' = Outboxed(v)
  PROVE  Lineage'
<1>1. \A v \in Watches : v # w => status'[v] = status[v]
  BY DEF WatchTypeOK
<1>2. status'[w] # "none"
  BY DEF WatchTypeOK, Live, Terminal
<1>3. \A v \in Watches : v[2] > 0 => <<v[1], v[2] - 1>> \in Watches
  BY Predecessor
<1>4. status[w] # "none" /\ status[w] # "rebaselined"
  BY DEF Live
<1> QED BY <1>1, <1>2, <1>3, <1>4 DEF Lineage

LEMMA HeirShape ==
  ASSUME NEW w \in Watches, w[2] < MaxHeirs
  PROVE  /\ Heir(w) \in Watches /\ Heir(w) # w /\ Heir(w)[2] > 0
         /\ \A v \in Watches : v[2] > 0 => (<<v[1], v[2] - 1>> = w <=> v = Heir(w))
<1>1. Heir(w) \in Watches
  BY HeirIsWatch
<1>2. /\ w[1] \in Owners /\ w[2] \in 0..MaxHeirs /\ w = <<w[1], w[2]>>
      /\ Heir(w)[1] = w[1] /\ Heir(w)[2] = w[2] + 1
  BY AttentionWatchAssumption DEF Watches, Heir
<1>3. ASSUME NEW v \in Watches, v[2] > 0
      PROVE  <<v[1], v[2] - 1>> = w <=> v = Heir(w)
  <2>1. v[1] \in Owners /\ v[2] \in 0..MaxHeirs /\ v = <<v[1], v[2]>>
    BY AttentionWatchAssumption DEF Watches
  <2>2. ASSUME <<v[1], v[2] - 1>> = w
        PROVE  v = Heir(w)
    <3>1. v[1] = w[1] /\ v[2] - 1 = w[2]
      BY <2>2
    <3> QED BY <1>2, <2>1, <3>1, AttentionWatchAssumption DEF Heir
  <2>3. ASSUME v = Heir(w)
        PROVE  <<v[1], v[2] - 1>> = w
    BY <1>2, <2>1, <2>3, AttentionWatchAssumption
  <2> QED BY <2>2, <2>3
<1> QED BY <1>1, <1>2, <1>3, AttentionWatchAssumption

(* A watch that is rebaselined has no heir yet. *)
LEMMA HeirIsNew ==
  ASSUME WatchTypeOK, Lineage, NEW w \in Watches, w[2] < MaxHeirs, status[w] # "rebaselined"
  PROVE  Heir(w) \in Watches /\ Heir(w) # w /\ status[Heir(w)] = "none"
BY HeirShape DEF Lineage

LEMMA LineageFrame ==
  ASSUME Lineage, UNCHANGED <<status, used, outbox>>
  PROVE  Lineage'
BY DEF Lineage, Outboxed

(***************************************************************************)
(* Every step of a watch keeps the types.                                  *)
(***************************************************************************)
LEMMA WatchTypeStep ==
  ASSUME WatchTypeOK, Charged, WatchStep
  PROVE  WatchTypeOK'
<1> USE AttentionWatchAssumption DEF WatchTypeOK, rows, clocks, mail, polling
<1>1. ASSUME NEW o \in Owners, NEW c \in 0..MaxVersions, CreateWatch(<<o, 0>>, c)
      PROVE  WatchTypeOK'
  <2>1. <<o, 0>> \in Watches /\ 1..c \in SUBSET Versions
    BY RootIsWatch, Prefix
  <2> QED BY <1>1, <2>1 DEF CreateWatch, Live
<1>2. ASSUME NEW w \in Watches, NEW c \in 0..journaled, Rebaseline(w, c)
      PROVE  WatchTypeOK'
  <2>1. Heir(w) \in Watches /\ 1..c \in SUBSET Versions
    <3>1. w[2] < MaxHeirs /\ c \in 0..MaxVersions
      BY <1>2 DEF Rebaseline
    <3> QED BY <3>1, HeirIsWatch, Prefix
  <2>2. HeirLimit(w) \in [Fields -> Nat]
    BY <1>2 DEF Rebaseline, HeirLimit, Left
  <2> QED BY <1>2, <2>1, <2>2 DEF Rebaseline, Live, Terminal
<1>3. ASSUME NEW w \in Watches, CancelWatch(w)
      PROVE  WatchTypeOK'
  BY <1>3 DEF CancelWatch, Live, Terminal
<1>4. ASSUME NEW w \in Watches, EndAtClaim(w)
      PROVE  WatchTypeOK'
  BY <1>4 DEF EndAtClaim, Live, Terminal
<1>5. ASSUME NEW w \in Watches, Lapse(w)
      PROVE  WatchTypeOK'
  BY <1>5 DEF Lapse
<1>6. ASSUME NEW w \in Watches, Cool(w)
      PROVE  WatchTypeOK'
  BY <1>6 DEF Cool
<1>7. ASSUME NEW o \in Owners, Pass(o)
      PROVE  WatchTypeOK'
  BY <1>7 DEF Pass
<1>8. ASSUME NEW k \in Pollers, NEW w \in Watches, Claim(k, w)
      PROVE  WatchTypeOK'
  BY <1>8 DEF Claim, Fields
<1>9. ASSUME NEW k \in Pollers, CollectionFails(k)
      PROVE  WatchTypeOK'
  <2>1. journaled' \in 0..MaxVersions
    BY <1>9 DEF CollectionFails
  <2> QED BY <1>9, <2>1 DEF CollectionFails, Findings
<1>10. ASSUME NEW k \in Pollers, Collect(k)
      PROVE  WatchTypeOK'
  <2>1. PICK n \in journaled..MaxVersions, b \in Sizes :
          \E c \in 0..n : /\ journaled' = n
                         /\ pc' = [pc EXCEPT ![k] = "reading"]
                         /\ size' = [size EXCEPT ![k] = b]
                         /\ cut' = [cut EXCEPT ![k] = c]
                         /\ finding' = [finding EXCEPT ![k] = Timing(polled[k])]
                         /\ UNCHANGED <<rows, clocks, mail, polled, spent, fresh>>
    BY <1>10 DEF Collect
  <2>2. Timing(polled[k]) \in Findings
    BY DEF Timing, Findings
  <2> QED BY <2>1, <2>2
<1>11. ASSUME NEW k \in Pollers, Read(k)
      PROVE  WatchTypeOK'
  <2>1. \A f \in Exits(k) : f \in Findings
    BY DEF Exits, Findings
  <2>2. 1..cut[k] \ seen[polled[k]] \in SUBSET Versions
    BY Prefix
  <2> QED BY <1>11, <2>1, <2>2 DEF Read
<1>12. ASSUME NEW k \in Pollers, WritePoll(k)
      PROVE  WatchTypeOK'
  <2>1. StatusAfter(finding[k]) \in Live
          \cup Terminal
    BY DEF StatusAfter, Live, Terminal
  <2>2. Wake(k) \in Wakes
    BY DEF Wake, Wakes
  <2>3. SeenAfter(k) \in SUBSET Versions
    BY Prefix DEF SeenAfter
  <2>4. Anyone \in Watches
    BY AnyoneIsWatch
  <2>5. \A u \in [Fields -> Nat] :
          [polls |-> u.polls + 1, bytes |-> u.bytes + size[k],
           wakes |-> u.wakes + IF Rings(k) THEN 1 ELSE 0] \in [Fields -> Nat]
    BY DEF Fields
  <2> QED BY <1>12, <2>1, <2>2, <2>3, <2>4, <2>5 DEF WritePoll, Forget, Findings
<1>13. ASSUME NEW k \in Pollers, Abandon(k)
      PROVE  WatchTypeOK'
  BY <1>13, AnyoneIsWatch DEF Abandon, Forget, Findings
<1>14. CASE Still
  BY <1>14 DEF Still
<1> QED
  BY <1>1, <1>2, <1>3, <1>4, <1>5, <1>6, <1>7, <1>8, <1>9, <1>10, <1>11, <1>12, <1>13, <1>14
  DEF WatchStep, WatchNext, Poll, Tend

(***************************************************************************)
(* A watch is leased only while it runs.                                   *)
(***************************************************************************)
LEMMA RestingStep ==
  ASSUME WatchTypeOK, Resting, Lineage, WatchStep
  PROVE  Resting'
<1> USE AttentionWatchAssumption DEF WatchTypeOK, Resting, rows, clocks, mail, polling
<1>1. ASSUME NEW o \in Owners, NEW c \in 0..MaxVersions, CreateWatch(<<o, 0>>, c)
      PROVE  Resting'
  <2>1. <<o, 0>> \in Watches
    BY RootIsWatch
  <2> QED BY <1>1, <2>1 DEF CreateWatch, Live
<1>2. ASSUME NEW w \in Watches, NEW c \in 0..journaled, Rebaseline(w, c)
      PROVE  Resting'
  <2>1. Heir(w) \in Watches /\ Heir(w) # w
    BY <1>2, HeirIsWatch DEF Rebaseline, Heir, Watches
  <2> QED BY <1>2, <2>1 DEF Rebaseline, Live
<1>3. ASSUME NEW w \in Watches, CancelWatch(w)
      PROVE  Resting'
  BY <1>3 DEF CancelWatch, Live
<1>4. ASSUME NEW w \in Watches, EndAtClaim(w)
      PROVE  Resting'
  BY <1>4 DEF EndAtClaim, Live
<1>5. ASSUME NEW w \in Watches, Lapse(w)
      PROVE  Resting'
  BY <1>5 DEF Lapse, Live
<1>6. ASSUME NEW w \in Watches, Cool(w)
      PROVE  Resting'
  BY <1>6 DEF Cool, Live
<1>7. ASSUME NEW o \in Owners, Pass(o)
      PROVE  Resting'
  BY <1>7 DEF Pass, Live
<1>8. ASSUME NEW k \in Pollers, NEW w \in Watches, Claim(k, w)
      PROVE  Resting'
  BY <1>8 DEF Claim, Live
<1>9. ASSUME NEW k \in Pollers, CollectionFails(k)
      PROVE  Resting'
  BY <1>9 DEF CollectionFails, Live
<1>10. ASSUME NEW k \in Pollers, Collect(k)
      PROVE  Resting'
  BY <1>10 DEF Collect, Live
<1>11. ASSUME NEW k \in Pollers, Read(k)
      PROVE  Resting'
  BY <1>11 DEF Read, Live
<1>12. ASSUME NEW k \in Pollers, WritePoll(k)
      PROVE  Resting'
  BY <1>12 DEF WritePoll, Forget, Live
<1>13. ASSUME NEW k \in Pollers, Abandon(k)
      PROVE  Resting'
  BY <1>13 DEF Abandon, Live
<1>14. CASE Still
  BY <1>14 DEF Still
<1> QED
  BY <1>1, <1>2, <1>3, <1>4, <1>5, <1>6, <1>7, <1>8, <1>9, <1>10, <1>11, <1>12, <1>13, <1>14
  DEF WatchStep, WatchNext, Poll, Tend

(***************************************************************************)
(* An heir comes only when its watch retires, and a watch that is not      *)
(* there stays blank.                                                      *)
(***************************************************************************)
LEMMA LineageStep ==
  ASSUME WatchTypeOK, Resting, Lineage, WatchStep
  PROVE  Lineage'
<1> USE AttentionWatchAssumption DEF WatchTypeOK, Lineage, rows, clocks, mail, polling
<1>1. ASSUME NEW o \in Owners, NEW c \in 0..MaxVersions, CreateWatch(<<o, 0>>, c)
      PROVE  Lineage'
  <2> DEFINE w == <<o, 0>>
  <2>1. w \in Watches /\ w[1] = o /\ w[2] = 0
    BY RootIsWatch
  <2>2. status' = [status EXCEPT ![w] = "active"] /\ UNCHANGED <<used, outbox>> /\ status[w] = "none"
    BY <1>1 DEF CreateWatch
  <2>3. \A v \in Watches : v # w => status'[v] = status[v]
    BY <2>1, <2>2
  <2>4. \A v \in Watches : v[2] > 0 => v # w
    BY <2>1
  <2>5. \A v \in Watches : v[2] > 0 /\ <<v[1], v[2] - 1>> = w => status[v] = "none"
    BY <2>2
  <2>6. status'[w] = "active"
    BY <2>1, <2>2
  <2>7. \A v \in Watches : v[2] > 0 => <<v[1], v[2] - 1>> \in Watches
    BY Predecessor
  <2> HIDE DEF w
  <2>8. \A v \in Watches : Outboxed(v)' = Outboxed(v)
    BY <2>2 DEF Outboxed
  <2> HIDE DEF WatchTypeOK
  <2> QED BY <2>2, <2>3, <2>4, <2>5, <2>6, <2>7, <2>8
<1>2. ASSUME NEW w \in Watches, NEW c \in 0..journaled, Rebaseline(w, c)
      PROVE  Lineage'
  <2>1. /\ Heir(w) \in Watches /\ Heir(w) # w /\ Heir(w)[2] > 0
        /\ \A v \in Watches : v[2] > 0 => (<<v[1], v[2] - 1>> = w <=> v = Heir(w))
    <3>1. w[2] < MaxHeirs
      BY <1>2 DEF Rebaseline
    <3> QED BY <3>1, HeirShape
  <2>2. /\ status' = [status EXCEPT ![w] = "rebaselined", ![Heir(w)] = "active"]
        /\ UNCHANGED <<used, outbox>> /\ status[w] = "backing_off"
    BY <1>2 DEF Rebaseline
  <2>3. status[Heir(w)] = "none"
    BY <2>1, <2>2
  <2>4. \A v \in Watches : v # w /\ v # Heir(w) => status'[v] = status[v]
    BY <2>1, <2>2
  <2>5. status'[w] = "rebaselined" /\ status'[Heir(w)] = "active"
    BY <2>1, <2>2
  <2>6. \A v \in Watches : v[2] > 0 => <<v[1], v[2] - 1>> \in Watches
    BY Predecessor
  <2>7. \A v \in Watches : v[2] > 0 /\ <<v[1], v[2] - 1>> = Heir(w) => status[v] = "none"
    BY <2>3
  <2>8. \A v \in Watches : Outboxed(v)' = Outboxed(v)
    BY <2>2 DEF Outboxed
  <2>9. <<Heir(w)[1], Heir(w)[2] - 1>> = w
    BY <2>1
  <2> HIDE DEF WatchTypeOK
  <2> QED BY <2>1, <2>2, <2>3, <2>4, <2>5, <2>6, <2>7, <2>8, <2>9
<1>3. ASSUME NEW w \in Watches, CancelWatch(w)
      PROVE  Lineage'
  <2>1. \E s \in Terminal : status' = [status EXCEPT ![w] = s]
    BY <1>3 DEF CancelWatch, Terminal
  <2>2. UNCHANGED <<used, outbox>> /\ status[w] \in Live
    BY <1>3 DEF CancelWatch
  <2>3. \A v \in Watches : used'[v] = used[v] /\ Outboxed(v)' = Outboxed(v)
    BY <2>2 DEF Outboxed
  <2> QED BY <2>1, <2>2, <2>3, EndsAlone
<1>4. ASSUME NEW w \in Watches, EndAtClaim(w)
      PROVE  Lineage'
  <2>1. \E s \in Terminal : status' = [status EXCEPT ![w] = s]
    BY <1>4 DEF EndAtClaim, Terminal
  <2>2. UNCHANGED <<used, outbox>> /\ status[w] \in Live
    BY <1>4 DEF EndAtClaim
  <2>3. \A v \in Watches : used'[v] = used[v] /\ Outboxed(v)' = Outboxed(v)
    BY <2>2 DEF Outboxed
  <2> QED BY <2>1, <2>2, <2>3, EndsAlone
<1>5. ASSUME NEW w \in Watches, Lapse(w)
      PROVE  Lineage'
  BY <1>5, LineageFrame DEF Lapse
<1>6. ASSUME NEW w \in Watches, Cool(w)
      PROVE  Lineage'
  BY <1>6, LineageFrame DEF Cool
<1>7. ASSUME NEW o \in Owners, Pass(o)
      PROVE  Lineage'
  BY <1>7, LineageFrame DEF Pass
<1>8. ASSUME NEW k \in Pollers, NEW w \in Watches, Claim(k, w)
      PROVE  Lineage'
  BY <1>8, LineageFrame DEF Claim
<1>9. ASSUME NEW k \in Pollers, CollectionFails(k)
      PROVE  Lineage'
  BY <1>9, LineageFrame DEF CollectionFails
<1>10. ASSUME NEW k \in Pollers, Collect(k)
      PROVE  Lineage'
  BY <1>10, LineageFrame DEF Collect
<1>11. ASSUME NEW k \in Pollers, Read(k)
      PROVE  Lineage'
  BY <1>11, LineageFrame DEF Read
<1>12. ASSUME NEW k \in Pollers, WritePoll(k)
      PROVE  Lineage'
  <2>1. StatusAfter(finding[k]) \in Live \cup Terminal /\ polled[k] \in Watches
    BY DEF StatusAfter, Live, Terminal
  <2>2. status' = [status EXCEPT ![polled[k]] = StatusAfter(finding[k])]
    BY <1>12 DEF WritePoll
  <2>3. status[polled[k]] \in Live
    BY <1>12 DEF WritePoll, HoldsLease, Resting
  <2>4. \A v \in Watches : v # polled[k] => used'[v] = used[v] /\ Outboxed(v)' = Outboxed(v)
    BY <1>12 DEF WritePoll, Outboxed, Wake
  <2> QED BY <2>1, <2>2, <2>3, <2>4, EndsAlone
<1>13. ASSUME NEW k \in Pollers, Abandon(k)
      PROVE  Lineage'
  BY <1>13, LineageFrame DEF Abandon
<1>14. CASE Still
  BY <1>14, LineageFrame DEF Still
<1> QED
  BY <1>1, <1>2, <1>3, <1>4, <1>5, <1>6, <1>7, <1>8, <1>9, <1>10, <1>11, <1>12, <1>13, <1>14
  DEF WatchStep, WatchNext, Poll, Tend

(***************************************************************************)
(* A watch is leased only while it has an allowance left.                  *)
(***************************************************************************)
LEMMA ChargedStep ==
  ASSUME WatchTypeOK, Resting, Lineage, Charged, WatchStep
  PROVE  Charged'
<1> USE AttentionWatchAssumption DEF WatchTypeOK, Charged, rows, clocks, mail, polling
<1>1. ASSUME NEW o \in Owners, NEW c \in 0..MaxVersions, CreateWatch(<<o, 0>>, c)
      PROVE  Charged'
  <2>1. <<o, 0>> \in Watches
    BY RootIsWatch
  <2>2. holder[<<o, 0>>] = "nobody"
    BY <1>1, <2>1 DEF CreateWatch, Resting, Live
  <2>3. /\ \A v \in Watches : v # <<o, 0>> => limit'[v] = limit[v]
        /\ UNCHANGED <<used, holder>>
    BY <1>1, <2>1 DEF CreateWatch
  <2> QED BY <2>1, <2>2, <2>3
<1>2. ASSUME NEW w \in Watches, NEW c \in 0..journaled, Rebaseline(w, c)
      PROVE  Charged'
  <2>1. /\ w[2] < MaxHeirs /\ status[w] = "backing_off"
        /\ holder' = [holder EXCEPT ![w] = "nobody"]
        /\ limit' = [limit EXCEPT ![Heir(w)] = HeirLimit(w)] /\ UNCHANGED used
    BY <1>2 DEF Rebaseline
  <2>2. Heir(w) \in Watches /\ Heir(w) # w /\ status[Heir(w)] = "none"
    BY <2>1, HeirIsNew
  <2>3. holder[Heir(w)] = "nobody"
    BY <2>2 DEF Resting, Live
  <2> QED BY <2>1, <2>2, <2>3
<1>3. ASSUME NEW w \in Watches, CancelWatch(w)
      PROVE  Charged'
  BY <1>3 DEF CancelWatch
<1>4. ASSUME NEW w \in Watches, EndAtClaim(w)
      PROVE  Charged'
  BY <1>4 DEF EndAtClaim
<1>5. ASSUME NEW w \in Watches, Lapse(w)
      PROVE  Charged'
  BY <1>5 DEF Lapse
<1>6. ASSUME NEW w \in Watches, Cool(w)
      PROVE  Charged'
  BY <1>6 DEF Cool
<1>7. ASSUME NEW o \in Owners, Pass(o)
      PROVE  Charged'
  BY <1>7 DEF Pass
<1>8. ASSUME NEW k \in Pollers, NEW w \in Watches, Claim(k, w)
      PROVE  Charged'
  BY <1>8 DEF Claim, Over
<1>9. ASSUME NEW k \in Pollers, CollectionFails(k)
      PROVE  Charged'
  BY <1>9 DEF CollectionFails
<1>10. ASSUME NEW k \in Pollers, Collect(k)
      PROVE  Charged'
  BY <1>10 DEF Collect
<1>11. ASSUME NEW k \in Pollers, Read(k)
      PROVE  Charged'
  BY <1>11 DEF Read
<1>12. ASSUME NEW k \in Pollers, WritePoll(k)
      PROVE  Charged'
  <2>1. /\ polled[k] \in Watches /\ holder' = [holder EXCEPT ![polled[k]] = "nobody"]
        /\ \A v \in Watches : v # polled[k] => used'[v] = used[v]
        /\ UNCHANGED limit
    BY <1>12 DEF WritePoll
  <2> QED BY <2>1
<1>13. ASSUME NEW k \in Pollers, Abandon(k)
      PROVE  Charged'
  BY <1>13 DEF Abandon
<1>14. CASE Still
  BY <1>14 DEF Still
<1> QED
  BY <1>1, <1>2, <1>3, <1>4, <1>5, <1>6, <1>7, <1>8, <1>9, <1>10, <1>11, <1>12, <1>13, <1>14
  DEF WatchStep, WatchNext, Poll, Tend

(* A poller at rest still holds what it read, while its watch, if leased to it, rests.  *)
LEMMA ReadFrame ==
  ASSUME NEW k \in Pollers, ReadHeld(k),
         pc'[k] = pc[k], finding'[k] = finding[k], size'[k] = size[k], polled'[k] = polled[k],
         spent'[k] = spent[k], cut'[k] = cut[k], fresh'[k] = fresh[k],
         holder'[polled[k]] = k => /\ holder[polled[k]] = k
                                   /\ used'[polled[k]] = used[polled[k]]
                                   /\ limit'[polled[k]] = limit[polled[k]]
                                   /\ seen'[polled[k]] = seen[polled[k]]
  PROVE  ReadHeld(k)'
BY DEF ReadHeld

(***************************************************************************)
(* A poll writes what is still so: whatever it read of its watch is as it  *)
(* was while the lease is its own.                                         *)
(***************************************************************************)
LEMMA ReadHoldsStep ==
  ASSUME WatchTypeOK, Resting, Lineage, ReadHolds, WatchStep
  PROVE  ReadHolds'
<1> USE AttentionWatchAssumption DEF WatchTypeOK, rows, clocks, mail, polling
<1>1. ASSUME NEW o \in Owners, NEW c \in 0..MaxVersions, CreateWatch(<<o, 0>>, c)
      PROVE  ReadHolds'
  <2> SUFFICES ASSUME NEW k \in Pollers PROVE ReadHeld(k)'
    BY DEF ReadHolds
  <2>1. <<o, 0>> \in Watches
    BY RootIsWatch
  <2>2. holder[<<o, 0>>] = "nobody"
    BY <1>1, <2>1 DEF CreateWatch, Resting, Live
  <2>3. /\ \A v \in Watches : v # <<o, 0>> => limit'[v] = limit[v] /\ seen'[v] = seen[v]
        /\ UNCHANGED <<used, holder, polling>>
    BY <1>1, <2>1 DEF CreateWatch
  <2>4. CASE polled[k] = <<o, 0>>
    <3>1. holder'[polled[k]] # k
      BY <2>2, <2>3, <2>4
    <3> QED BY <2>3, <3>1, ReadFrame DEF ReadHolds
  <2>5. CASE polled[k] # <<o, 0>>
    BY <2>3, <2>5, ReadFrame DEF ReadHolds
  <2> QED BY <2>4, <2>5
<1>2. ASSUME NEW w \in Watches, NEW c \in 0..journaled, Rebaseline(w, c)
      PROVE  ReadHolds'
  <2> SUFFICES ASSUME NEW k \in Pollers PROVE ReadHeld(k)'
    BY DEF ReadHolds
  <2>1. /\ w[2] < MaxHeirs /\ status[w] = "backing_off"
        /\ holder' = [holder EXCEPT ![w] = "nobody"] /\ UNCHANGED <<used, polling>>
        /\ limit' = [limit EXCEPT ![Heir(w)] = HeirLimit(w)]
        /\ seen' = [seen EXCEPT ![Heir(w)] = 1..c]
    BY <1>2 DEF Rebaseline
  <2>2. Heir(w) \in Watches /\ Heir(w) # w /\ status[Heir(w)] = "none"
    BY <2>1, HeirIsNew
  <2>3. holder[Heir(w)] = "nobody"
    BY <2>2 DEF Resting, Live
  <2> QED BY <2>1, <2>2, <2>3, ReadFrame DEF ReadHolds
<1>3. ASSUME NEW w \in Watches, CancelWatch(w)
      PROVE  ReadHolds'
  <2> SUFFICES ASSUME NEW k \in Pollers PROVE ReadHeld(k)'
    BY DEF ReadHolds
  <2>1. holder' = [holder EXCEPT ![w] = "nobody"] /\ UNCHANGED <<used, limit, seen, polling>>
    BY <1>3 DEF CancelWatch
  <2> QED BY <2>1, ReadFrame DEF ReadHolds
<1>4. ASSUME NEW w \in Watches, EndAtClaim(w)
      PROVE  ReadHolds'
  <2> SUFFICES ASSUME NEW k \in Pollers PROVE ReadHeld(k)'
    BY DEF ReadHolds
  <2>1. holder' = [holder EXCEPT ![w] = "nobody"] /\ UNCHANGED <<used, limit, seen, polling>>
    BY <1>4 DEF EndAtClaim
  <2> QED BY <2>1, ReadFrame DEF ReadHolds
<1>5. ASSUME NEW w \in Watches, Lapse(w)
      PROVE  ReadHolds'
  <2> SUFFICES ASSUME NEW k \in Pollers PROVE ReadHeld(k)'
    BY DEF ReadHolds
  <2>1. UNCHANGED <<holder, used, limit, seen, polling>>
    BY <1>5 DEF Lapse
  <2> QED BY <2>1, ReadFrame DEF ReadHolds
<1>6. ASSUME NEW w \in Watches, Cool(w)
      PROVE  ReadHolds'
  <2> SUFFICES ASSUME NEW k \in Pollers PROVE ReadHeld(k)'
    BY DEF ReadHolds
  <2>1. UNCHANGED <<holder, used, limit, seen, polling>>
    BY <1>6 DEF Cool
  <2> QED BY <2>1, ReadFrame DEF ReadHolds
<1>7. ASSUME NEW o \in Owners, Pass(o)
      PROVE  ReadHolds'
  <2> SUFFICES ASSUME NEW k \in Pollers PROVE ReadHeld(k)'
    BY DEF ReadHolds
  <2>1. UNCHANGED <<holder, used, limit, seen, polling>>
    BY <1>7 DEF Pass
  <2> QED BY <2>1, ReadFrame DEF ReadHolds
<1>8. ASSUME NEW k \in Pollers, NEW w \in Watches, Claim(k, w)
      PROVE  ReadHolds'
  <2> SUFFICES ASSUME NEW j \in Pollers PROVE ReadHeld(j)'
    BY DEF ReadHolds
  <2>1. /\ pc[k] = "idle" /\ holder' = [holder EXCEPT ![w] = k]
        /\ pc' = [pc EXCEPT ![k] = "collecting"] /\ polled' = [polled EXCEPT ![k] = w]
        /\ spent' = [spent EXCEPT ![k] = used[w].bytes]
        /\ UNCHANGED <<used, limit, seen, size, cut, finding, fresh>>
    BY <1>8 DEF Claim
  <2>2. CASE j = k
    <3>1. pc'[k] = "collecting" /\ polled'[k] = w /\ spent'[k] = used'[w].bytes /\ size'[k] = 0
      BY <2>1 DEF ReadHolds, ReadHeld
    <3> QED BY <2>2, <3>1 DEF ReadHeld
  <2>3. CASE j # k
    BY <2>1, <2>3, ReadFrame DEF ReadHolds
  <2> QED BY <2>2, <2>3
<1>9. ASSUME NEW k \in Pollers, CollectionFails(k)
      PROVE  ReadHolds'
  <2> SUFFICES ASSUME NEW j \in Pollers PROVE ReadHeld(j)'
    BY DEF ReadHolds
  <2>1. /\ pc[k] = "collecting" /\ pc' = [pc EXCEPT ![k] = "writing"]
        /\ finding' = [finding EXCEPT ![k] = "failed"]
        /\ UNCHANGED <<holder, used, limit, seen, polled, spent, size, cut, fresh>>
    BY <1>9 DEF CollectionFails
  <2>2. CASE j = k
    <3>1. pc'[k] = "writing" /\ finding'[k] = "failed"
      BY <2>1
    <3> QED BY <2>1, <2>2, <3>1 DEF ReadHolds, ReadHeld
  <2>3. CASE j # k
    BY <2>1, <2>3, ReadFrame DEF ReadHolds
  <2> QED BY <2>2, <2>3
<1>10. ASSUME NEW k \in Pollers, Collect(k)
      PROVE  ReadHolds'
  <2> SUFFICES ASSUME NEW j \in Pollers PROVE ReadHeld(j)'
    BY DEF ReadHolds
  <2>1. PICK b \in Sizes, c \in Nat :
          /\ pc[k] = "collecting" /\ pc' = [pc EXCEPT ![k] = "reading"]
          /\ size' = [size EXCEPT ![k] = b] /\ cut' = [cut EXCEPT ![k] = c]
          /\ finding' = [finding EXCEPT ![k] = Timing(polled[k])]
          /\ UNCHANGED <<holder, used, limit, seen, polled, spent, fresh>>
    <3>1. PICK n \in journaled..MaxVersions, b \in Sizes : \E c \in 0..n :
            /\ pc[k] = "collecting" /\ pc' = [pc EXCEPT ![k] = "reading"]
            /\ size' = [size EXCEPT ![k] = b] /\ cut' = [cut EXCEPT ![k] = c]
            /\ finding' = [finding EXCEPT ![k] = Timing(polled[k])]
            /\ UNCHANGED <<holder, used, limit, seen, polled, spent, fresh>>
      BY <1>10 DEF Collect
    <3>2. \A c \in 0..n : c \in Nat
      OBVIOUS
    <3> QED BY <3>1, <3>2
  <2>2. CASE j = k
    <3>1. pc'[k] = "reading" /\ finding'[k] = Timing(polled[k])
      BY <2>1
    <3>2. Timing(polled[k]) \in {"expired", "cooling", "wake"}
      BY DEF Timing
    <3> QED BY <2>1, <2>2, <3>1, <3>2 DEF ReadHolds, ReadHeld
  <2>3. CASE j # k
    BY <2>1, <2>3, ReadFrame DEF ReadHolds
  <2> QED BY <2>2, <2>3
<1>11. ASSUME NEW k \in Pollers, Read(k)
      PROVE  ReadHolds'
  <2> SUFFICES ASSUME NEW j \in Pollers PROVE ReadHeld(j)'
    BY DEF ReadHolds
  <2>1. PICK f \in Exits(k) : finding' = [finding EXCEPT ![k] = f]
    BY <1>11 DEF Read
  <2>2. /\ pc[k] = "reading" /\ pc' = [pc EXCEPT ![k] = "writing"]
        /\ fresh' = [fresh EXCEPT ![k] = 1..cut[k] \ seen[polled[k]]]
        /\ UNCHANGED <<holder, used, limit, seen, polled, spent, size, cut>>
    BY <1>11 DEF Read
  <2>3. CASE j = k
    <3>1. /\ pc'[k] = "writing" /\ finding'[k] = f
          /\ fresh'[k] = 1..cut[k] \ seen[polled[k]]
      BY <2>1, <2>2, Prefix DEF Findings
    <3>2. finding[k] \in {"expired", "cooling", "wake"}
      BY <2>2 DEF ReadHolds, ReadHeld
    <3>3. f \notin {"failed", "none"}
      BY <3>2 DEF Exits
    <3>4. f \in {"quiet", "cooling", "wake"} => (f = "quiet" <=> fresh'[k] = {})
      BY <3>1, <3>2 DEF Exits
    <3>5. f \in {"partial", "gap", "quiet", "cooling", "wake"} =>
            spent[k] + size[k] =< limit[polled[k]].bytes
      BY <3>2 DEF Exits, Fields
    <3>6. pc[k] # "idle" /\ holder[polled[k]] = k => spent[k] = used[polled[k]].bytes
      BY DEF ReadHolds, ReadHeld
    <3> HIDE DEF WatchTypeOK
    <3> QED BY <2>2, <2>3, <3>1, <3>3, <3>4, <3>5, <3>6 DEF ReadHeld
  <2>4. CASE j # k
    BY <2>1, <2>2, <2>4, ReadFrame DEF ReadHolds
  <2> QED BY <2>3, <2>4
<1>12. ASSUME NEW k \in Pollers, WritePoll(k)
      PROVE  ReadHolds'
  <2> SUFFICES ASSUME NEW j \in Pollers PROVE ReadHeld(j)'
    BY DEF ReadHolds
  <2>1. /\ pc' = [pc EXCEPT ![k] = "idle"] /\ polled' = [polled EXCEPT ![k] = Anyone]
        /\ spent' = [spent EXCEPT ![k] = 0] /\ size' = [size EXCEPT ![k] = 0]
        /\ cut' = [cut EXCEPT ![k] = 0] /\ finding' = [finding EXCEPT ![k] = "none"]
        /\ fresh' = [fresh EXCEPT ![k] = {}]
    BY <1>12 DEF WritePoll, Forget
  <2>2. /\ holder' = [holder EXCEPT ![polled[k]] = "nobody"] /\ UNCHANGED limit
        /\ \A v \in Watches : v # polled[k] => used'[v] = used[v] /\ seen'[v] = seen[v]
    BY <1>12 DEF WritePoll
  <2>3. CASE j = k
    <3>1. pc'[k] = "idle" /\ size'[k] = 0
      BY <2>1
    <3> QED BY <2>3, <3>1 DEF ReadHeld
  <2>4. CASE j # k
    BY <2>1, <2>2, <2>4, ReadFrame DEF ReadHolds
  <2> QED BY <2>3, <2>4
<1>13. ASSUME NEW k \in Pollers, Abandon(k)
      PROVE  ReadHolds'
  <2> SUFFICES ASSUME NEW j \in Pollers PROVE ReadHeld(j)'
    BY DEF ReadHolds
  <2>1. /\ pc' = [pc EXCEPT ![k] = "idle"] /\ polled' = [polled EXCEPT ![k] = Anyone]
        /\ spent' = [spent EXCEPT ![k] = 0] /\ size' = [size EXCEPT ![k] = 0]
        /\ cut' = [cut EXCEPT ![k] = 0] /\ finding' = [finding EXCEPT ![k] = "none"]
        /\ fresh' = [fresh EXCEPT ![k] = {}]
    BY <1>13 DEF Abandon, Forget
  <2>2. UNCHANGED <<holder, used, limit, seen>>
    BY <1>13 DEF Abandon
  <2>3. CASE j = k
    <3>1. pc'[k] = "idle" /\ size'[k] = 0
      BY <2>1
    <3> QED BY <2>3, <3>1 DEF ReadHeld
  <2>4. CASE j # k
    BY <2>1, <2>2, <2>4, ReadFrame DEF ReadHolds
  <2> QED BY <2>3, <2>4
<1>14. CASE Still
  BY <1>14, ReadFrame DEF Still, ReadHolds
<1> QED
  BY <1>1, <1>2, <1>3, <1>4, <1>5, <1>6, <1>7, <1>8, <1>9, <1>10, <1>11, <1>12, <1>13, <1>14
  DEF WatchStep, WatchNext, Poll, Tend

LEMMA AnnouncedFrame ==
  ASSUME NEW w \in Watches, Announced(w),
         seen'[w] = seen[w], base'[w] = base[w], Outboxed(w)' = Outboxed(w)
  PROVE  Announced(w)'
BY DEF Announced

(* A watch marks what its wake announces. *)
LEMMA Announcement ==
  ASSUME NEW w \in Watches, Announced(w), NEW m, m.new # {}, m.new \cap seen[w] = {},
         seen'[w] = seen[w] \cup m.new, base'[w] = base[w],
         Outboxed(w)' = Outboxed(w) \cup {m}
  PROVE  Announced(w)'
<1>1. \A n \in Outboxed(w) : n.new \subseteq seen[w]
  BY DEF Announced
<1>2. base[w] \subseteq seen[w]
  BY DEF Announced
<1>3. UNION {n.new : n \in Outboxed(w)'} = (UNION {n.new : n \in Outboxed(w)}) \cup m.new
  <2>1. {n.new : n \in Outboxed(w)'} = {n.new : n \in Outboxed(w)} \cup {m.new}
    BY Zenon
  <2>2. ASSUME NEW S, NEW d
        PROVE  UNION (S \cup {d}) = (UNION S) \cup d
    OBVIOUS
  <2> QED BY <2>1, <2>2, Zenon
<1>4. seen'[w] = base'[w] \cup UNION {n.new : n \in Outboxed(w)'}
  BY <1>3 DEF Announced
<1>5. ASSUME NEW n \in Outboxed(w)'
      PROVE  n.new # {} /\ n.new \cap base'[w] = {}
  BY <1>2 DEF Announced
<1>6. ASSUME NEW n \in Outboxed(w)', NEW p \in Outboxed(w)'
      PROVE  n = p \/ n.new \cap p.new = {}
  BY <1>1 DEF Announced
<1> QED BY <1>4, <1>5, <1>6 DEF Announced

(***************************************************************************)
(* No step announces a version again, or marks one that is not announced.  *)
(***************************************************************************)
LEMMA AnnouncedStep ==
  ASSUME WatchTypeOK, Lineage, ReadHolds, AnnouncedOnce, WatchStep
  PROVE  AnnouncedOnce'
<1> USE AttentionWatchAssumption DEF WatchTypeOK, rows, clocks, mail, polling
<1>1. ASSUME NEW o \in Owners, NEW c \in 0..MaxVersions, CreateWatch(<<o, 0>>, c)
      PROVE  AnnouncedOnce'
  <2> SUFFICES ASSUME NEW v \in Watches PROVE Announced(v)'
    BY DEF AnnouncedOnce
  <2>1. <<o, 0>> \in Watches
    BY RootIsWatch
  <2>2. /\ status[<<o, 0>>] = "none" /\ UNCHANGED outbox
        /\ base' = [base EXCEPT ![<<o, 0>>] = 1..c] /\ seen' = [seen EXCEPT ![<<o, 0>>] = 1..c]
    BY <1>1 DEF CreateWatch
  <2>3. CASE v = <<o, 0>>
    <3>1. base'[v] = 1..c /\ seen'[v] = 1..c
      BY <2>1, <2>2, <2>3
    <3>2. Outboxed(v)' = Outboxed(v)
      BY <2>2 DEF Outboxed
    <3>3. Outboxed(v) = {}
      BY <2>1, <2>2, <2>3 DEF Lineage
    <3> QED BY <3>1, <3>2, <3>3 DEF Announced
  <2>4. CASE v # <<o, 0>>
    <3>1. base'[v] = base[v] /\ seen'[v] = seen[v] /\ Outboxed(v)' = Outboxed(v)
      BY <2>1, <2>2, <2>4 DEF Outboxed
    <3> QED BY <3>1, AnnouncedFrame DEF AnnouncedOnce
  <2> QED BY <2>3, <2>4
<1>2. ASSUME NEW w \in Watches, NEW c \in 0..journaled, Rebaseline(w, c)
      PROVE  AnnouncedOnce'
  <2> SUFFICES ASSUME NEW v \in Watches PROVE Announced(v)'
    BY DEF AnnouncedOnce
  <2>1. Heir(w) \in Watches /\ status[Heir(w)] = "none"
    <3>1. w[2] < MaxHeirs /\ status[w] # "rebaselined"
      BY <1>2 DEF Rebaseline
    <3> QED BY <3>1, HeirIsNew
  <2>2. /\ UNCHANGED outbox
        /\ base' = [base EXCEPT ![Heir(w)] = 1..c] /\ seen' = [seen EXCEPT ![Heir(w)] = 1..c]
    BY <1>2 DEF Rebaseline
  <2>3. CASE v = Heir(w)
    <3>1. base'[v] = 1..c /\ seen'[v] = 1..c
      BY <2>1, <2>2, <2>3
    <3>2. Outboxed(v)' = Outboxed(v)
      BY <2>2 DEF Outboxed
    <3>3. Outboxed(v) = {}
      BY <2>1, <2>2, <2>3 DEF Lineage
    <3> QED BY <3>1, <3>2, <3>3 DEF Announced
  <2>4. CASE v # Heir(w)
    <3>1. base'[v] = base[v] /\ seen'[v] = seen[v] /\ Outboxed(v)' = Outboxed(v)
      BY <2>1, <2>2, <2>4 DEF Outboxed
    <3> QED BY <3>1, AnnouncedFrame DEF AnnouncedOnce
  <2> QED BY <2>3, <2>4
<1>3. ASSUME NEW w \in Watches, CancelWatch(w)
      PROVE  AnnouncedOnce'
  <2> SUFFICES ASSUME NEW v \in Watches PROVE Announced(v)'
    BY DEF AnnouncedOnce
  <2>1. UNCHANGED <<seen, base, outbox>>
    BY <1>3 DEF CancelWatch
  <2> QED BY <2>1, AnnouncedFrame DEF AnnouncedOnce, Outboxed
<1>4. ASSUME NEW w \in Watches, EndAtClaim(w)
      PROVE  AnnouncedOnce'
  <2> SUFFICES ASSUME NEW v \in Watches PROVE Announced(v)'
    BY DEF AnnouncedOnce
  <2>1. UNCHANGED <<seen, base, outbox>>
    BY <1>4 DEF EndAtClaim
  <2> QED BY <2>1, AnnouncedFrame DEF AnnouncedOnce, Outboxed
<1>5. ASSUME NEW w \in Watches, Lapse(w)
      PROVE  AnnouncedOnce'
  <2> SUFFICES ASSUME NEW v \in Watches PROVE Announced(v)'
    BY DEF AnnouncedOnce
  <2>1. UNCHANGED <<seen, base, outbox>>
    BY <1>5 DEF Lapse
  <2> QED BY <2>1, AnnouncedFrame DEF AnnouncedOnce, Outboxed
<1>6. ASSUME NEW w \in Watches, Cool(w)
      PROVE  AnnouncedOnce'
  <2> SUFFICES ASSUME NEW v \in Watches PROVE Announced(v)'
    BY DEF AnnouncedOnce
  <2>1. UNCHANGED <<seen, base, outbox>>
    BY <1>6 DEF Cool
  <2> QED BY <2>1, AnnouncedFrame DEF AnnouncedOnce, Outboxed
<1>7. ASSUME NEW o \in Owners, Pass(o)
      PROVE  AnnouncedOnce'
  <2> SUFFICES ASSUME NEW v \in Watches PROVE Announced(v)'
    BY DEF AnnouncedOnce
  <2>1. UNCHANGED <<seen, base, outbox>>
    BY <1>7 DEF Pass
  <2> QED BY <2>1, AnnouncedFrame DEF AnnouncedOnce, Outboxed
<1>8. ASSUME NEW k \in Pollers, NEW w \in Watches, Claim(k, w)
      PROVE  AnnouncedOnce'
  <2> SUFFICES ASSUME NEW v \in Watches PROVE Announced(v)'
    BY DEF AnnouncedOnce
  <2>1. UNCHANGED <<seen, base, outbox>>
    BY <1>8 DEF Claim
  <2> QED BY <2>1, AnnouncedFrame DEF AnnouncedOnce, Outboxed
<1>9. ASSUME NEW k \in Pollers, CollectionFails(k)
      PROVE  AnnouncedOnce'
  <2> SUFFICES ASSUME NEW v \in Watches PROVE Announced(v)'
    BY DEF AnnouncedOnce
  <2>1. UNCHANGED <<seen, base, outbox>>
    BY <1>9 DEF CollectionFails
  <2> QED BY <2>1, AnnouncedFrame DEF AnnouncedOnce, Outboxed
<1>10. ASSUME NEW k \in Pollers, Collect(k)
      PROVE  AnnouncedOnce'
  <2> SUFFICES ASSUME NEW v \in Watches PROVE Announced(v)'
    BY DEF AnnouncedOnce
  <2>1. UNCHANGED <<seen, base, outbox>>
    BY <1>10 DEF Collect
  <2> QED BY <2>1, AnnouncedFrame DEF AnnouncedOnce, Outboxed
<1>11. ASSUME NEW k \in Pollers, Read(k)
      PROVE  AnnouncedOnce'
  <2> SUFFICES ASSUME NEW v \in Watches PROVE Announced(v)'
    BY DEF AnnouncedOnce
  <2>1. UNCHANGED <<seen, base, outbox>>
    BY <1>11 DEF Read
  <2> QED BY <2>1, AnnouncedFrame DEF AnnouncedOnce, Outboxed
<1>12. ASSUME NEW k \in Pollers, WritePoll(k)
      PROVE  AnnouncedOnce'
  <2> SUFFICES ASSUME NEW v \in Watches PROVE Announced(v)'
    BY DEF AnnouncedOnce
  <2>1. /\ pc[k] = "writing" /\ holder[polled[k]] = k /\ polled[k] \in Watches
        /\ seen' = [seen EXCEPT ![polled[k]] = SeenAfter(k)] /\ UNCHANGED base
        /\ outbox' = outbox \cup IF Rings(k) THEN {Wake(k)} ELSE {}
    BY <1>12 DEF WritePoll, HoldsLease
  <2>2. finding[k] \in {"quiet", "cooling", "wake"} =>
          /\ fresh[k] = 1..cut[k] \ seen[polled[k]] /\ (finding[k] = "quiet" <=> fresh[k] = {})
    BY <2>1 DEF ReadHolds, ReadHeld
  <2>3. Wake(k).watch = polled[k] /\ Wake(k).new = fresh[k]
    BY DEF Wake
  <2>4. CASE v # polled[k]
    <3>1. Outboxed(v)' = Outboxed(v)
      BY <2>1, <2>3, <2>4 DEF Outboxed
    <3> QED BY <2>1, <2>4, <3>1, AnnouncedFrame DEF AnnouncedOnce
  <2>5. CASE v = polled[k] /\ finding[k] = "wake"
    <3>1. fresh[k] # {} /\ fresh[k] \cap seen[v] = {} /\ seen[v] \cup 1..cut[k] = seen[v] \cup fresh[k]
      BY <2>2, <2>5
    <3>2. Wake(k) \notin outbox
      BY <2>3, <2>5, <3>1 DEF AnnouncedOnce, Announced, Outboxed
    <3>3. Outboxed(v)' = Outboxed(v) \cup {Wake(k)}
      BY <2>1, <2>3, <2>5, <3>2 DEF Rings, Outboxed
    <3>4. seen'[v] = seen[v] \cup fresh[k]
      BY <2>1, <2>5, <3>1 DEF SeenAfter
    <3> QED BY <2>1, <2>3, <3>1, <3>3, <3>4, Announcement DEF AnnouncedOnce
  <2>6. CASE v = polled[k] /\ finding[k] # "wake"
    <3>1. Outboxed(v)' = Outboxed(v)
      BY <2>1, <2>6 DEF Rings, Outboxed
    <3>2. SeenAfter(k) = seen[v]
      BY <2>2, <2>6 DEF SeenAfter
    <3>3. seen'[v] = seen[v]
      BY <2>1, <2>6, <3>2
    <3> QED BY <2>1, <3>1, <3>3, AnnouncedFrame DEF AnnouncedOnce
  <2> QED BY <2>4, <2>5, <2>6
<1>13. ASSUME NEW k \in Pollers, Abandon(k)
      PROVE  AnnouncedOnce'
  <2> SUFFICES ASSUME NEW v \in Watches PROVE Announced(v)'
    BY DEF AnnouncedOnce
  <2>1. UNCHANGED <<seen, base, outbox>>
    BY <1>13 DEF Abandon
  <2> QED BY <2>1, AnnouncedFrame DEF AnnouncedOnce, Outboxed
<1>14. CASE Still
  BY <1>14, AnnouncedFrame DEF Still, AnnouncedOnce, Outboxed
<1> QED
  BY <1>1, <1>2, <1>3, <1>4, <1>5, <1>6, <1>7, <1>8, <1>9, <1>10, <1>11, <1>12, <1>13, <1>14
  DEF WatchStep, WatchNext, Poll, Tend

LEMMA RetiredFrame ==
  ASSUME Retired, WatchTypeOK, NEW w \in Watches, status[w] \in Live,
         NEW s \in Live \cup {"cancelled", "expired"}, status' = [status EXCEPT ![w] = s]
  PROVE  Retired'
<1>1. status'[w] # "none" /\ status'[w] # "rebaselined"
  BY DEF WatchTypeOK, Live
<1>2. \A v \in Watches : v # w => status'[v] = status[v]
  BY DEF WatchTypeOK
<1> QED BY <1>1, <1>2 DEF Retired

(***************************************************************************)
(* A watch retires as its heir comes.                                      *)
(***************************************************************************)
LEMMA RetiredStep ==
  ASSUME WatchTypeOK, Resting, Lineage, Retired, WatchStep
  PROVE  Retired'
<1> USE AttentionWatchAssumption DEF WatchTypeOK, Retired, rows, clocks, mail, polling
<1>1. ASSUME NEW o \in Owners, NEW c \in 0..MaxVersions, CreateWatch(<<o, 0>>, c)
      PROVE  Retired'
  <2>1. <<o, 0>> \in Watches
    BY RootIsWatch
  <2>2. status' = [status EXCEPT ![<<o, 0>>] = "active"] /\ status[<<o, 0>>] = "none"
    BY <1>1 DEF CreateWatch
  <2>3. \A v \in Watches : /\ v # <<o, 0>> => status'[v] = status[v]
                           /\ v = <<o, 0>> => status'[v] = "active"
    BY <2>1, <2>2
  <2> QED BY <2>3
<1>2. ASSUME NEW w \in Watches, NEW c \in 0..journaled, Rebaseline(w, c)
      PROVE  Retired'
  <2>1. /\ w[2] < MaxHeirs /\ status[w] = "backing_off"
        /\ status' = [status EXCEPT ![w] = "rebaselined", ![Heir(w)] = "active"]
    BY <1>2 DEF Rebaseline
  <2>2. Heir(w) \in Watches /\ Heir(w) # w
    BY <2>1, HeirIsNew
  <2>3. \A v \in Watches : /\ v # w /\ v # Heir(w) => status'[v] = status[v]
                           /\ v = w => status'[v] = "rebaselined"
                           /\ v = Heir(w) => status'[v] = "active"
    BY <2>1, <2>2
  <2> QED BY <2>2, <2>3
<1>3. ASSUME NEW w \in Watches, CancelWatch(w)
      PROVE  Retired'
  <2>1. status' = [status EXCEPT ![w] = "cancelled"] /\ status[w] \in Live
    BY <1>3 DEF CancelWatch
  <2> QED BY <2>1, RetiredFrame
<1>4. ASSUME NEW w \in Watches, EndAtClaim(w)
      PROVE  Retired'
  <2>1. status' = [status EXCEPT ![w] = "expired"] /\ status[w] \in Live
    BY <1>4 DEF EndAtClaim
  <2> QED BY <2>1, RetiredFrame
<1>5. ASSUME NEW w \in Watches, Lapse(w)
      PROVE  Retired'
  BY <1>5 DEF Lapse
<1>6. ASSUME NEW w \in Watches, Cool(w)
      PROVE  Retired'
  BY <1>6 DEF Cool
<1>7. ASSUME NEW o \in Owners, Pass(o)
      PROVE  Retired'
  BY <1>7 DEF Pass
<1>8. ASSUME NEW k \in Pollers, NEW w \in Watches, Claim(k, w)
      PROVE  Retired'
  BY <1>8 DEF Claim
<1>9. ASSUME NEW k \in Pollers, CollectionFails(k)
      PROVE  Retired'
  BY <1>9 DEF CollectionFails
<1>10. ASSUME NEW k \in Pollers, Collect(k)
      PROVE  Retired'
  BY <1>10 DEF Collect
<1>11. ASSUME NEW k \in Pollers, Read(k)
      PROVE  Retired'
  BY <1>11 DEF Read
<1>12. ASSUME NEW k \in Pollers, WritePoll(k)
      PROVE  Retired'
  <2>1. StatusAfter(finding[k]) \in Live \cup {"cancelled", "expired"} /\ polled[k] \in Watches
    BY DEF StatusAfter, Live
  <2>2. status' = [status EXCEPT ![polled[k]] = StatusAfter(finding[k])]
    BY <1>12 DEF WritePoll
  <2>3. status[polled[k]] \in Live
    BY <1>12 DEF WritePoll, HoldsLease, Resting
  <2> QED BY <2>1, <2>2, <2>3, RetiredFrame
<1>13. ASSUME NEW k \in Pollers, Abandon(k)
      PROVE  Retired'
  BY <1>13 DEF Abandon
<1>14. CASE Still
  BY <1>14 DEF Still
<1> QED
  BY <1>1, <1>2, <1>3, <1>4, <1>5, <1>6, <1>7, <1>8, <1>9, <1>10, <1>11, <1>12, <1>13, <1>14
  DEF WatchStep, WatchNext, Poll, Tend

(* What a watch was given is counted right while nothing but its end is written. *)
LEMMA ConservedFrame ==
  ASSUME NEW w \in Watches, Conserved(w),
         used'[w] = used[w], limit'[w] = limit[w], Outboxed(w)' = Outboxed(w),
         status'[w] = status[w] \/ status'[w] \in {"cancelled", "expired"},
         status[w] = "rebaselined" => limit'[Heir(w)] = limit[Heir(w)]
  PROVE  Conserved(w)'
<1>1. Left(w)' = Left(w)
  BY DEF Left
<1> QED BY <1>1 DEF Conserved

(* A new watch has spent nothing. *)
LEMMA ConservedNew ==
  ASSUME NEW w \in Watches, used'[w] = Zero, limit'[w] \in [Fields -> Nat],
         Outboxed(w)' = {}, status'[w] = "active"
  PROVE  Conserved(w)'
<1>1. Cardinality({}) = 0
  BY FS_EmptySet
<1>2. used'[w].polls = 0 /\ used'[w].bytes = 0 /\ used'[w].wakes = 0
  BY DEF Zero, Fields
<1>3. limit'[w].polls \in Nat /\ limit'[w].bytes \in Nat /\ limit'[w].wakes \in Nat
  BY DEF Fields
<1> QED BY <1>1, <1>2, <1>3 DEF Conserved

(***************************************************************************)
(* No step spends what a watch was not given, or gives its heir what it    *)
(* has spent.                                                              *)
(***************************************************************************)
LEMMA AllowanceStep ==
  ASSUME WatchTypeOK, IsFiniteSet(outbox), Lineage, Retired, Charged, ReadHolds, AllowanceIsConserved, WatchStep
  PROVE  AllowanceIsConserved'
<1> USE AttentionWatchAssumption DEF WatchTypeOK, rows, clocks, mail, polling
<1>1. ASSUME NEW o \in Owners, NEW c \in 0..MaxVersions, CreateWatch(<<o, 0>>, c)
      PROVE  AllowanceIsConserved'
  <2> SUFFICES ASSUME NEW v \in Watches PROVE Conserved(v)'
    BY DEF AllowanceIsConserved
  <2>1. <<o, 0>> \in Watches
    BY RootIsWatch
  <2>2. /\ status[<<o, 0>>] = "none" /\ UNCHANGED <<used, outbox>>
        /\ status' = [status EXCEPT ![<<o, 0>>] = "active"]
        /\ limit' = [limit EXCEPT ![<<o, 0>>] = Limit]
    BY <1>1 DEF CreateWatch
  <2>3. Outboxed(v)' = Outboxed(v)
    BY <2>2 DEF Outboxed
  <2>4. CASE v = <<o, 0>>
    <3>1. used'[v] = Zero /\ Outboxed(v)' = {}
      BY <2>2, <2>3, <2>4 DEF Lineage
    <3>2. limit'[v] = Limit /\ status'[v] = "active"
      BY <2>1, <2>2, <2>4
    <3>3. Limit \in [Fields -> Nat]
      OBVIOUS
    <3> QED BY <3>1, <3>2, <3>3, ConservedNew
  <2>5. CASE v # <<o, 0>>
    <3>1. limit'[v] = limit[v] /\ status'[v] = status[v] /\ used'[v] = used[v]
      BY <2>2, <2>5
    <3>2. status[v] = "rebaselined" => limit'[Heir(v)] = limit[Heir(v)]
      BY <2>2 DEF Retired
    <3> QED BY <2>3, <3>1, <3>2, ConservedFrame DEF AllowanceIsConserved
  <2> QED BY <2>4, <2>5
<1>2. ASSUME NEW w \in Watches, NEW c \in 0..journaled, Rebaseline(w, c)
      PROVE  AllowanceIsConserved'
  <2> SUFFICES ASSUME NEW v \in Watches PROVE Conserved(v)'
    BY DEF AllowanceIsConserved
  <2>1. /\ w[2] < MaxHeirs /\ status[w] = "backing_off" /\ UNCHANGED <<used, outbox>>
        /\ \A f \in Fields : used[w][f] < limit[w][f]
        /\ status' = [status EXCEPT ![w] = "rebaselined", ![Heir(w)] = "active"]
        /\ limit' = [limit EXCEPT ![Heir(w)] = HeirLimit(w)]
    BY <1>2 DEF Rebaseline
  <2>2. Heir(w) \in Watches /\ Heir(w) # w /\ status[Heir(w)] = "none"
    BY <2>1, HeirIsNew
  <2>3. Outboxed(v)' = Outboxed(v)
    BY <2>1 DEF Outboxed
  <2>4. HeirLimit(w) \in [Fields -> Nat]
    BY <2>1 DEF HeirLimit, Left
  <2>5. CASE v = Heir(w)
    <3>1. used'[v] = Zero /\ Outboxed(v)' = {}
      BY <2>1, <2>2, <2>3, <2>5 DEF Lineage
    <3>2. limit'[v] = HeirLimit(w) /\ status'[v] = "active"
      BY <2>1, <2>2, <2>5
    <3> QED BY <2>4, <3>1, <3>2, ConservedNew
  <2>6. CASE v = w
    <3>1. limit'[Heir(w)] = Left(w) /\ limit'[w] = limit[w] /\ used'[w] = used[w]
      BY <2>1, <2>2 DEF HeirLimit
    <3>2. Left(w)' = Left(w)
      BY <3>1 DEF Left
    <3>3. used[w].bytes < limit[w].bytes /\ used[w].bytes \in Nat /\ limit[w].bytes \in Nat
      BY <2>1 DEF Fields
    <3> QED BY <2>3, <2>6, <3>1, <3>2, <3>3 DEF AllowanceIsConserved, Conserved
  <2>7. CASE v # w /\ v # Heir(w)
    <3>1. limit'[v] = limit[v] /\ status'[v] = status[v] /\ used'[v] = used[v]
      BY <2>1, <2>7
    <3>2. status[v] = "rebaselined" => limit'[Heir(v)] = limit[Heir(v)]
      BY <2>1, <2>2 DEF Retired
    <3> QED BY <2>3, <3>1, <3>2, ConservedFrame DEF AllowanceIsConserved
  <2> QED BY <2>5, <2>6, <2>7
<1>3. ASSUME NEW w \in Watches, CancelWatch(w)
      PROVE  AllowanceIsConserved'
  <2> SUFFICES ASSUME NEW v \in Watches PROVE Conserved(v)'
    BY DEF AllowanceIsConserved
  <2>1. status' = [status EXCEPT ![w] = "cancelled"] /\ UNCHANGED <<used, limit, outbox>>
    BY <1>3 DEF CancelWatch
  <2>2. status'[v] = status[v] \/ status'[v] = "cancelled"
    BY <2>1
  <2>3. Outboxed(v)' = Outboxed(v)
    BY <2>1 DEF Outboxed
  <2> QED BY <2>1, <2>2, <2>3, ConservedFrame DEF AllowanceIsConserved
<1>4. ASSUME NEW w \in Watches, EndAtClaim(w)
      PROVE  AllowanceIsConserved'
  <2> SUFFICES ASSUME NEW v \in Watches PROVE Conserved(v)'
    BY DEF AllowanceIsConserved
  <2>1. status' = [status EXCEPT ![w] = "expired"] /\ UNCHANGED <<used, limit, outbox>>
    BY <1>4 DEF EndAtClaim
  <2>2. status'[v] = status[v] \/ status'[v] = "expired"
    BY <2>1
  <2>3. Outboxed(v)' = Outboxed(v)
    BY <2>1 DEF Outboxed
  <2> QED BY <2>1, <2>2, <2>3, ConservedFrame DEF AllowanceIsConserved
<1>5. ASSUME NEW w \in Watches, Lapse(w)
      PROVE  AllowanceIsConserved'
  <2> SUFFICES ASSUME NEW v \in Watches PROVE Conserved(v)'
    BY DEF AllowanceIsConserved
  <2>1. UNCHANGED <<status, used, limit, outbox>>
    BY <1>5 DEF Lapse
  <2> QED BY <2>1, ConservedFrame DEF AllowanceIsConserved, Outboxed
<1>6. ASSUME NEW w \in Watches, Cool(w)
      PROVE  AllowanceIsConserved'
  <2> SUFFICES ASSUME NEW v \in Watches PROVE Conserved(v)'
    BY DEF AllowanceIsConserved
  <2>1. UNCHANGED <<status, used, limit, outbox>>
    BY <1>6 DEF Cool
  <2> QED BY <2>1, ConservedFrame DEF AllowanceIsConserved, Outboxed
<1>7. ASSUME NEW o \in Owners, Pass(o)
      PROVE  AllowanceIsConserved'
  <2> SUFFICES ASSUME NEW v \in Watches PROVE Conserved(v)'
    BY DEF AllowanceIsConserved
  <2>1. UNCHANGED <<status, used, limit, outbox>>
    BY <1>7 DEF Pass
  <2> QED BY <2>1, ConservedFrame DEF AllowanceIsConserved, Outboxed
<1>8. ASSUME NEW k \in Pollers, NEW w \in Watches, Claim(k, w)
      PROVE  AllowanceIsConserved'
  <2> SUFFICES ASSUME NEW v \in Watches PROVE Conserved(v)'
    BY DEF AllowanceIsConserved
  <2>1. UNCHANGED <<status, used, limit, outbox>>
    BY <1>8 DEF Claim
  <2> QED BY <2>1, ConservedFrame DEF AllowanceIsConserved, Outboxed
<1>9. ASSUME NEW k \in Pollers, CollectionFails(k)
      PROVE  AllowanceIsConserved'
  <2> SUFFICES ASSUME NEW v \in Watches PROVE Conserved(v)'
    BY DEF AllowanceIsConserved
  <2>1. UNCHANGED <<status, used, limit, outbox>>
    BY <1>9 DEF CollectionFails
  <2> QED BY <2>1, ConservedFrame DEF AllowanceIsConserved, Outboxed
<1>10. ASSUME NEW k \in Pollers, Collect(k)
      PROVE  AllowanceIsConserved'
  <2> SUFFICES ASSUME NEW v \in Watches PROVE Conserved(v)'
    BY DEF AllowanceIsConserved
  <2>1. UNCHANGED <<status, used, limit, outbox>>
    BY <1>10 DEF Collect
  <2> QED BY <2>1, ConservedFrame DEF AllowanceIsConserved, Outboxed
<1>11. ASSUME NEW k \in Pollers, Read(k)
      PROVE  AllowanceIsConserved'
  <2> SUFFICES ASSUME NEW v \in Watches PROVE Conserved(v)'
    BY DEF AllowanceIsConserved
  <2>1. UNCHANGED <<status, used, limit, outbox>>
    BY <1>11 DEF Read
  <2> QED BY <2>1, ConservedFrame DEF AllowanceIsConserved, Outboxed
<1>12. ASSUME NEW k \in Pollers, WritePoll(k)
      PROVE  AllowanceIsConserved'
  <2> SUFFICES ASSUME NEW v \in Watches PROVE Conserved(v)'
    BY DEF AllowanceIsConserved
  <2>1. /\ pc[k] = "writing" /\ holder[polled[k]] = k /\ polled[k] \in Watches /\ UNCHANGED limit
        /\ status' = [status EXCEPT ![polled[k]] = StatusAfter(finding[k])]
        /\ outbox' = outbox \cup IF Rings(k) THEN {Wake(k)} ELSE {}
    BY <1>12 DEF WritePoll, HoldsLease
  <2>2. used' = [used EXCEPT ![polled[k]] = [polls |-> used[polled[k]].polls + 1, bytes |-> used[polled[k]].bytes + size[k],
                                    wakes |-> used[polled[k]].wakes + IF Rings(k) THEN 1 ELSE 0]]
    BY <1>12 DEF WritePoll
  <2>3. Wake(k).watch = polled[k]
    BY DEF Wake
  <2>4. CASE v # polled[k]
    <3>1. Outboxed(v)' = Outboxed(v)
      BY <2>1, <2>3, <2>4 DEF Outboxed
    <3> QED BY <2>1, <2>2, <2>4, <3>1, ConservedFrame DEF AllowanceIsConserved
  <2>5. CASE v = polled[k]
    <3>1. /\ used'[v].polls = used[v].polls + 1 /\ used'[v].bytes = used[v].bytes + size[k]
          /\ used'[v].wakes = used[v].wakes + IF Rings(k) THEN 1 ELSE 0
          /\ limit'[v] = limit[v] /\ status'[v] = StatusAfter(finding[k])
      BY <2>1, <2>2, <2>5
    <3>2. used[v].polls < limit[v].polls /\ used[v].wakes < limit[v].wakes
      BY <2>1, <2>5 DEF Charged, Fields
    <3>3. used'[v].wakes = Cardinality(Outboxed(v)')
      <4>1. CASE Rings(k)
        <5>1. outbox' = outbox \cup {Wake(k)} /\ Wake(k) \notin outbox
          BY <2>1, <4>1 DEF Rings
        <5>2. Outboxed(v)' = Outboxed(v) \cup {Wake(k)} /\ Wake(k) \notin Outboxed(v)
          BY <2>3, <2>5, <5>1 DEF Outboxed
        <5>3. Outboxed(v) \subseteq outbox
          BY DEF Outboxed
        <5>4. IsFiniteSet(Outboxed(v))
          BY <5>3, FS_Subset
        <5>5. Cardinality(Outboxed(v) \cup {Wake(k)}) = Cardinality(Outboxed(v)) + 1
          BY <5>2, <5>4, FS_AddElement
        <5>6. used'[v].wakes = used[v].wakes + 1
          BY <3>1, <4>1
        <5>7. used[v].wakes = Cardinality(Outboxed(v))
          BY <2>1 DEF AllowanceIsConserved, Conserved
        <5> QED BY <5>2, <5>5, <5>6, <5>7
      <4>2. CASE ~Rings(k)
        <5>1. Outboxed(v)' = Outboxed(v)
          BY <2>1, <4>2 DEF Outboxed
        <5>2. used'[v].wakes = used[v].wakes
          BY <2>1, <3>1, <4>2 DEF Fields
        <5> QED BY <2>1, <5>1, <5>2 DEF AllowanceIsConserved, Conserved
      <4> QED BY <4>1, <4>2
    <3>4. status'[v] # "rebaselined"
      BY <3>1 DEF StatusAfter
    <3>5. finding[k] \in {"quiet", "cooling", "wake"} => used'[v].bytes =< limit'[v].bytes
      BY <2>1, <2>5, <3>1 DEF ReadHolds, ReadHeld
    <3>6. status'[v] \in {"active", "triggered"} => finding[k] \in {"none", "quiet", "cooling", "wake"}
      BY <3>1 DEF StatusAfter, Findings
    <3>7. finding[k] # "none"
      BY <2>1, <2>5 DEF ReadHolds, ReadHeld
    <3>8. /\ used[v].polls \in Nat /\ used[v].wakes \in Nat /\ limit[v].polls \in Nat
          /\ limit[v].wakes \in Nat /\ used'[v].bytes \in Nat /\ limit[v].bytes \in Nat
      BY <2>1, <3>1 DEF Fields
    <3>9. used'[v].polls =< limit'[v].polls /\ used'[v].wakes =< limit'[v].wakes
      BY <3>1, <3>2, <3>8
    <3>10. used'[v].bytes > limit'[v].bytes => status'[v] \notin {"active", "triggered", "rebaselined"}
      BY <3>1, <3>4, <3>5, <3>6, <3>7, <3>8
    <3> QED BY <2>5, <3>3, <3>4, <3>9, <3>10 DEF Conserved
  <2> QED BY <2>4, <2>5
<1>13. ASSUME NEW k \in Pollers, Abandon(k)
      PROVE  AllowanceIsConserved'
  <2> SUFFICES ASSUME NEW v \in Watches PROVE Conserved(v)'
    BY DEF AllowanceIsConserved
  <2>1. UNCHANGED <<status, used, limit, outbox>>
    BY <1>13 DEF Abandon
  <2> QED BY <2>1, ConservedFrame DEF AllowanceIsConserved, Outboxed
<1>14. CASE Still
  BY <1>14, ConservedFrame DEF Still, AllowanceIsConserved, Outboxed
<1> QED
  BY <1>1, <1>2, <1>3, <1>4, <1>5, <1>6, <1>7, <1>8, <1>9, <1>10, <1>11, <1>12, <1>13, <1>14
  DEF WatchStep, WatchNext, Poll, Tend

(***************************************************************************)
(* A poll writes one wake at the most.                                     *)
(***************************************************************************)
LEMMA FiniteOutboxStep ==
  ASSUME IsFiniteSet(outbox), WatchStep
  PROVE  IsFiniteSet(outbox')
<1> USE DEF rows, clocks, mail, polling
<1>1. CASE UNCHANGED outbox
  BY <1>1
<1>2. CASE \E k \in Pollers : WritePoll(k)
  <2>1. PICK k \in Pollers : outbox' = outbox \cup IF Rings(k) THEN {Wake(k)} ELSE {}
    BY <1>2 DEF WritePoll
  <2>2. IsFiniteSet(outbox \cup {Wake(k)})
    BY FS_AddElement
  <2> QED BY <2>1, <2>2
<1>3. UNCHANGED outbox \/ \E k \in Pollers : WritePoll(k)
  BY DEF WatchStep, WatchNext, Poll, Tend, CreateWatch, Rebaseline, CancelWatch, EndAtClaim, Lapse,
     Cool, Pass, Claim, CollectionFails, Collect, Read, Abandon, Still
<1> QED BY <1>1, <1>2, <1>3

(***************************************************************************)
(* The invariant of the watches, whoever creates them.                     *)
(***************************************************************************)
LEMMA WatchInitHolds == WatchInit => WatchInv
<1> SUFFICES ASSUME WatchInit PROVE WatchInv
  OBVIOUS
<1> USE AttentionWatchAssumption DEF WatchInit
<1>1. Zero \in [Fields -> Nat] /\ Anyone \in Watches
  BY AnyoneIsWatch DEF Zero
<1>2. WatchTypeOK
  BY <1>1 DEF WatchTypeOK, Findings
<1>3. IsFiniteSet(outbox)
  BY FS_EmptySet
<1>4. Resting /\ Retired /\ Charged
  BY DEF Resting, Retired, Charged
<1>5. Lineage
  BY DEF Lineage, Outboxed
<1>6. ReadHolds
  BY DEF ReadHolds, ReadHeld
<1>7. AnnouncedOnce
  BY DEF AnnouncedOnce, Announced, Outboxed
<1>8. AllowanceIsConserved
  <2>1. Cardinality({}) = 0
    BY FS_EmptySet
  <2>2. ASSUME NEW w \in Watches
        PROVE  Conserved(w)
    <3>1. Outboxed(w) = {}
      BY DEF Outboxed
    <3>2. used[w] = Zero /\ limit[w] = Zero /\ status[w] = "none"
      OBVIOUS
    <3>3. Zero.polls = 0 /\ Zero.bytes = 0 /\ Zero.wakes = 0
      BY DEF Zero, Fields
    <3> HIDE DEF WatchInit
    <3> QED BY <2>1, <3>1, <3>2, <3>3 DEF Conserved
  <2> QED BY <2>2 DEF AllowanceIsConserved
<1> QED BY <1>2, <1>3, <1>4, <1>5, <1>6, <1>7, <1>8 DEF WatchInv

LEMMA WatchInvStep ==
  ASSUME WatchInv, WatchStep
  PROVE  WatchInv'
BY WatchTypeStep, FiniteOutboxStep, RestingStep, LineageStep, RetiredStep, ChargedStep,
   ReadHoldsStep, AnnouncedStep, AllowanceStep DEF WatchInv

=============================================================================
