-------------------------- MODULE TriageRunProofs --------------------------
(***************************************************************************)
(* Proofs about TriageRun for any number of turns, attempts, crashes and   *)
(* delays: its types, that no request is repeated blindly, that two runs   *)
(* share their turns, that a completed run is charged exactly, that one    *)
(* run at most completes, and that the member implements its job.          *)
(*                                                                         *)
(* IInv is the inductive invariant.  What it says of a journal is one      *)
(* predicate, Journal, over the events of a run, the turns the boundary    *)
(* admitted, the replies it keeps and the turns spent before; the rest     *)
(* ties the records and the position of the call to the journal.           *)
(***************************************************************************)
EXTENDS TriageRun, FiniteSetTheorems, TLAPS

(* The positions of a call that asks a model. *)
Agents  == {"original", "replacement"}
Before  == {"admitting", "preparing", "invoking"}
Asking  == {"requesting", "attempted", "retrying"}
InTurn  == Before \cup Asking \cup {"replied", "faulted", "late"}
Running == InTurn \cup {"judging", "validating", "ending"}
Done    == {"returned", "accepting"}

(* Counts of a journal, and the dispatches of the turn under way. *)
Answers(s) == Count(s, {"answered"})
Sent(s)    == Count(s, {"dispatched"})
Doubts(s)  == Count(s, Ambiguous)
Fresh(s)   == {i \in DOMAIN s : s[i] = "dispatched" /\ SameTurn(s, i, Len(s))}

\* NoBlindRepeat, of one journal.
NoBlind(s) ==
  \A i, k \in DOMAIN s :
    /\ i < k /\ s[i] = "dispatched" /\ s[k] = "dispatched"
    /\ SameTurn(s, i, k)
    => /\ s[i + 1] \in {"safe", "regenerable"}
       /\ s[i + 1] = "regenerable" =>
            \A n \in 1..i : s[n] = "regenerable" => ~SameTurn(s, n, i)

\* No reply p to a turn before n can be used.
Fruitless(p, n) == \A m \in Turns : m < n => p[m] \notin Valid

(***************************************************************************)
(* A journal s that starts after b turns of another run, the turns o that  *)
(* were admitted and the replies p.  Only the turn after the last answer   *)
(* may be admitted ahead of it, and it is when something was dispatched;   *)
(* no turn before it gave an output; an event without a dispatch it can    *)
(* name is the last one; and what was sent is bounded by the answers, with *)
(* at most MaxAttempts for each turn.                                      *)
(***************************************************************************)
Journal(s, o, p, b) ==
  /\ \A n \in Turns : p[n] # "none" => n \in o
  /\ \A n \in o : b < n /\ n =< b + Answers(s) + 1
  /\ b + Answers(s) =< MaxTurns
  /\ Fruitless(p, b + Answers(s))
  /\ Fresh(s) # {} => b + Answers(s) + 1 \in o /\ Fruitless(p, b + Answers(s) + 1)
  /\ \A n \in Turns : n = b + Answers(s) + 1 /\ p[n] # "none" => Last(s) # "safe"
  /\ Doubts(s) > 0 => Last(s) \in Ambiguous
  /\ Sent(s) = 0 => Doubts(s) =< 1
  /\ Cardinality(Fresh(s)) =< MaxAttempts
  /\ Sent(s) =< MaxAttempts * Answers(s) + Cardinality(Fresh(s))
  /\ NoBlind(s)

JournalInv == \A r \in Agents : Journal(log[r], opened[r], reply[r], Prior(r))

\* The journal of a repair is its one event, if that.
RepairInv == log["repair"] \in {<<>>, <<"repaired">>}

\* The ends of a run, with the journal s, whose charge others rely on.
Exact(s, how) ==
  \/ how = "completed"
  \/ how = "human" /\ Last(s) \in {"ambiguous", "interrupted"}

\* What the records say of the journals and of each other.
RecordInv ==
  /\ \A r \in Runs :
       /\ status[r] = "none" =>
            log[r] = <<>> /\ opened[r] = {} /\ reply[r] = [n \in Turns |-> "none"]
       /\ ~Ended(r) => usage[r] = {}
       /\ r # "original" /\ status[r] # "none" => substitute = r
  /\ \A r \in Agents :
       /\ status[r] \in {"failed", "human"} => ~HasOutput(r)
       /\ status[r] = "human" => log[r] # <<>>
       /\ Exact(log[r], status[r]) => sealed[r] = Attempts(r) /\ usage[r] \subseteq {Attempts(r)}
  /\ substitute # "none" => usage["original"] # {}
  /\ substitute = "repair" => status["original"] = "failed"
  /\ substitute = "replacement" => status["original"] = "human" /\ ChargedAsJournaled

\* Which record the call works on, by its position.
Position ==
  /\ run = "original" \/ substitute = run
  /\ pc \in Running => status[run] = "running"
  /\ pc \in Done => Ended(run) /\ verdict = status[run]
  /\ pc \in InTurn \cup {"judging", "validating", "accepting"} => run \in Agents
  /\ pc = "ending" => verdict \in Endings
  /\ pc = "ending" /\ run = "repair" => verdict = "completed"
  /\ pc \in {"validating", "accepting"} => verdict = "completed"

\* Within a turn: what the call has counted, spent and asked, is what its journal holds;
\* a pending reply owes the dispatches that are not counted yet.
TurnInv ==
  LET s == log[run] o == opened[run] p == reply[run] now == Prior(run) + Answers(s) IN
  /\ pc = "claimed" => spent = 0
  /\ pc \in InTurn => turn = now + 1 /\ Fruitless(p, turn) /\ Doubts(s) = 0 /\ spent =< Sent(s)
  /\ pc \in InTurn \ {"admitting", "preparing"} => turn \in Turns
  /\ pc = "judging" =>
       /\ turn = now /\ turn \in Turns /\ Last(s) = "answered" /\ Doubts(s) = 0
       /\ spent = Sent(s) /\ s # <<>>
       /\ \A n \in o : n =< turn
  /\ pc \in {"admitting", "preparing"} =>
       /\ turn \notin o => spent = Sent(s)
       /\ Pending => spent = Projected(run) /\ Sent(s) =< spent + MaxAttempts
  /\ pc = "invoking" =>
       /\ ~Pending => asked = 0
       /\ Pending \/ turn \notin o => spent + asked = Sent(s)
  /\ pc \in Asking \cup {"faulted", "replied"} => spent + asked = Sent(s)
  /\ pc \in Asking \cup {"faulted"} => turn \in o /\ p[turn] = "none"
  /\ pc = "replied" => p[turn] # "none"
  /\ pc = "requesting" => asked = 0
  /\ pc \in Asking => asked = Cardinality(Fresh(s))
  /\ pc \in {"attempted", "retrying", "faulted"} => asked > 0
  /\ pc = "late" /\ asked > 0 => spent + asked = Sent(s)
  /\ pc = "attempted" => s # <<>> /\ Last(s) = "dispatched"
  /\ pc = "retrying" =>
       /\ Len(s) > 1 /\ s[Len(s) - 1] = "dispatched"
       /\ Last(s) \in {"safe", "regenerable"}
       /\ Last(s) = "regenerable" =>
            \A n \in 1..Len(s) - 1 : s[n] = "regenerable" => ~SameTurn(s, n, Len(s) - 1)

\* At the end of a run: the charge it is about to seal, or has sealed.
EndInv ==
  /\ pc = "validating" => spent = Attempts(run) /\ Doubts(log[run]) = 0
  /\ pc = "ending" /\ run \in Agents =>
       /\ Exact(log[run], verdict) => spent = Attempts(run)
       /\ verdict = "human" => log[run] # <<>>
       /\ verdict \in {"failed", "human"} => ~HasOutput(run)
  /\ pc \in Done /\ run \in Agents /\ Exact(log[run], status[run]) => spent = Attempts(run)

IInv ==
  TypeOK /\ JournalInv /\ RecordInv /\ Position /\ TurnInv /\ EndInv /\ RepairInv

-----------------------------------------------------------------------------
(* Journals. *)

\* What a journal is after one more event.
LEMMA AppendSeq ==
  ASSUME NEW s \in Seq(Events), NEW e \in Events
  PROVE  /\ Len(s) \in Nat /\ DOMAIN s = 1..Len(s)
         /\ \A i \in 1..Len(s) : s[i] \in Events
         /\ Append(s, e) \in Seq(Events) /\ Append(s, e) # <<>>
         /\ Len(Append(s, e)) = Len(s) + 1
         /\ DOMAIN Append(s, e) = 1..Len(s) + 1
         /\ \A i \in 1..Len(s) : Append(s, e)[i] = s[i]
         /\ Append(s, e)[Len(s) + 1] = e
         /\ Last(Append(s, e)) = e
  BY SMT DEF Last

\* A count is a number, and is zero only of what never happens.
LEMMA CountType ==
  ASSUME NEW s \in Seq(Events), NEW K
  PROVE  /\ IsFiniteSet({i \in DOMAIN s : s[i] \in K})
         /\ Count(s, K) \in Nat
         /\ Count(s, K) = 0 <=> \A i \in DOMAIN s : s[i] \notin K
<1> DEFINE I == {i \in DOMAIN s : s[i] \in K}
<1>1. DOMAIN s = 1..Len(s) /\ Len(s) \in Nat
  BY SMT
<1>2. IsFiniteSet(1..Len(s))
  BY <1>1, FS_Interval, SMT
<1>3. IsFiniteSet(I)
  BY <1>1, <1>2, FS_Subset
<1>4. Cardinality(I) \in Nat /\ (Cardinality(I) = 0 <=> I = {})
  BY <1>3, FS_CardinalityType, FS_EmptySet
<1> QED
  BY <1>3, <1>4 DEF Count

\* One more event counts once, for the kinds it is of.
LEMMA CountAppend ==
  ASSUME NEW s \in Seq(Events), NEW e \in Events, NEW K
  PROVE  /\ Count(s, K) \in Nat
         /\ e \in K => Count(Append(s, e), K) = Count(s, K) + 1
         /\ e \notin K => Count(Append(s, e), K) = Count(s, K)
<1> DEFINE I == {i \in DOMAIN s : s[i] \in K}
           J == {i \in DOMAIN Append(s, e) : Append(s, e)[i] \in K}
<1>1. IsFiniteSet(I) /\ Count(s, K) \in Nat
  BY CountType
<1>2. e \in K => J = I \cup {Len(s) + 1}
  BY AppendSeq, SMT
<1>3. e \notin K => J = I
  BY AppendSeq, SMT
<1>4. Len(s) + 1 \notin I
  BY AppendSeq, SMT
<1>5. Cardinality(I \cup {Len(s) + 1}) = Cardinality(I) + 1
  BY <1>1, <1>4, FS_AddElement
<1> QED
  BY <1>1, <1>2, <1>3, <1>5 DEF Count

\* The dispatches of the turn under way: an answer closes the turn, a dispatch adds itself.
LEMMA FreshAppend ==
  ASSUME NEW s \in Seq(Events), NEW e \in Events
  PROVE  /\ IsFiniteSet(Fresh(s)) /\ Cardinality(Fresh(s)) \in Nat
         /\ Cardinality(Fresh(s)) = 0 <=> Fresh(s) = {}
         /\ e = "answered" => Fresh(Append(s, e)) = {} /\ Cardinality(Fresh(Append(s, e))) = 0
         /\ e = "dispatched" => /\ Fresh(Append(s, e)) # {}
                                /\ Cardinality(Fresh(Append(s, e))) = Cardinality(Fresh(s)) + 1
         /\ e \notin {"answered", "dispatched"} => Fresh(Append(s, e)) = Fresh(s)
<1>0. DOMAIN s = 1..Len(s) /\ Len(s) \in Nat
  BY AppendSeq
<1>1. IsFiniteSet(1..Len(s))
  BY <1>0, FS_Interval, SMT
<1>2. IsFiniteSet(Fresh(s))
  BY <1>0, <1>1, FS_Subset DEF Fresh
<1>3. Cardinality(Fresh(s)) \in Nat /\ (Cardinality(Fresh(s)) = 0 <=> Fresh(s) = {})
  BY <1>2, FS_CardinalityType, FS_EmptySet
<1>4. e = "answered" => Fresh(Append(s, e)) = {}
  BY AppendSeq, SMT DEF Fresh, SameTurn
<1>5. e = "dispatched" => Fresh(Append(s, e)) = Fresh(s) \cup {Len(s) + 1}
  BY AppendSeq, SMTT(30) DEF Fresh, SameTurn
<1>6. e \notin {"answered", "dispatched"} => Fresh(Append(s, e)) = Fresh(s)
  BY AppendSeq, SMTT(30) DEF Fresh, SameTurn
<1>7. Len(s) + 1 \notin Fresh(s)
  BY <1>0, SMT DEF Fresh
<1>8. Cardinality(Fresh(s) \cup {Len(s) + 1}) = Cardinality(Fresh(s)) + 1
  BY <1>2, <1>7, FS_AddElement
<1>9. Cardinality({}) = 0
  BY FS_EmptySet
<1> QED
  BY <1>2, <1>3, <1>4, <1>5, <1>6, <1>8, <1>9

\* An event that sends nothing repeats nothing.
LEMMA NoBlindQuiet ==
  ASSUME NEW s \in Seq(Events), NEW e \in Events \ {"dispatched"}, NoBlind(s)
  PROVE  NoBlind(Append(s, e))
<1> DEFINE t == Append(s, e)
<1>0. /\ Len(s) \in Nat /\ DOMAIN s = 1..Len(s) /\ DOMAIN t = 1..Len(s) + 1
      /\ \A i \in 1..Len(s) : t[i] = s[i]
      /\ t[Len(s) + 1] = e
  BY AppendSeq
<1> HIDE DEF t
<1>1. SUFFICES ASSUME NEW i \in DOMAIN t, NEW k \in DOMAIN t, i < k,
                      t[i] = "dispatched", t[k] = "dispatched", SameTurn(t, i, k)
               PROVE  /\ t[i + 1] \in {"safe", "regenerable"}
                      /\ t[i + 1] = "regenerable" =>
                           \A n \in 1..i : t[n] = "regenerable" => ~SameTurn(t, n, i)
  BY Zenon DEF NoBlind, t
<1>2. k \in 1..Len(s) /\ i \in 1..Len(s) /\ i + 1 \in 1..Len(s)
  BY <1>0, <1>1, SMT
<1>3. \A m, n \in 1..Len(s) : SameTurn(t, m, n) <=> SameTurn(s, m, n)
  BY <1>0, SMT DEF SameTurn
<1>4. /\ s[i + 1] \in {"safe", "regenerable"}
      /\ s[i + 1] = "regenerable" =>
           \A n \in 1..i : s[n] = "regenerable" => ~SameTurn(s, n, i)
  BY <1>0, <1>1, <1>2, <1>3, SMT DEF NoBlind
<1>5. \A n \in 1..i : n \in 1..Len(s)
  BY <1>0, <1>2, SMT
<1> QED
  BY <1>0, <1>2, <1>3, <1>4, <1>5

\* What lets a request be sent again.
Refused(s) ==
  /\ Len(s) > 1 /\ s[Len(s) - 1] = "dispatched"
  /\ Last(s) \in {"safe", "regenerable"}
  /\ Last(s) = "regenerable" =>
       \A n \in 1..Len(s) - 1 : s[n] = "regenerable" => ~SameTurn(s, n, Len(s) - 1)

\* A dispatch repeats nothing when it is the first of its turn, or the attempt before it was
\* refused in a way that allows another (AttemptRetried).
LEMMA NoBlindDispatch ==
  ASSUME NEW s \in Seq(Events), NoBlind(s), Fresh(s) = {} \/ Refused(s)
  PROVE  NoBlind(Append(s, "dispatched"))
<1> DEFINE t == Append(s, "dispatched")
<1>0. /\ Len(s) \in Nat /\ DOMAIN s = 1..Len(s) /\ DOMAIN t = 1..Len(s) + 1
      /\ \A i \in 1..Len(s) : t[i] = s[i]
      /\ t[Len(s) + 1] = "dispatched"
  BY AppendSeq DEF Events
<1> HIDE DEF t
<1>1. SUFFICES ASSUME NEW i \in DOMAIN t, NEW k \in DOMAIN t, i < k,
                      t[i] = "dispatched", t[k] = "dispatched", SameTurn(t, i, k)
               PROVE  /\ t[i + 1] \in {"safe", "regenerable"}
                      /\ t[i + 1] = "regenerable" =>
                           \A n \in 1..i : t[n] = "regenerable" => ~SameTurn(t, n, i)
  BY Zenon DEF NoBlind, t
<1>2. i \in 1..Len(s)
  BY <1>0, <1>1, SMT
<1>3. \A m, n \in 1..Len(s) : SameTurn(t, m, n) <=> SameTurn(s, m, n)
  BY <1>0, SMT DEF SameTurn
<1>4. \A n \in 1..i : n \in 1..Len(s)
  BY <1>0, <1>2, SMT
<1>5. CASE k \in 1..Len(s)
  <2>1. i + 1 \in 1..Len(s)
    BY <1>0, <1>1, <1>5, SMT
  <2>2. /\ s[i + 1] \in {"safe", "regenerable"}
        /\ s[i + 1] = "regenerable" =>
             \A n \in 1..i : s[n] = "regenerable" => ~SameTurn(s, n, i)
    BY <1>0, <1>1, <1>2, <1>3, <1>5, SMT DEF NoBlind
  <2> QED
    BY <1>0, <1>2, <1>3, <1>4, <2>1, <2>2
<1>6. CASE k = Len(s) + 1
  <2>1. i \in Fresh(s)
    BY <1>0, <1>1, <1>2, <1>6, SMT DEF Fresh, SameTurn
  <2>2. Refused(s)
    BY <2>1
  <2>3. i =< Len(s) - 1
    BY <1>0, <1>1, <1>2, <2>2, SMT DEF Refused, Last
  <2>4. CASE i = Len(s) - 1
    <3>1. i + 1 = Len(s) /\ i + 1 \in 1..Len(s)
      BY <1>0, <1>2, <2>4, SMT
    <3>2. t[i + 1] = Last(s)
      BY <1>0, <3>1 DEF Last
    <3>3. \A n \in 1..i : t[n] = "regenerable" /\ t[i + 1] = "regenerable" => ~SameTurn(s, n, i)
      BY <1>0, <1>4, <2>2, <2>4, <3>2, Zenon DEF Refused
    <3> QED
      BY <1>2, <1>3, <1>4, <2>2, <3>2, <3>3 DEF Refused
  <2>5. CASE i < Len(s) - 1
    <3>1. Len(s) - 1 \in 1..Len(s) /\ i + 1 \in 1..Len(s)
      BY <1>0, <1>2, <2>5, SMT
    <3>2. SameTurn(s, i, Len(s) - 1)
      BY <1>0, <1>2, <2>1, SMT DEF Fresh, SameTurn
    <3>3. s[i] = "dispatched" /\ s[Len(s) - 1] = "dispatched"
      BY <1>0, <1>1, <1>2, <2>2 DEF Refused
    <3>4. /\ s[i + 1] \in {"safe", "regenerable"}
          /\ s[i + 1] = "regenerable" =>
               \A n \in 1..i : s[n] = "regenerable" => ~SameTurn(s, n, i)
      BY <1>0, <1>2, <2>5, <3>1, <3>2, <3>3 DEF NoBlind
    <3> QED
      BY <1>0, <1>2, <1>3, <1>4, <3>1, <3>4
  <2> QED
    BY <1>0, <1>2, <2>3, <2>4, <2>5, SMT
<1> QED
  BY <1>0, <1>5, <1>6, SMT

\* How the three counts move.
LEMMA AppendCounts ==
  ASSUME NEW s \in Seq(Events), NEW e \in Events
  PROVE  /\ Answers(s) \in Nat /\ Sent(s) \in Nat /\ Doubts(s) \in Nat
         /\ Answers(Append(s, e)) = IF e = "answered" THEN Answers(s) + 1 ELSE Answers(s)
         /\ Sent(Append(s, e)) = IF e = "dispatched" THEN Sent(s) + 1 ELSE Sent(s)
         /\ Doubts(Append(s, e)) = IF e \in Ambiguous THEN Doubts(s) + 1 ELSE Doubts(s)
  BY CountAppend DEF Answers, Sent, Doubts

\* An event that neither sends nor answers keeps what holds of a journal: of an ambiguous
\* one, the journal holds a dispatch; a refusal leaves no reply pending.
LEMMA JournalQuiet ==
  ASSUME NEW s \in Seq(Events), NEW o \in SUBSET Turns,
         NEW p \in [Turns -> Contents \cup {"none"}], NEW b \in Nat,
         NEW e \in Events \ {"dispatched", "answered"},
         Journal(s, o, p, b),
         \A n \in Turns : e = "safe" /\ n = b + Answers(s) + 1 => p[n] = "none",
         Doubts(s) > 0 => e \in Ambiguous /\ Sent(s) > 0
  PROVE  Journal(Append(s, e), o, p, b)
<1> DEFINE t == Append(s, e)
<1>1. /\ Answers(s) \in Nat /\ Sent(s) \in Nat /\ Doubts(s) \in Nat
      /\ Answers(t) = Answers(s) /\ Sent(t) = Sent(s)
      /\ Doubts(t) = IF e \in Ambiguous THEN Doubts(s) + 1 ELSE Doubts(s)
  BY AppendCounts
<1>2. Fresh(t) = Fresh(s)
  BY FreshAppend
<1>3. Last(t) = e
  BY AppendSeq
<1>4. NoBlind(t)
  BY NoBlindQuiet DEF Journal
<1> HIDE DEF t
<1>5. Doubts(t) > 0 => Last(t) \in Ambiguous
  BY <1>1, <1>3, SMT
<1>6. Sent(t) = 0 => Doubts(t) =< 1
  BY <1>1, SMT DEF Journal
<1>7. \A n \in Turns : n = b + Answers(t) + 1 /\ p[n] # "none" => Last(t) # "safe"
  BY <1>1, <1>3
<1>8. Journal(t, o, p, b)
  BY <1>1, <1>2, <1>4, <1>5, <1>6, <1>7 DEF Journal
<1> QED
  BY <1>8 DEF t

\* A dispatch keeps it, within the attempts of its turn (Dispatch).
LEMMA JournalDispatch ==
  ASSUME NEW s \in Seq(Events), NEW o \in SUBSET Turns,
         NEW p \in [Turns -> Contents \cup {"none"}], NEW b \in Nat,
         Journal(s, o, p, b), Doubts(s) = 0,
         b + Answers(s) + 1 \in o, Fruitless(p, b + Answers(s) + 1),
         Cardinality(Fresh(s)) < MaxAttempts,
         Fresh(s) = {} \/ Refused(s)
  PROVE  Journal(Append(s, "dispatched"), o, p, b)
<1> DEFINE t == Append(s, "dispatched")
<1>0. "dispatched" \in Events /\ "dispatched" \notin Ambiguous
  BY DEF Events, Ambiguous
<1>1. /\ Answers(s) \in Nat /\ Sent(s) \in Nat /\ Doubts(s) \in Nat
      /\ Answers(t) = Answers(s) /\ Sent(t) = Sent(s) + 1 /\ Doubts(t) = Doubts(s)
  BY <1>0, AppendCounts
<1>2. /\ Cardinality(Fresh(s)) \in Nat
      /\ Cardinality(Fresh(t)) = Cardinality(Fresh(s)) + 1
  BY <1>0, FreshAppend
<1>3. Last(t) = "dispatched"
  BY <1>0, AppendSeq
<1>4. NoBlind(t)
  BY NoBlindDispatch DEF Journal
<1> HIDE DEF t
<1>5. Cardinality(Fresh(t)) =< MaxAttempts
  BY <1>2, TriageRunAssumption, SMT
<1>6. MaxAttempts * Answers(s) \in Nat
  BY <1>1, TriageRunAssumption, SMT
<1>7. Sent(t) =< MaxAttempts * Answers(t) + Cardinality(Fresh(t))
  <2> DEFINE m == MaxAttempts * Answers(s)
  <2>1. m \in Nat /\ Sent(s) =< m + Cardinality(Fresh(s)) /\ MaxAttempts * Answers(t) = m
    BY <1>1, <1>6 DEF Journal
  <2> HIDE DEF m
  <2> QED
    BY <1>1, <1>2, <2>1, SMT
<1>8. Journal(t, o, p, b)
  BY <1>1, <1>3, <1>4, <1>5, <1>7 DEF Journal
<1> QED
  BY <1>8 DEF t

\* An answer keeps it: the turn is over and its successor is not admitted (ProjectAnswer).
LEMMA JournalAnswer ==
  ASSUME NEW s \in Seq(Events), NEW o \in SUBSET Turns,
         NEW p \in [Turns -> Contents \cup {"none"}], NEW b \in Nat,
         Journal(s, o, p, b), Doubts(s) = 0,
         b + Answers(s) + 1 \in Turns, Fruitless(p, b + Answers(s) + 1)
  PROVE  Journal(Append(s, "answered"), o, p, b)
<1> DEFINE t == Append(s, "answered")
<1>0. "answered" \in Events /\ "answered" \notin Ambiguous
  BY DEF Events, Ambiguous
<1>1. /\ Answers(s) \in Nat /\ Sent(s) \in Nat /\ Doubts(s) \in Nat
      /\ Answers(t) = Answers(s) + 1 /\ Sent(t) = Sent(s) /\ Doubts(t) = Doubts(s)
  BY <1>0, AppendCounts
<1>2. /\ Cardinality(Fresh(s)) \in Nat /\ Fresh(t) = {} /\ Cardinality(Fresh(t)) = 0
  BY <1>0, FreshAppend
<1>3. Last(t) = "answered"
  BY <1>0, AppendSeq
<1>4. NoBlind(t)
  BY <1>0, NoBlindQuiet DEF Journal
<1> HIDE DEF t
<1>5. \A n \in o : b < n /\ n =< b + Answers(t) + 1
  <2> TAKE n \in o
  <2>1. n \in Nat /\ b < n /\ n =< b + Answers(s) + 1
    BY TriageRunAssumption DEF Journal, Turns
  <2> QED
    BY <1>1, <2>1, SMT
<1>6. b + Answers(t) =< MaxTurns
  BY <1>1, TriageRunAssumption, SMT DEF Turns
<1>7. Fruitless(p, b + Answers(t))
  <2>1. b + Answers(t) = b + Answers(s) + 1
    BY <1>1, SMT
  <2> QED
    BY <2>1
<1>8. Sent(t) =< MaxAttempts * Answers(t) + Cardinality(Fresh(t))
  <2> DEFINE m == MaxAttempts * Answers(s)
  <2>1. m \in Nat
    BY <1>1, TriageRunAssumption, SMT
  <2>2. MaxAttempts * Answers(t) = m + MaxAttempts
    BY <1>1, TriageRunAssumption, SMT
  <2>3. Sent(s) =< m + Cardinality(Fresh(s)) /\ Cardinality(Fresh(s)) =< MaxAttempts
    BY DEF Journal
  <2> HIDE DEF m
  <2> QED
    BY <1>1, <1>2, <2>1, <2>2, <2>3, TriageRunAssumption, SMT
<1>9. Cardinality(Fresh(t)) =< MaxAttempts
  BY <1>2, TriageRunAssumption, SMT
<1>10. Journal(t, o, p, b)
  BY <1>1, <1>2, <1>3, <1>4, <1>5, <1>6, <1>7, <1>8, <1>9 DEF Journal
<1> QED
  BY <1>10 DEF t

\* A request that is admitted, and a reply that arrives.
LEMMA JournalOpen ==
  ASSUME NEW s \in Seq(Events), NEW o \in SUBSET Turns,
         NEW p \in [Turns -> Contents \cup {"none"}], NEW b \in Nat, NEW n \in Turns,
         Journal(s, o, p, b), n = b + Answers(s) + 1
  PROVE  Journal(s, o \cup {n}, p, b)
<1>1. Answers(s) \in Nat
  BY CountType DEF Answers
<1>2. \A m \in o \cup {n} : b < m /\ m =< b + Answers(s) + 1
  BY <1>1, SMT DEF Journal
<1> QED
  BY <1>2 DEF Journal

\* The reply to the turn under way keeps it (ReceiveReply).
LEMMA JournalReply ==
  ASSUME NEW s \in Seq(Events), NEW o \in SUBSET Turns,
         NEW p \in [Turns -> Contents \cup {"none"}], NEW b \in Nat, NEW n \in Turns,
         NEW c \in Contents,
         Journal(s, o, p, b), n = b + Answers(s) + 1, n \in o, Last(s) # "safe"
  PROVE  Journal(s, o, [p EXCEPT ![n] = c], b)
<1> DEFINE q == [p EXCEPT ![n] = c]
<1>1. q[n] = c /\ \A m \in Turns \ {n} : q[m] = p[m]
  OBVIOUS
<1>2. Answers(s) \in Nat
  BY CountType DEF Answers
<1> HIDE DEF q
<1>3. \A m \in Turns : q[m] # "none" => m \in o
  BY <1>1 DEF Journal
<1>4. Fruitless(p, b + Answers(s)) => Fruitless(q, b + Answers(s))
  BY <1>1, <1>2, SMT DEF Fruitless, Turns
<1>5. Fruitless(p, b + Answers(s) + 1) => Fruitless(q, b + Answers(s) + 1)
  BY <1>1, <1>2, SMT DEF Fruitless, Turns
<1>6. Journal(s, o, q, b)
  BY <1>3, <1>4, <1>5 DEF Journal
<1> QED
  BY <1>6 DEF q

\* The attempts of a journal, however many lives they took.
LEMMA SentBound ==
  ASSUME NEW s \in Seq(Events), NEW o \in SUBSET Turns, NEW p, NEW b \in Nat,
         Journal(s, o, p, b)
  PROVE  Sent(s) =< MaxTurns * MaxAttempts
<1>1. Answers(s) \in Nat /\ Sent(s) \in Nat
  BY CountType DEF Answers, Sent
<1>2. Cardinality(Fresh(s)) \in Nat /\ (Fresh(s) = {} => Cardinality(Fresh(s)) = 0)
  BY FreshAppend DEF Events
<1>3. /\ Sent(s) =< MaxAttempts * Answers(s) + Cardinality(Fresh(s))
      /\ Cardinality(Fresh(s)) =< MaxAttempts
      /\ b + Answers(s) =< MaxTurns
  BY DEF Journal
<1>4. ASSUME NEW x \in Nat, NEW y \in Nat, x =< y
      PROVE  MaxAttempts * x =< MaxAttempts * y
  <2>1. PICK z \in Nat : y = x + z
    <3>1. y - x \in Nat /\ y = x + (y - x)
      BY <1>4, SMT
    <3> QED
      BY <3>1
  <2>2. MaxAttempts * y = MaxAttempts * x + MaxAttempts * z
    BY <2>1, TriageRunAssumption, SMT
  <2>3. MaxAttempts * z \in Nat /\ MaxAttempts * x \in Nat
    BY TriageRunAssumption, SMT
  <2> QED
    BY <2>2, <2>3, SMT
<1>5. MaxAttempts * MaxTurns = MaxTurns * MaxAttempts
  BY TriageRunAssumption, SMT
<1>6. CASE Fresh(s) = {}
  <2>1. Answers(s) =< MaxTurns
    BY <1>1, <1>3, TriageRunAssumption, SMT
  <2>2. MaxAttempts * Answers(s) =< MaxAttempts * MaxTurns
    BY <1>1, <1>4, <2>1, TriageRunAssumption
  <2>3. MaxAttempts * Answers(s) \in Nat /\ MaxAttempts * MaxTurns \in Nat
    BY <1>1, TriageRunAssumption, SMT
  <2> QED
    BY <1>1, <1>2, <1>3, <1>5, <1>6, <2>2, <2>3, SMT
<1>7. CASE Fresh(s) # {}
  <2>1. b + Answers(s) + 1 \in Turns
    BY <1>7 DEF Journal
  <2>2. Answers(s) + 1 =< MaxTurns /\ Answers(s) + 1 \in Nat
    BY <1>1, <2>1, TriageRunAssumption, SMT DEF Turns
  <2>3. MaxAttempts * (Answers(s) + 1) =< MaxAttempts * MaxTurns
    BY <1>4, <2>2, TriageRunAssumption
  <2>4. MaxAttempts * (Answers(s) + 1) = MaxAttempts * Answers(s) + MaxAttempts
    BY <1>1, TriageRunAssumption, SMT
  <2>5. MaxAttempts * Answers(s) \in Nat /\ MaxAttempts * MaxTurns \in Nat
    BY <1>1, TriageRunAssumption, SMT
  <2> DEFINE m == MaxAttempts * Answers(s)
             u == MaxAttempts * MaxTurns
  <2>6. m \in Nat /\ u \in Nat /\ m + MaxAttempts =< u /\ Sent(s) =< m + Cardinality(Fresh(s))
    BY <1>3, <2>3, <2>4, <2>5
  <2> HIDE DEF m, u
  <2>7. Sent(s) =< u
    BY <1>1, <1>2, <1>3, <2>6, TriageRunAssumption, SMT
  <2> QED
    BY <1>5, <2>7 DEF u
<1> QED
  BY <1>6, <1>7

-----------------------------------------------------------------------------
(* Reading a journal. *)

\* The turns that the partition finds are answered ones.
LEMMA GroupsBound ==
  ASSUME log \in [Runs -> Seq(Events)], NEW r \in Runs
  PROVE  /\ Groups(r) \in Nat /\ Groups(r) =< Answers(log[r])
         /\ IsFiniteSet({i \in DOMAIN log[r] : IsTurnEnd(r, i)})
<1> DEFINE A == {i \in DOMAIN log[r] : log[r][i] \in {"answered"}}
           G == {i \in DOMAIN log[r] : IsTurnEnd(r, i)}
<1>1. IsFiniteSet(A) /\ Cardinality(A) = Answers(log[r])
  BY CountType DEF Answers, Count
<1>2. G \in SUBSET A
  BY DEF IsTurnEnd
<1>3. IsFiniteSet(G) /\ Cardinality(G) =< Cardinality(A)
  BY <1>1, <1>2, FS_Subset
<1>4. Cardinality(G) \in Nat
  BY <1>3, FS_CardinalityType
<1> QED
  BY <1>1, <1>3, <1>4 DEF Groups

\* What follows the last turn of a journal that can go on.
LEMMA TailOfOpen ==
  ASSUME log \in [Runs -> Seq(Events)], NEW r \in Runs,
         \A i \in Trailing(r) : log[r][i] # "answered"
  PROVE  /\ Groups(r) = Answers(log[r])
         /\ \A i \in Since(r) : log[r][i] = "dispatched" => i \in Fresh(log[r])
<1> DEFINE s == log[r]
           A == {i \in DOMAIN s : s[i] \in {"answered"}}
           G == {i \in DOMAIN s : IsTurnEnd(r, i)}
<1>1. DOMAIN s = 1..Len(s) /\ Len(s) \in Nat
  BY SMT
<1>2. ASSUME NEW i \in Since(r) PROVE s[i] # "answered"
  <2>1. s[i] = "answered" => i \in Trailing(r)
    BY <1>1, <1>2, SMT DEF Trailing, Since
  <2> QED
    BY <2>1
<1>3. ASSUME NEW i \in A PROVE IsTurnEnd(r, i)
  <2>1. i \in DOMAIN s /\ s[i] = "answered" /\ i \notin Since(r)
    BY <1>2
  <2>2. PICK k \in i..Len(s) : IsTurnEnd(r, k)
    BY <2>1 DEF Since
  <2>3. \A j \in 1..i : j \in 1..k
    BY <1>1, <2>1, <2>2, SMT
  <2> QED
    BY <2>1, <2>2, <2>3 DEF IsTurnEnd
<1>4. G = A
  BY <1>3 DEF IsTurnEnd
<1>5. Groups(r) = Answers(s)
  BY <1>4 DEF Groups, Answers, Count
<1>6. ASSUME NEW i \in Since(r), s[i] = "dispatched" PROVE i \in Fresh(s)
  <2>1. i \in DOMAIN s /\ \A k \in i..Len(s) : ~IsTurnEnd(r, k)
    BY <1>6 DEF Since
  <2>2. ASSUME NEW j \in i..Len(s) PROVE s[j] # "answered"
    <3>1. j \in DOMAIN s /\ \A k \in j..Len(s) : k \in i..Len(s)
      BY <1>1, <2>1, <2>2, SMT
    <3>2. j \in Since(r)
      BY <2>1, <3>1 DEF Since
    <3> QED
      BY <1>2, <3>2
  <2> QED
    BY <1>6, <2>1, <2>2 DEF Fresh, SameTurn
<1> QED
  BY <1>5, <1>6

\* The dispatches of the turns found, and those that are left for a pending reply.
LEMMA ProjectedBound ==
  ASSUME log \in [Runs -> Seq(Events)], NEW r \in Runs
  PROVE  /\ Projected(r) \in Nat /\ Projected(r) =< Sent(log[r])
         /\ (\A i \in Since(r) : log[r][i] # "dispatched") => Projected(r) = Sent(log[r])
         /\ (\A i \in Since(r) : log[r][i] = "dispatched" => i \in Fresh(log[r])) =>
              Sent(log[r]) =< Projected(r) + Cardinality(Fresh(log[r]))
<1> DEFINE s == log[r]
           D == {i \in DOMAIN s : s[i] \in {"dispatched"}}
           P == {i \in DOMAIN s : s[i] = "dispatched" /\ i \notin Since(r)}
<1>1. IsFiniteSet(D) /\ Cardinality(D) = Sent(s) /\ Sent(s) \in Nat
  BY CountType DEF Sent, Count
<1>2. P \in SUBSET D
  OBVIOUS
<1>3. IsFiniteSet(P) /\ Cardinality(P) =< Cardinality(D) /\ Cardinality(P) \in Nat
  BY <1>1, <1>2, FS_Subset, FS_CardinalityType
<1>4. Projected(r) = Cardinality(P)
  BY DEF Projected
<1>5. ASSUME \A i \in Since(r) : s[i] # "dispatched" PROVE P = D
  BY <1>5
<1>6. IsFiniteSet(Fresh(s)) /\ Cardinality(Fresh(s)) \in Nat
  BY FreshAppend DEF Events
<1>7. ASSUME \A i \in Since(r) : s[i] = "dispatched" => i \in Fresh(s)
      PROVE  Sent(s) =< Projected(r) + Cardinality(Fresh(s))
  <2>1. D \in SUBSET (P \cup Fresh(s))
    BY <1>7
  <2>2. /\ IsFiniteSet(P \cup Fresh(s)) /\ IsFiniteSet(P \cap Fresh(s))
        /\ Cardinality(P \cup Fresh(s)) =
             Cardinality(P) + Cardinality(Fresh(s)) - Cardinality(P \cap Fresh(s))
    BY <1>3, <1>6, FS_Union, FS_Intersection
  <2>3. Cardinality(P \cap Fresh(s)) \in Nat /\ Cardinality(P \cup Fresh(s)) \in Nat
    BY <2>2, FS_CardinalityType
  <2>4. Cardinality(D) =< Cardinality(P \cup Fresh(s))
    BY <2>1, <2>2, FS_Subset
  <2> QED
    BY <1>1, <1>3, <1>4, <1>6, <2>2, <2>3, <2>4, SMT
<1> QED
  BY <1>1, <1>3, <1>4, <1>5, <1>7

\* The last event of a journal, when it ends no turn, is in the tail.
LEMMA LastTrails ==
  ASSUME log \in [Runs -> Seq(Events)], NEW r \in Runs,
         log[r] # <<>>, Last(log[r]) \notin {"answered", "unprepared"}
  PROVE  Last(log[r]) \in TrailingKinds(r) /\ Trailing(r) # {}
<1> DEFINE n == Len(log[r])
<1>1. n \in Nat \ {0} /\ n \in DOMAIN log[r] /\ \A k \in n..n : k = n
  BY SMT
<1>2. n \in Since(r)
  BY <1>1 DEF Since, IsTurnEnd, Last
<1>3. n \in Trailing(r)
  BY <1>1, <1>2, SMT DEF Trailing, Last
<1> QED
  BY <1>3 DEF TrailingKinds, Last

\* A journal with an ambiguous event ends with one.
LEMMA DoubtsLast ==
  ASSUME NEW s \in Seq(Events), NEW o, NEW p, NEW b, Journal(s, o, p, b), Doubts(s) # 0
  PROVE  s # <<>> /\ Last(s) \in Ambiguous
<1>1. Doubts(s) \in Nat /\ (Doubts(s) = 0 <=> \A i \in DOMAIN s : s[i] \notin Ambiguous)
  BY CountType DEF Doubts
<1>2. s # <<>>
  BY <1>1
<1>3. Doubts(s) > 0
  BY <1>1, SMT
<1> QED
  BY <1>2, <1>3 DEF Journal

\* A journal that is read as open can go on: every answer in it is a turn, and it holds no
\* doubt (_recover_nonterminal_member).
LEMMA ReadingOpen ==
  ASSUME log \in [Runs -> Seq(Events)], NEW r \in Runs, NEW o, NEW p, NEW b,
         Journal(log[r], o, p, b), Reading(r) = "open"
  PROVE  /\ ~HasOutput(r) /\ Groups(r) = Answers(log[r]) /\ Groups(r) < MaxTurns
         /\ Doubts(log[r]) = 0
         /\ \A i \in Since(r) : log[r][i] = "dispatched" => i \in Fresh(log[r])
         /\ \/ Trailing(r) = {} /\ Projected(r) = Sent(log[r])
            \/ Trailing(r) # {} /\ PendingReply(r)
            \/ Last(log[r]) = "safe"
<1>1. /\ ~HasOutput(r) /\ ~(Groups(r) >= MaxTurns)
      /\ Trailing(r) = {} \/ PendingReply(r) \/ SafeTail(r)
  BY SMTT(30) DEF Reading
<1>0. Groups(r) \in Nat
  BY GroupsBound
<1>2. Groups(r) < MaxTurns
  BY <1>0, <1>1, TriageRunAssumption, SMT
<1>3. \A i \in Trailing(r) : log[r][i] \in {"dispatched"} \cup Failed
  BY <1>1 DEF PendingReply, SafeTail, TrailingKinds, Failed
<1>4. \A i \in Trailing(r) : log[r][i] # "answered" /\ log[r][i] \notin Ambiguous
  BY <1>3 DEF Failed, Ambiguous
<1>5. /\ Groups(r) = Answers(log[r])
      /\ \A i \in Since(r) : log[r][i] = "dispatched" => i \in Fresh(log[r])
  BY <1>4, TailOfOpen
<1>6. Doubts(log[r]) = 0
  <2>1. SUFFICES ASSUME Doubts(log[r]) # 0 PROVE FALSE
    OBVIOUS
  <2>2. log[r] # <<>> /\ Last(log[r]) \in Ambiguous
    BY <2>1, DoubtsLast
  <2>3. Last(log[r]) \in TrailingKinds(r)
    BY <2>2, LastTrails DEF Ambiguous
  <2> QED
    BY <1>4, <2>2, <2>3 DEF TrailingKinds
<1>7. ASSUME Trailing(r) = {} PROVE Projected(r) = Sent(log[r])
  <2>1. \A i \in Since(r) : i \in Nat
    BY SMT DEF Since
  <2>2. \A i \in Since(r) : log[r][i] # "dispatched"
    BY <1>7, <2>1, SMT DEF Trailing
  <2> QED
    BY <2>2, ProjectedBound
<1>8. SafeTail(r) => Last(log[r]) = "safe"
  BY DEF SafeTail
<1> QED
  BY <1>1, <1>2, <1>5, <1>6, <1>7, <1>8

\* A run that ends when it is read has no output it may keep, unless it completes.
LEMMA ReadingEnds ==
  ASSUME log \in [Runs -> Seq(Events)], NEW r \in Runs, NEW o, NEW p, NEW b,
         Journal(log[r], o, p, b)
  PROVE  /\ Reading(r) \in {"failed", "human"} => ~HasOutput(r)
         /\ Reading(r) = "human" => log[r] # <<>>
         /\ Reading(r) = "completed" => Doubts(log[r]) = 0
<1>1. Reading(r) \in {"failed", "human"} => ~HasOutput(r)
  BY SMTT(30) DEF Reading
<1>2. ASSUME Reading(r) = "human" PROVE log[r] # <<>>
  <2>1. Trailing(r) # {}
    BY <1>2, SMTT(30) DEF Reading
  <2> QED
    BY <2>1 DEF Trailing, Since
<1>3. ASSUME Reading(r) = "completed", Doubts(log[r]) # 0 PROVE FALSE
  <2>1. Trailing(r) = {}
    BY <1>3, SMTT(30) DEF Reading
  <2>2. log[r] # <<>> /\ Last(log[r]) \in Ambiguous
    BY <1>3, DoubtsLast
  <2> QED
    BY <2>1, <2>2, LastTrails DEF Ambiguous
<1> QED
  BY <1>1, <1>2, <1>3

\* A dispatch that nothing resolves was sent in the turn under way.
LEMMA UnresolvedFresh ==
  ASSUME log \in [Runs -> Seq(Events)], NEW r \in Runs, Unresolved(r)
  PROVE  Fresh(log[r]) # {} /\ Sent(log[r]) > 0 /\ log[r] # <<>>
<1>1. PICK i \in DOMAIN log[r] :
        /\ log[r][i] = "dispatched"
        /\ \A k \in i + 1..Len(log[r]) : log[r][k] # "answered"
  BY DEF Unresolved
<1>2. \A k \in i..Len(log[r]) : k = i \/ k \in i + 1..Len(log[r])
  BY <1>1, SMT
<1>3. i \in Fresh(log[r])
  BY <1>1, <1>2, SMT DEF Fresh, SameTurn
<1>4. Sent(log[r]) \in Nat /\ Sent(log[r]) # 0
  <2>1. log[r] \in Seq(Events) /\ log[r][i] \in {"dispatched"}
    BY <1>1
  <2> QED
    BY <2>1, CountType DEF Sent
<1> QED
  BY <1>1, <1>3, <1>4, SMT

\* The attempts a run is charged for, before and after another event.
LEMMA AttemptsOf ==
  ASSUME log \in [Runs -> Seq(Events)], NEW r \in Runs
  PROVE  /\ Attempts(r) = IF Sent(log[r]) > 0 THEN Sent(log[r]) ELSE Doubts(log[r])
         /\ Sent(log[r]) \in Nat /\ Doubts(log[r]) \in Nat /\ Attempts(r) \in Nat
  BY CountType DEF Attempts, Sent, Doubts

Nothing == [n \in Turns |-> "none"]

-----------------------------------------------------------------------------
(* The steps. *)

\* The empty journal.
LEMMA EmptyCounts ==
  /\ <<>> \in Seq(Events) /\ Len(<<>>) = 0 /\ DOMAIN <<>> = 1..0
  /\ \A K : Count(<<>>, K) = 0
  /\ Fresh(<<>>) = {} /\ Cardinality({}) = 0
<1>1. <<>> \in Seq(Events) /\ Len(<<>>) = 0 /\ DOMAIN <<>> = 1..0
  BY SMT
<1>2. ASSUME NEW K PROVE Count(<<>>, K) = 0
  <2>1. \A i \in DOMAIN <<>> : FALSE
    BY <1>1, SMT
  <2>2. Count(<<>>, K) = 0 <=> \A i \in DOMAIN <<>> : <<>>[i] \notin K
    BY <1>1, CountType
  <2> QED
    BY <2>1, <2>2
<1>3. Fresh(<<>>) = {}
  BY <1>1, SMT DEF Fresh
<1> QED
  BY <1>1, <1>2, <1>3, FS_EmptySet

\* A run that has not started.
LEMMA JournalEmpty ==
  ASSUME NEW b \in Nat, b =< MaxTurns
  PROVE  Journal(<<>>, {}, Nothing, b)
<1>1. Answers(<<>>) = 0 /\ Sent(<<>>) = 0 /\ Doubts(<<>>) = 0
  BY EmptyCounts DEF Answers, Sent, Doubts
<1>2. b + Answers(<<>>) =< MaxTurns
  BY <1>1, SMT
<1>3. NoBlind(<<>>)
  BY EmptyCounts, SMT DEF NoBlind
<1>4. \A n \in Turns : Nothing[n] = "none"
  BY DEF Nothing
<1>5. Fruitless(Nothing, b + Answers(<<>>))
  BY <1>4 DEF Fruitless, Valid
<1>6. /\ ~(Doubts(<<>>) > 0) /\ Doubts(<<>>) =< 1
      /\ Cardinality(Fresh(<<>>)) =< MaxAttempts
      /\ Sent(<<>>) =< MaxAttempts * Answers(<<>>) + Cardinality(Fresh(<<>>))
  <2>1. MaxAttempts \in Nat /\ MaxAttempts * 0 = 0
    BY TriageRunAssumption, SMT
  <2>2. Cardinality(Fresh(<<>>)) = 0
    BY EmptyCounts
  <2>3. MaxAttempts * Answers(<<>>) = 0
    BY <1>1, <2>1
  <2> QED
    BY <1>1, <2>1, <2>2, <2>3, SMT
<1> QED
  BY <1>2, <1>3, <1>4, <1>5, <1>6, EmptyCounts DEF Journal

\* The turns that count against a run.
LEMMA PriorValue ==
  ASSUME TypeOK
  PROVE  /\ Prior("original") = 0
         /\ Prior("replacement") = Answers(log["original"])
         /\ \A r \in Runs : Prior(r) \in Nat /\ log[r] \in Seq(Events)
<1>1. \A r \in Runs : log[r] \in Seq(Events)
  BY DEF TypeOK
<1>2. Count(log["original"], {"answered"}) \in Nat
  BY <1>1, CountType DEF Runs
<1> QED
  BY <1>1, <1>2 DEF Prior, Answers

\* Another event of the run that the call is about.
LEMMA WriteFacts ==
  ASSUME TypeOK, NEW e \in Events, Write(e)
  PROVE  /\ log' \in [Runs -> Seq(Events)]
         /\ log'[run] = Append(log[run], e)
         /\ \A r \in Runs \ {run} : log'[r] = log[r]
  BY AppendSeq DEF TypeOK, Write

\* A second run exists only once the first has ended.
LEMMA Alone ==
  ASSUME TypeOK, RecordInv, Position, status[run] = "running", run \in Agents
  PROVE  /\ run = "original" => /\ substitute = "none"
                                /\ status["replacement"] = "none"
                                /\ log["replacement"] = <<>>
                                /\ opened["replacement"] = {}
                                /\ reply["replacement"] = Nothing
         /\ run = "replacement" => substitute = "replacement" /\ status["original"] = "human"
<1>1. run = "original" => substitute = "none"
  BY DEF RecordInv, TypeOK
<1>2. run = "original" => status["replacement"] = "none"
  BY <1>1 DEF RecordInv, Runs
<1> QED
  BY <1>1, <1>2 DEF RecordInv, Runs, Agents, Position, Nothing

\* Another event of the running call: the journal of the other run is not touched, or has not
\* started and is only charged for one more turn.
LEMMA JournalWrite ==
  ASSUME TypeOK, JournalInv, RecordInv, Position, status[run] = "running", run \in Agents,
         NEW e \in Events, Write(e), UNCHANGED <<opened, reply>>,
         Journal(Append(log[run], e), opened[run], reply[run], Prior(run))
  PROVE  JournalInv'
<1>1. /\ log'[run] = Append(log[run], e)
      /\ \A r \in Runs \ {run} : log'[r] = log[r]
  BY WriteFacts
<1>2. CASE run = "original"
  <2>1. Journal(log'["original"], opened'["original"], reply'["original"], 0)
    BY <1>1, <1>2, PriorValue
  <2>2. /\ log'["replacement"] = <<>> /\ opened'["replacement"] = {}
        /\ reply'["replacement"] = Nothing
    BY <1>1, <1>2, Alone DEF Runs
  <2>3. Answers(log'["original"]) \in Nat
    BY <1>1, <1>2, AppendSeq, CountType, PriorValue DEF Answers, Runs
  <2>4. Answers(log'["original"]) =< MaxTurns
    BY <2>1, <2>3, SMT DEF Journal
  <2>5. Journal(log'["replacement"], opened'["replacement"], reply'["replacement"],
                Answers(log'["original"]))
    BY <2>2, <2>3, <2>4, JournalEmpty
  <2> QED
    BY <2>1, <2>5 DEF JournalInv, Prior, Agents, Answers
<1>3. CASE run = "replacement"
  <2>1. log'["original"] = log["original"]
    BY <1>1, <1>3 DEF Runs
  <2>2. Journal(log'["replacement"], opened'["replacement"], reply'["replacement"],
                Answers(log'["original"]))
    BY <1>1, <1>3, <2>1, PriorValue
  <2>3. Journal(log'["original"], opened'["original"], reply'["original"], 0)
    BY <2>1, PriorValue DEF JournalInv, Agents
  <2> QED
    BY <2>2, <2>3 DEF JournalInv, Prior, Agents, Answers
<1> QED
  BY <1>2, <1>3 DEF Agents

\* What the running call has of its own journal.
LEMMA Own ==
  ASSUME TypeOK, JournalInv, run \in Agents
  PROVE  /\ run \in Runs /\ log \in [Runs -> Seq(Events)]
         /\ log[run] \in Seq(Events) /\ opened[run] \in SUBSET Turns
         /\ reply[run] \in [Turns -> Contents \cup {"none"}] /\ Prior(run) \in Nat
         /\ Journal(log[run], opened[run], reply[run], Prior(run))
         /\ Answers(log[run]) \in Nat /\ Sent(log[run]) \in Nat /\ Doubts(log[run]) \in Nat
         /\ Cardinality(Fresh(log[run])) \in Nat
         /\ Fresh(log[run]) = {} <=> Cardinality(Fresh(log[run])) = 0
<1>1. run \in Runs
  BY DEF Agents, Runs
<1>2. /\ log \in [Runs -> Seq(Events)]
      /\ log[run] \in Seq(Events) /\ opened[run] \in SUBSET Turns
      /\ reply[run] \in [Turns -> Contents \cup {"none"}]
  BY <1>1 DEF TypeOK
<1>3. Answers(log[run]) \in Nat /\ Sent(log[run]) \in Nat /\ Doubts(log[run]) \in Nat
  BY <1>2, CountType DEF Answers, Sent, Doubts
<1>4. /\ Cardinality(Fresh(log[run])) \in Nat
      /\ Fresh(log[run]) = {} <=> Cardinality(Fresh(log[run])) = 0
  BY <1>2, FreshAppend DEF Events
<1>5. Journal(log[run], opened[run], reply[run], Prior(run))
  BY DEF JournalInv
<1> QED
  BY <1>1, <1>2, <1>3, <1>4, <1>5, PriorValue

\* Every step keeps the journals.
LEMMA JournalStep ==
  ASSUME IInv, [Next]_vars
  PROVE  JournalInv'
<1> USE DEF IInv
<1>1. CASE UNCHANGED journal
  BY <1>1 DEF journal, JournalInv, Prior
<1>2. ASSUME pc \in InTurn \cup {"judging", "validating"}
      PROVE  run \in Agents /\ status[run] = "running"
  BY <1>2 DEF Position, Running
<1>3. ASSUME run \in Agents, status[run] = "running", UNCHANGED <<opened, reply>>,
             NEW e \in Events \ {"dispatched", "answered", "safe"}, Write(e),
             Doubts(log[run]) = 0 \/ (e \in Ambiguous /\ Sent(log[run]) > 0)
      PROVE  JournalInv'
  <2>1. Journal(Append(log[run], e), opened[run], reply[run], Prior(run))
    <3>1. Doubts(log[run]) > 0 => e \in Ambiguous /\ Sent(log[run]) > 0
      BY <1>3, Own, SMT
    <3> QED
      BY <1>3, <3>1, Own, JournalQuiet
  <2> QED
    BY <1>3, <2>1, JournalWrite
<1>4. CASE SealInterrupted
  <2>1. run \in Agents /\ status[run] = "running" /\ Unresolved(run) /\ Write("interrupted")
    BY <1>4 DEF SealInterrupted, Opens, TypeOK, Runs, Agents
  <2>2. Sent(log[run]) > 0
    BY <2>1, UnresolvedFresh, Own
  <2> QED
    BY <1>3, <1>4, <2>1, <2>2 DEF SealInterrupted, Events, Ambiguous
<1>5. CASE BlockedByHealth \/ PreparationFails
  <2>1. Doubts(log[run]) = 0 /\ run \in Agents /\ status[run] = "running"
    BY <1>2, <1>5 DEF BlockedByHealth, PreparationFails, TurnInv, InTurn, Before
  <2> QED
    BY <1>3, <1>5, <2>1 DEF BlockedByHealth, PreparationFails, Events
<1>6. CASE RecordFailure \/ BoundaryFails \/ WaitTimesOut \/ RecordTimeout \/ RejectSecret
  <2>1. Doubts(log[run]) = 0 /\ run \in Agents /\ status[run] = "running"
    BY <1>2, <1>6 DEF RecordFailure, BoundaryFails, WaitTimesOut, RecordTimeout, RejectSecret,
      Waits, TurnInv, InTurn, Before, Asking
  <2>2. PICK e \in {"ambiguous", "declined", "orphaned", "timedout", "secret"} : Write(e)
    BY <1>6 DEF RecordFailure, BoundaryFails, WaitTimesOut, RecordTimeout, RejectSecret
  <2>3. e \in Events \ {"dispatched", "answered", "safe"}
    BY <2>2 DEF Events, Failed, Ambiguous
  <2>4. UNCHANGED <<opened, reply>>
    BY <1>6 DEF RecordFailure, BoundaryFails, WaitTimesOut, RecordTimeout, RejectSecret
  <2> QED
    BY <1>3, <2>1, <2>2, <2>3, <2>4
<1>7. CASE Validate
  <2>1. Doubts(log[run]) = 0 /\ run \in Agents /\ status[run] = "running"
    BY <1>2, <1>7 DEF Validate, EndInv
  <2> QED
    BY <1>3, <1>7, <2>1 DEF Validate, Events
<1>8. CASE EndAttempt
  <2>1. /\ pc = "attempted" /\ run \in Agents /\ status[run] = "running"
        /\ UNCHANGED <<opened, reply>>
    BY <1>2, <1>8 DEF EndAttempt, InTurn, Asking
  <2>2. PICK e \in {"safe", "regenerable", "refused", "unknown"} : Write(e)
    BY <1>8 DEF EndAttempt, AttemptRetried, AttemptFails
  <2>3. e \in Events \ {"dispatched", "answered"}
    BY <2>2 DEF Events, Failed
  <2>4. /\ Doubts(log[run]) = 0 /\ turn = Prior(run) + Answers(log[run]) + 1
        /\ turn \in Turns /\ reply[run][turn] = "none"
    BY <2>1 DEF TurnInv, InTurn, Asking
  <2>5. ~(Doubts(log[run]) > 0)
    BY <2>4, SMT
  <2>6. Journal(Append(log[run], e), opened[run], reply[run], Prior(run))
    BY <2>1, <2>3, <2>4, <2>5, Own, JournalQuiet
  <2> QED
    BY <2>1, <2>2, <2>3, <2>6, JournalWrite
<1>9. CASE Dispatch
  <2>1. /\ pc \in {"requesting", "retrying"} /\ run \in Agents /\ status[run] = "running"
        /\ UNCHANGED <<opened, reply>> /\ Write("dispatched")
    BY <1>2, <1>9 DEF Dispatch, InTurn, Asking
  <2>2. /\ Doubts(log[run]) = 0 /\ turn = Prior(run) + Answers(log[run]) + 1
        /\ turn \in opened[run] /\ Fruitless(reply[run], turn)
        /\ asked = Cardinality(Fresh(log[run])) /\ asked < MaxAttempts
    BY <1>9, <2>1 DEF Dispatch, TurnInv, InTurn, Asking
  <2>3. Fresh(log[run]) = {} \/ Refused(log[run])
    <3>1. pc = "requesting" => asked = 0
      BY DEF TurnInv
    <3>2. pc = "requesting" => Fresh(log[run]) = {}
      BY <2>1, <2>2, <3>1, Own
    <3>3. pc = "retrying" => Refused(log[run])
      BY DEF TurnInv, Refused
    <3> QED
      BY <2>1, <3>2, <3>3
  <2>4. Journal(Append(log[run], "dispatched"), opened[run], reply[run], Prior(run))
    BY <2>1, <2>2, <2>3, Own, JournalDispatch
  <2> QED
    BY <2>1, <2>4, JournalWrite DEF Events
<1>10. CASE ProjectAnswer
  <2>1. /\ pc = "replied" /\ run \in Agents /\ status[run] = "running"
        /\ UNCHANGED <<opened, reply>> /\ Write("answered")
    BY <1>2, <1>10 DEF ProjectAnswer, InTurn
  <2>2. /\ Doubts(log[run]) = 0 /\ turn = Prior(run) + Answers(log[run]) + 1
        /\ turn \in Turns /\ Fruitless(reply[run], turn)
    BY <2>1 DEF TurnInv, InTurn, Asking
  <2>3. Journal(Append(log[run], "answered"), opened[run], reply[run], Prior(run))
    BY <2>1, <2>2, Own, JournalAnswer
  <2> QED
    BY <2>1, <2>3, JournalWrite DEF Events
<1>11. CASE OpenRequest
  <2>1. /\ pc = "invoking" /\ run \in Agents /\ status[run] = "running"
        /\ opened' = [opened EXCEPT ![run] = @ \cup {turn}] /\ UNCHANGED <<log, reply>>
    BY <1>2, <1>11 DEF OpenRequest, InTurn, Before
  <2>2. turn = Prior(run) + Answers(log[run]) + 1 /\ turn \in Turns
    BY <2>1 DEF TurnInv, InTurn, Before
  <2>3. Journal(log[run], opened[run] \cup {turn}, reply[run], Prior(run))
    BY <2>1, <2>2, Own, JournalOpen
  <2>4. /\ opened'[run] = opened[run] \cup {turn}
        /\ \A r \in Runs \ {run} : opened'[r] = opened[r]
    BY <2>1, Own DEF TypeOK
  <2> QED
    BY <2>1, <2>3, <2>4 DEF JournalInv, Prior, Agents, Runs
<1>12. CASE ReceiveReply
  <2>1. /\ pc = "attempted" /\ run \in Agents /\ status[run] = "running"
        /\ UNCHANGED <<log, opened>>
    BY <1>2, <1>12 DEF ReceiveReply, InTurn, Asking
  <2>2. PICK content \in Contents : reply' = [reply EXCEPT ![run][turn] = content]
    BY <1>12 DEF ReceiveReply
  <2>3. /\ turn = Prior(run) + Answers(log[run]) + 1 /\ turn \in Turns
        /\ turn \in opened[run] /\ Last(log[run]) = "dispatched"
    BY <2>1 DEF TurnInv, InTurn, Asking
  <2>4. Journal(log[run], opened[run], [reply[run] EXCEPT ![turn] = content], Prior(run))
    BY <2>1, <2>3, Own, JournalReply
  <2>5. /\ reply'[run] = [reply[run] EXCEPT ![turn] = content]
        /\ \A r \in Runs \ {run} : reply'[r] = reply[r]
    BY <2>1, <2>2, Own DEF TypeOK
  <2> QED
    BY <2>1, <2>4, <2>5 DEF JournalInv, Prior, Agents, Runs
<1>13. CASE WriteRepair
  <2>1. /\ \A r \in Agents : log'[r] = log[r]
        /\ UNCHANGED <<opened, reply>>
    BY <1>13 DEF WriteRepair, TypeOK, Agents, Runs
  <2> QED
    BY <2>1 DEF JournalInv, Prior, Agents
<1>14. CASE \/ SealOversized \/ StartRun \/ ReopenTerminal \/ RecoverEnding \/ RecoverTurn
            \/ RecoverNothing \/ EnterLoop \/ RefuseTurn \/ Invoke \/ ReplayReply
            \/ WaitTimesOutAgain \/ JudgeAnswer \/ Finish \/ SealUsage \/ AcceptOutput
            \/ StartRepair \/ ReopenRepair \/ CallMember \/ Crash
            \/ AuthorizeReplacement \/ AuthorizeRepair \/ UNCHANGED vars
  BY <1>1, <1>14 DEF SealOversized, StartRun, ReopenTerminal, RecoverEnding, RecoverTurn,
    RecoverNothing, EnterLoop, RefuseTurn, Invoke, ReplayReply, WaitTimesOutAgain, JudgeAnswer,
    Finish, SealUsage, AcceptOutput, StartRepair, ReopenRepair, CallMember, Crash,
    AuthorizeReplacement, AuthorizeRepair, vars
<1> QED
  BY <1>4, <1>5, <1>6, <1>7, <1>8, <1>9, <1>10, <1>11, <1>12, <1>13, <1>14 DEF Next, Work

\* Every step leaves the call where its record says.
LEMMA PositionStep ==
  ASSUME IInv, [Next]_vars
  PROVE  Position'
<1> USE DEF IInv, Position, Ended
<1>0. status \in [Runs -> Endings \cup {"none", "running"}] /\ run \in Runs
  BY DEF TypeOK
<1>1. CASE SealOversized
  BY <1>0, <1>1, SMTT(30) DEF SealOversized, Leave, Forget, setting, bounds, Running, Done, InTurn, Before,
    Asking, Endings, Runs, Agents
<1>2. CASE StartRun \/ StartRepair
  BY <1>0, <1>2, SMTT(30) DEF StartRun, StartRepair, Opens, setting, call, Running, Done, InTurn,
    Before, Asking, Endings, Runs, Agents
<1>3. CASE ReopenTerminal \/ SealInterrupted
  BY <1>0, <1>3, SMTT(30) DEF ReopenTerminal, SealInterrupted, Opens, records, setting, Running,
    Done, InTurn, Before, Asking, Endings, Runs, Agents
<1>4. CASE RecoverEnding
  BY <1>0, <1>4, SMTT(30) DEF RecoverEnding, Recovering, Opens, records, setting, Running, Done,
    InTurn, Before, Asking, Endings, Runs, Agents
<1>5. CASE RecoverTurn
  BY <1>0, <1>5, SMTT(30) DEF RecoverTurn, Recovering, Opens, records, setting, Running, Done,
    InTurn, Before, Asking, Endings, Runs, Agents
<1>6. CASE RecoverNothing \/ PreparationFails \/ AcceptOutput \/ ReopenRepair \/ Crash
  BY <1>0, <1>6, SMTT(30) DEF RecoverNothing, PreparationFails, AcceptOutput, ReopenRepair, Crash,
    Leave, Forget, records, setting, Running, Done, InTurn, Before, Asking
<1>7. CASE \/ EnterLoop \/ Invoke \/ OpenRequest \/ ReplayReply \/ Dispatch \/ ReceiveReply
           \/ WaitTimesOut \/ ProjectAnswer
  BY <1>7, SMTT(30) DEF EnterLoop, Invoke, OpenRequest, ReplayReply, Dispatch, ReceiveReply,
    WaitTimesOut, ProjectAnswer, Goto, Waits, records, setting, Running, Done, InTurn, Before,
    Asking
<1>8. CASE EndAttempt
  BY <1>8, SMTT(30) DEF EndAttempt, AttemptRetried, AttemptFails, Goto, records, setting, Running,
    Done, InTurn, Before, Asking
<1>9. CASE \/ BlockedByHealth \/ RefuseTurn \/ RecordFailure \/ BoundaryFails
           \/ WaitTimesOutAgain \/ RecordTimeout \/ RejectSecret
  BY <1>9, SMTT(30) DEF BlockedByHealth, RefuseTurn, RecordFailure, BoundaryFails,
    WaitTimesOutAgain, RecordTimeout, RejectSecret, Waits, records, setting, Running, Done,
    InTurn, Before, Asking, Endings, Agents
<1>10. CASE JudgeAnswer
  <2>1. /\ pc = "judging" /\ UNCHANGED <<status, substitute, run>>
        /\ \/ pc' = "ending" /\ verdict' \in {"budget", "failed"}
           \/ pc' = "validating" /\ verdict' = "completed"
           \/ pc' = "preparing"
    BY <1>10, SMTT(30) DEF JudgeAnswer, records, setting
  <2> QED
    BY <2>1, SMTT(30) DEF Running, Done, InTurn, Before, Asking, Endings, Agents
<1>11. CASE Validate \/ WriteRepair
  BY <1>0, <1>11, SMTT(30) DEF Validate, WriteRepair, Goto, records, setting, Running, Done,
    InTurn, Before, Asking, Endings, Agents
<1>12. CASE Finish
  BY <1>0, <1>12, SMTT(30) DEF Finish, Goto, setting, Running, Done, InTurn, Before, Asking,
    Endings, Agents
<1>13. CASE SealUsage
  BY <1>0, <1>13, SMTT(30) DEF SealUsage, Goto, Leave, Forget, setting, Running, Done, InTurn,
    Before, Asking, Agents, Runs
<1>14. CASE CallMember
  BY <1>0, <1>14, SMTT(30) DEF CallMember, Selected, records, setting, Running, Done, InTurn,
    Before, Asking
<1>15. CASE AuthorizeReplacement \/ AuthorizeRepair
  <2>1. substitute = "none" /\ UNCHANGED <<status, pc, run, verdict>>
    BY <1>15 DEF AuthorizeReplacement, AuthorizeRepair, records, call
  <2>2. run = "original"
    BY <1>0, <2>1 DEF Runs
  <2> QED
    BY <2>1, <2>2
<1>16. CASE UNCHANGED vars
  BY <1>16 DEF vars, records, setting, call
<1> QED
  BY <1>1, <1>2, <1>3, <1>4, <1>5, <1>6, <1>7, <1>8, <1>9, <1>10, <1>11, <1>12, <1>13, <1>14,
    <1>15, <1>16 DEF Next, Work

\* What is said of a run depends on its own journal, and on that of the original.
LEMMA SameRun ==
  ASSUME NEW r, log'[r] = log[r], reply'[r] = reply[r], Prior(r)' = Prior(r)
  PROVE  /\ Attempts(r)' = Attempts(r)
         /\ HasOutput(r)' <=> HasOutput(r)
<1>1. Attempts(r)' = Attempts(r)
  BY DEF Attempts
<1>2. Groups(r)' = Groups(r)
  BY DEF Groups, IsTurnEnd
<1>3. HasOutput(r)' <=> HasOutput(r)
  BY <1>2 DEF HasOutput, Output
<1> QED
  BY <1>1, <1>3

\* A step of a running run that writes no record.
LEMMA RecordKept ==
  ASSUME TypeOK, RecordInv, Position, run \in Runs, status[run] = "running",
         UNCHANGED <<status, sealed, usage, substitute>>,
         \A r \in Runs \ {run} : log'[r] = log[r] /\ opened'[r] = opened[r] /\ reply'[r] = reply[r]
  PROVE  RecordInv'
<1>1. ASSUME NEW r \in Agents, status[r] \in Endings
      PROVE  /\ log'[r] = log[r] /\ Attempts(r)' = Attempts(r)
             /\ HasOutput(r)' <=> HasOutput(r)
  <2>1. r \in Runs \ {run}
    BY <1>1 DEF Endings, Agents, Runs
  <2>2. Prior(r)' = Prior(r)
    <3>1. CASE r = "original"
      BY <3>1 DEF Prior
    <3>2. CASE r = "replacement"
      <4>1. substitute = "replacement" /\ status["original"] = "human"
        BY <1>1, <3>2 DEF RecordInv, Endings, Runs
      <4>2. "original" \in Runs \ {run}
        BY <4>1 DEF Runs
      <4> QED
        BY <4>2, <3>2 DEF Prior
    <3> QED
      BY <1>1, <3>1, <3>2 DEF Agents
  <2> QED
    BY <2>1, <2>2, SameRun
<1>2. \A r \in Agents :
        /\ status[r] \in {"failed", "human"} => ~HasOutput(r)'
        /\ status[r] = "human" => log'[r] # <<>>
        /\ Exact(log'[r], status'[r]) => sealed[r] = Attempts(r)' /\ usage[r] \subseteq {Attempts(r)'}
  <2> TAKE r \in Agents
  <2>1. status[r] = "completed" \/ status[r] = "human" \/ status[r] = "failed" => status[r] \in Endings
    BY DEF Endings
  <2>2. Exact(log'[r], status'[r]) => status[r] \in Endings
    BY <2>1 DEF Exact
  <2> QED
    BY <1>1, <2>1, <2>2 DEF RecordInv
<1>3. \A r \in Runs : status[r] = "none" => log'[r] = log[r] /\ opened'[r] = opened[r] /\ reply'[r] = reply[r]
  OBVIOUS
<1>4. substitute = "replacement" => ChargedAsJournaled'
  <2>1. ASSUME substitute = "replacement"
        PROVE  ChargedAsJournaled'
    <3>1. status["original"] = "human" /\ ChargedAsJournaled
      BY <2>1 DEF RecordInv
    <3>2. Attempts("original")' = Attempts("original")
      BY <1>1, <3>1 DEF Endings, Agents
    <3> QED
      BY <3>1, <3>2 DEF ChargedAsJournaled
  <2> QED
    BY <2>1
<1> QED
  BY <1>2, <1>3, <1>4 DEF RecordInv, Ended

\* A step that touches neither journals nor records.
LEMMA RecordSame ==
  ASSUME RecordInv, UNCHANGED <<journal, records, substitute>>
  PROVE  RecordInv'
<1>1. \A r : Prior(r)' = Prior(r) /\ log'[r] = log[r] /\ reply'[r] = reply[r] /\ opened'[r] = opened[r]
  BY DEF journal, Prior
<1>2. \A r : /\ Attempts(r)' = Attempts(r)
             /\ HasOutput(r)' <=> HasOutput(r)
  BY <1>1, SameRun
<1>3. UNCHANGED <<status, sealed, usage, substitute>>
  BY DEF records
<1>4. \A r \in Agents : Exact(log'[r], status'[r]) <=> Exact(log[r], status[r])
  BY <1>1, <1>3
<1> QED
  BY <1>1, <1>2, <1>3, <1>4 DEF RecordInv, Ended, ChargedAsJournaled

\* A run is taken up.
LEMMA RecordStart ==
  ASSUME TypeOK, RecordInv, Position, run \in Runs, ~Ended(run),
         status' = [status EXCEPT ![run] = "running"],
         UNCHANGED <<journal, sealed, usage, substitute>>
  PROVE  RecordInv'
<1>1. \A r : Prior(r)' = Prior(r) /\ log'[r] = log[r] /\ reply'[r] = reply[r] /\ opened'[r] = opened[r]
  BY DEF journal, Prior
<1>2. \A r : /\ Attempts(r)' = Attempts(r)
             /\ HasOutput(r)' <=> HasOutput(r)
  BY <1>1, SameRun
<1>3. status'[run] = "running" /\ \A r \in Runs \ {run} : status'[r] = status[r]
  BY DEF TypeOK
<1>4. \A r \in Runs : status'[r] \in Endings <=> status[r] \in Endings
  BY <1>3 DEF Ended, Endings
<1>5. \A r \in Runs : status'[r] \in Endings => status'[r] = status[r]
  BY <1>3 DEF Endings
<1>6. \A r \in Runs : status'[r] = "none" => status[r] = "none"
  BY <1>3
<1>7. \A r \in Runs : r # "original" /\ status'[r] # "none" => substitute = r
  BY <1>3 DEF RecordInv, Position
<1>8. \A r \in Agents :
       /\ status'[r] \in {"failed", "human"} => ~HasOutput(r)'
       /\ status'[r] = "human" => log'[r] # <<>>
       /\ Exact(log'[r], status'[r]) => sealed'[r] = Attempts(r)' /\ usage'[r] \subseteq {Attempts(r)'}
  <2> TAKE r \in Agents
  <2>1. r \in Runs
    BY DEF Agents, Runs
  <2>2. CASE status'[r] \in Endings
    BY <1>1, <1>2, <1>5, <2>1, <2>2 DEF RecordInv
  <2>3. CASE status'[r] \notin Endings
    BY <2>3 DEF Endings, Exact
  <2> QED
    BY <2>2, <2>3
<1>9. /\ substitute = "repair" => status'["original"] = "failed"
      /\ substitute = "replacement" => status'["original"] = "human" /\ ChargedAsJournaled'
  <2>1. substitute \in {"repair", "replacement"} => run # "original"
    BY DEF RecordInv, Ended, Endings
  <2> QED
    BY <1>2, <1>3, <2>1 DEF RecordInv, ChargedAsJournaled, Runs
<1> QED
  BY <1>1, <1>4, <1>6, <1>7, <1>8, <1>9 DEF RecordInv, Ended

\* Every step keeps what the records say.
LEMMA RecordStep ==
  ASSUME IInv, [Next]_vars
  PROVE  RecordInv'
<1> USE DEF IInv
<1>0. run \in Runs
  BY DEF TypeOK
<1>1. CASE \/ SealInterrupted \/ BlockedByHealth \/ PreparationFails \/ Dispatch \/ EndAttempt
           \/ RecordFailure \/ BoundaryFails \/ WaitTimesOut \/ RecordTimeout \/ ProjectAnswer
           \/ RejectSecret \/ Validate
  <2>1. status[run] = "running"
    BY <1>1 DEF SealInterrupted, BlockedByHealth, PreparationFails, Dispatch, EndAttempt,
      RecordFailure, BoundaryFails, WaitTimesOut, RecordTimeout, ProjectAnswer, RejectSecret,
      Validate, Waits, Position, Running, InTurn, Before, Asking
  <2>2. UNCHANGED <<status, sealed, usage, substitute, opened, reply>>
    BY <1>1 DEF SealInterrupted, BlockedByHealth, PreparationFails, Dispatch, EndAttempt,
      RecordFailure, BoundaryFails, WaitTimesOut, RecordTimeout, ProjectAnswer, RejectSecret,
      Validate, records, setting
  <2>3. \E e : Write(e)
    BY <1>1 DEF SealInterrupted, BlockedByHealth, PreparationFails, Dispatch, EndAttempt,
      AttemptRetried, AttemptFails, RecordFailure, BoundaryFails, WaitTimesOut, RecordTimeout,
      ProjectAnswer, RejectSecret, Validate
  <2>4. \A r \in Runs \ {run} : log'[r] = log[r]
    BY <2>3 DEF Write, TypeOK
  <2> QED
    BY <1>0, <2>1, <2>2, <2>4, RecordKept
<1>2. CASE OpenRequest \/ ReceiveReply
  <2>1. status[run] = "running"
    BY <1>2 DEF OpenRequest, ReceiveReply, Position, Running, InTurn, Before, Asking
  <2>2. UNCHANGED <<status, sealed, usage, substitute, log>>
    BY <1>2 DEF OpenRequest, ReceiveReply, records, setting
  <2>3. \A r \in Runs \ {run} : opened'[r] = opened[r] /\ reply'[r] = reply[r]
    BY <1>2 DEF OpenRequest, ReceiveReply, TypeOK
  <2> QED
    BY <1>0, <2>1, <2>2, <2>3, RecordKept
<1>3. CASE WriteRepair
  <2>1. /\ status[run] = "running" /\ UNCHANGED <<status, sealed, usage, substitute, opened, reply>>
        /\ \A r \in Runs \ {run} : log'[r] = log[r]
    BY <1>3 DEF WriteRepair, records, setting, TypeOK
  <2> QED
    BY <1>0, <2>1, RecordKept
<1>4. CASE StartRun \/ StartRepair
  <2>1. /\ ~Ended(run) /\ status' = [status EXCEPT ![run] = "running"]
        /\ UNCHANGED <<journal, sealed, usage, substitute>>
    BY <1>4 DEF StartRun, StartRepair, Ended, Endings, setting
  <2> QED
    BY <1>0, <2>1, RecordStart
<1>5. CASE SealOversized
  <2>1. CASE Ended(run)
    BY <1>5, <2>1, RecordSame DEF SealOversized, records, setting
  <2>2. CASE ~Ended(run)
    BY <1>0, <1>5, <2>2, RecordStart DEF SealOversized, setting
  <2> QED
    BY <2>1, <2>2
<1>6. CASE Finish
  <2>1. /\ pc = "ending" /\ status[run] = "running" /\ verdict \in Endings
        /\ status' = [status EXCEPT ![run] = verdict]
        /\ sealed' = [sealed EXCEPT ![run] = spent]
        /\ UNCHANGED <<journal, usage, substitute>>
    BY <1>6 DEF Finish, Position, Running, setting
  <2>2. \A r : Prior(r)' = Prior(r) /\ log'[r] = log[r] /\ reply'[r] = reply[r] /\ opened'[r] = opened[r]
    BY <2>1 DEF journal, Prior
  <2>3. \A r : /\ Attempts(r)' = Attempts(r)
               /\ HasOutput(r)' <=> HasOutput(r)
    BY <2>2, SameRun
  <2>4. /\ status'[run] = verdict /\ sealed'[run] = spent
        /\ \A r \in Runs \ {run} : status'[r] = status[r] /\ sealed'[r] = sealed[r]
    BY <1>0, <2>1 DEF TypeOK
  <2>5. usage[run] = {}
    BY <1>0, <2>1 DEF RecordInv, Ended, Endings
  <2>6. \A r \in Agents :
         /\ status'[r] \in {"failed", "human"} => ~HasOutput(r)'
         /\ status'[r] = "human" => log'[r] # <<>>
         /\ Exact(log'[r], status'[r]) => sealed'[r] = Attempts(r)' /\ usage'[r] \subseteq {Attempts(r)'}
    <3> TAKE r \in Agents
    <3>1. CASE r = run
      <4>1. Exact(log'[r], status'[r]) <=> Exact(log[run], verdict)
        BY <2>2, <2>4, <3>1
      <4>2. /\ Exact(log[run], verdict) => spent = Attempts(run)
            /\ verdict = "human" => log[run] # <<>>
            /\ verdict \in {"failed", "human"} => ~HasOutput(run)
        BY <2>1, <3>1 DEF EndInv
      <4> QED
        BY <2>1, <2>2, <2>3, <2>4, <2>5, <3>1, <4>1, <4>2
    <3>2. CASE r # run
      <4>1. r \in Runs \ {run}
        BY <3>2 DEF Agents, Runs
      <4>2. status'[r] = status[r] /\ sealed'[r] = sealed[r] /\ usage' = usage
        BY <2>1, <2>4, <4>1
      <4>3. Exact(log'[r], status'[r]) <=> Exact(log[r], status[r])
        BY <2>2, <4>2
      <4> QED
        BY <2>2, <2>3, <4>2, <4>3 DEF RecordInv
    <3> QED
      BY <3>1, <3>2
  <2>7. substitute # "none" => run # "original"
    BY <2>1 DEF RecordInv, TypeOK
  <2>8. /\ substitute = "repair" => status'["original"] = "failed"
        /\ substitute = "replacement" => status'["original"] = "human" /\ ChargedAsJournaled'
    BY <2>1, <2>3, <2>4, <2>7 DEF RecordInv, ChargedAsJournaled, Runs
  <2>9. \A r \in Runs :
         /\ status'[r] = "none" => status[r] = "none"
         /\ status'[r] \notin Endings => status[r] \notin Endings
         /\ r # "original" /\ status'[r] # "none" => substitute = r
    BY <2>1, <2>4 DEF RecordInv, Position, Endings
  <2> QED
    BY <2>1, <2>2, <2>6, <2>8, <2>9 DEF RecordInv, Ended
<1>7. CASE SealUsage
  <2>1. /\ pc = "returned" /\ Ended(run) /\ run \in Agents
        /\ UNCHANGED <<journal, status, sealed, substitute>>
        /\ \/ UNCHANGED usage
           \/ usage[run] \in {{}, {spent}} /\ usage' = [usage EXCEPT ![run] = {spent}]
    BY <1>0, <1>7 DEF SealUsage, Position, Done, setting, Runs, Agents
  <2>2. CASE UNCHANGED usage
    BY <2>1, <2>2, RecordSame DEF records
  <2>3. CASE usage[run] \in {{}, {spent}} /\ usage' = [usage EXCEPT ![run] = {spent}]
    <3>1. \A r : Prior(r)' = Prior(r) /\ log'[r] = log[r] /\ reply'[r] = reply[r] /\ opened'[r] = opened[r]
      BY <2>1 DEF journal, Prior
    <3>2. \A r : /\ Attempts(r)' = Attempts(r)
                 /\ HasOutput(r)' <=> HasOutput(r)
      BY <3>1, SameRun
    <3>3. usage'[run] = {spent} /\ \A r \in Runs \ {run} : usage'[r] = usage[r]
      BY <1>0, <2>3 DEF TypeOK
    <3>4. \A r \in Agents :
           /\ status'[r] \in {"failed", "human"} => ~HasOutput(r)'
           /\ status'[r] = "human" => log'[r] # <<>>
           /\ Exact(log'[r], status'[r]) => sealed'[r] = Attempts(r)' /\ usage'[r] \subseteq {Attempts(r)'}
      <4> TAKE r \in Agents
      <4>1. Exact(log'[r], status'[r]) <=> Exact(log[r], status[r])
        BY <2>1, <3>1
      <4>2. CASE r = run
        <5>1. Exact(log[run], status[run]) => spent = Attempts(run)
          BY <2>1 DEF EndInv, Done
        <5> QED
          BY <2>1, <3>1, <3>2, <3>3, <4>1, <4>2, <5>1 DEF RecordInv
      <4>3. CASE r # run
        <5>1. r \in Runs \ {run}
          BY <4>3 DEF Agents, Runs
        <5> QED
          BY <2>1, <3>1, <3>2, <3>3, <4>1, <5>1 DEF RecordInv
      <4> QED
        BY <4>2, <4>3
    <3>5. substitute # "none" => usage'["original"] # {}
      BY <3>3 DEF RecordInv, Runs
    <3>6. substitute = "replacement" => ChargedAsJournaled'
      <4>1. ASSUME substitute = "replacement"
            PROVE  usage'["original"] = {Attempts("original")}
        <5>1. usage["original"] = {Attempts("original")}
          BY <4>1 DEF RecordInv, ChargedAsJournaled
        <5> QED
          BY <2>3, <3>3, <5>1 DEF Runs
      <4> QED
        BY <2>1, <3>2, <4>1 DEF RecordInv, ChargedAsJournaled
    <3>7. \A r \in Runs : status[r] \notin Endings => usage'[r] = {}
      BY <2>1, <3>3 DEF RecordInv, Ended
    <3> QED
      BY <2>1, <3>1, <3>4, <3>5, <3>6, <3>7 DEF RecordInv, Ended
  <2> QED
    BY <2>1, <2>2, <2>3
<1>8. CASE AuthorizeReplacement \/ AuthorizeRepair
  <2>1. /\ substitute = "none" /\ usage["original"] # {} /\ UNCHANGED <<journal, records>>
        /\ \/ /\ substitute' = "replacement" /\ status["original"] = "human"
              /\ Last(log["original"]) \in {"ambiguous", "interrupted"}
           \/ substitute' = "repair" /\ status["original"] = "failed"
    BY <1>8 DEF AuthorizeReplacement, AuthorizeRepair
  <2>2. \A r : Prior(r)' = Prior(r) /\ log'[r] = log[r] /\ reply'[r] = reply[r] /\ opened'[r] = opened[r]
    BY <2>1 DEF journal, Prior
  <2>3. \A r : /\ Attempts(r)' = Attempts(r)
               /\ HasOutput(r)' <=> HasOutput(r)
    BY <2>2, SameRun
  <2>4. UNCHANGED <<status, sealed, usage>>
    BY <2>1 DEF records
  <2>5. substitute' = "replacement" => ChargedAsJournaled'
    <3>1. ASSUME substitute' = "replacement" PROVE ChargedAsJournaled
      <4>1. Exact(log["original"], status["original"])
        BY <2>1, <3>1 DEF Exact
      <4> QED
        BY <2>1, <4>1 DEF RecordInv, Agents, ChargedAsJournaled
    <3> QED
      BY <2>3, <2>4, <3>1 DEF ChargedAsJournaled
  <2>6. \A r \in Agents : Exact(log'[r], status'[r]) <=> Exact(log[r], status[r])
    BY <2>2, <2>4
  <2>7. \A r \in Runs : r # "original" => status[r] = "none"
    BY <2>1 DEF RecordInv, Runs
  <2> QED
    BY <2>1, <2>2, <2>3, <2>4, <2>5, <2>6, <2>7 DEF RecordInv, Ended
<1>9. CASE \/ ReopenTerminal \/ RecoverEnding \/ RecoverTurn \/ RecoverNothing \/ EnterLoop
           \/ RefuseTurn \/ Invoke \/ ReplayReply \/ WaitTimesOutAgain \/ JudgeAnswer
           \/ AcceptOutput \/ ReopenRepair \/ CallMember \/ Crash \/ UNCHANGED vars
  <2>1. UNCHANGED <<journal, records, substitute>>
    BY <1>9 DEF ReopenTerminal, RecoverEnding, RecoverTurn, RecoverNothing, EnterLoop, RefuseTurn,
      Invoke, ReplayReply, WaitTimesOutAgain, JudgeAnswer, AcceptOutput, ReopenRepair, CallMember,
      Crash, vars, setting
  <2> QED
    BY <2>1, RecordSame
<1> QED
  BY <1>1, <1>2, <1>3, <1>4, <1>5, <1>6, <1>7, <1>8, <1>9 DEF Next, Work

\* A step that leaves journals and call alone.
LEMMA TurnSame ==
  ASSUME TurnInv, UNCHANGED <<journal, call>>
  PROVE  TurnInv'
<1>1. UNCHANGED <<log, opened, reply, pc, run, turn, asked, spent>>
  BY DEF journal, call
<1>2. Prior(run)' = Prior(run) /\ Projected(run)' = Projected(run) /\ (Pending' <=> Pending)
  BY <1>1 DEF Prior, Projected, Since, IsTurnEnd, Pending
<1> QED
  BY <1>1, <1>2 DEF TurnInv

\* A step that leaves the turn.
LEMMA TurnOver ==
  ASSUME pc' \notin InTurn \cup {"judging"}, pc' = "claimed" => spent' = 0
  PROVE  TurnInv'
  BY SMT DEF TurnInv, InTurn, Before, Asking

\* A step within a turn leaves the turns that others spent alone.
LEMMA SamePrior ==
  ASSUME TypeOK, run \in Agents, run' = run,
         \A r \in Runs \ {run} : log'[r] = log[r]
  PROVE  Prior(run)' = Prior(run)
  BY DEF Prior, Agents, Runs

\* Every step keeps the counts of the turn.
LEMMA TurnStep ==
  ASSUME IInv, [Next]_vars
  PROVE  TurnInv'
<1> USE DEF IInv
<1> DEFINE s == log[run]
           o == opened[run]
           p == reply[run]
           now == Prior(run) + Answers(s)
<1>1. CASE \/ SealOversized \/ ReopenTerminal \/ SealInterrupted \/ RecoverEnding \/ RecoverNothing
           \/ BlockedByHealth \/ RefuseTurn \/ PreparationFails \/ RecordFailure \/ BoundaryFails
           \/ WaitTimesOutAgain \/ RecordTimeout \/ RejectSecret \/ Validate \/ Finish \/ SealUsage
           \/ AcceptOutput \/ WriteRepair \/ ReopenRepair \/ CallMember \/ Crash
  <2>1. \/ pc' \in {"idle", "ending", "returned", "validating", "accepting"}
        \/ pc' = "claimed" /\ spent' = 0
    <3>1. CASE SealOversized \/ SealUsage \/ RecoverEnding
      BY <3>1 DEF SealOversized, RecoverEnding, SealUsage, Leave, Forget, Goto
    <3>2. CASE RecoverNothing \/ PreparationFails \/ AcceptOutput \/ ReopenRepair \/ Crash
      BY <3>2 DEF RecoverNothing, PreparationFails, AcceptOutput, ReopenRepair, Crash, Leave, Forget
    <3>3. CASE ReopenTerminal \/ SealInterrupted \/ Validate \/ Finish \/ WriteRepair \/ CallMember
      BY <3>3 DEF ReopenTerminal, SealInterrupted, Validate, Finish, WriteRepair, CallMember, Goto
    <3>4. CASE \/ BlockedByHealth \/ RefuseTurn \/ RecordFailure \/ BoundaryFails
               \/ WaitTimesOutAgain \/ RecordTimeout \/ RejectSecret
      BY <3>4 DEF BlockedByHealth, RefuseTurn, RecordFailure, BoundaryFails, WaitTimesOutAgain,
        RecordTimeout, RejectSecret
    <3> QED
      BY <1>1, <3>1, <3>2, <3>3, <3>4
  <2> QED
    BY <2>1, TurnOver, SMT DEF InTurn, Before, Asking
<1>2. CASE AuthorizeReplacement \/ AuthorizeRepair \/ StartRepair \/ UNCHANGED vars
  BY <1>2, TurnSame DEF AuthorizeReplacement, AuthorizeRepair, StartRepair, vars
<1>3. CASE StartRun
  <2>1. /\ run \in Agents /\ status[run] = "none" /\ run' = run /\ spent' = 0 /\ pc' = "admitting"
        /\ turn' = Prior(run) + 1 /\ UNCHANGED <<log, opened, reply>>
    BY <1>3 DEF StartRun, Opens, TypeOK, Runs, Agents, journal, TurnInv
  <2>2. s = <<>> /\ o = {} /\ p = Nothing
    BY <2>1, Own DEF RecordInv, Nothing
  <2>3. Answers(s) = 0 /\ Sent(s) = 0 /\ Doubts(s) = 0
    BY <2>2, EmptyCounts DEF Answers, Sent, Doubts
  <2>4. Prior(run)' = Prior(run) /\ Prior(run) \in Nat
    BY <2>1, SamePrior, Own
  <2>5. \A n : Fruitless(p, n)
    BY <2>2 DEF Fruitless, Nothing, Valid
  <2>6. ~Pending'
    BY <2>1, <2>2 DEF Pending, Nothing
  <2>7. turn' = Prior(run)' + Answers(log'[run']) + 1
    BY <2>1, <2>3, <2>4, SMT
  <2> QED
    BY <2>1, <2>3, <2>5, <2>6, <2>7, SMT DEF TurnInv, InTurn, Before, Asking
<1>4. CASE RecoverTurn
  <2>1. /\ run \in Agents /\ Reading(run) = "open" /\ run' = run /\ pc' = "admitting"
        /\ turn' = Prior(run) + Groups(run) + 1 /\ UNCHANGED <<log, opened, reply>>
        /\ spent' = IF Trailing(run) # {} /\ PendingReply(run) THEN Projected(run)
                                                              ELSE Attempts(run)
    BY <1>4 DEF RecoverTurn, Recovering, Opens, TypeOK, Runs, Agents, journal
  <2>2. /\ run \in Runs /\ log \in [Runs -> Seq(Events)] /\ Journal(s, o, p, Prior(run))
        /\ Prior(run) \in Nat /\ Answers(s) \in Nat /\ Sent(s) \in Nat /\ o \in SUBSET Turns
        /\ Cardinality(Fresh(s)) \in Nat
    BY <2>1, Own
  <2>3. /\ ~HasOutput(run) /\ Groups(run) = Answers(s) /\ Doubts(s) = 0
        /\ \A i \in Since(run) : s[i] = "dispatched" => i \in Fresh(s)
        /\ \/ Trailing(run) = {} /\ Projected(run) = Sent(s)
           \/ Trailing(run) # {} /\ PendingReply(run)
           \/ Last(s) = "safe"
    BY <2>1, <2>2, ReadingOpen
  <2>4. Attempts(run) = Sent(s)
    BY <2>2, <2>3, AttemptsOf
  <2>5. /\ Projected(run) \in Nat /\ Projected(run) =< Sent(s)
        /\ Fresh(s) = {} => Projected(run) = Sent(s)
        /\ Sent(s) =< Projected(run) + Cardinality(Fresh(s))
    BY <2>2, <2>3, ProjectedBound
  <2>6. turn' = now + 1 /\ Prior(run)' = Prior(run) /\ Projected(run)' = Projected(run)
    <3>1. turn' = Prior(run) + Answers(s) + 1
      BY <2>1, <2>3
    <3>2. Projected(run)' = Projected(run)
      BY <2>1 DEF Projected, Since, IsTurnEnd
    <3> QED
      BY <2>1, <3>1, <3>2, SamePrior
  <2>7. Fruitless(p, turn')
    <3>1. SUFFICES ASSUME NEW m \in Turns, m < turn' PROVE p[m] \notin Valid
      BY DEF Fruitless
    <3>2. m < now \/ m = now
      BY <2>2, <2>6, <3>1, SMT DEF Turns
    <3>3. CASE m < now
      BY <2>2, <3>3 DEF Journal, Fruitless
    <3>4. CASE m = now /\ Answers(s) = 0
      <4>1. m = Prior(run)
        BY <2>2, <3>4, SMT
      <4>2. m \notin o
        BY <2>2, <4>1, SMT DEF Journal
      <4>3. p[m] = "none"
        BY <2>2, <4>2 DEF Journal
      <4> QED
        BY <4>3 DEF Valid
    <3>5. CASE m = now /\ Answers(s) # 0
      <4>1. Groups(run) > 0 /\ Output(run) = p[m]
        BY <2>2, <2>3, <3>5, SMT DEF Output
      <4> QED
        BY <2>3, <4>1 DEF HasOutput
    <3> QED
      BY <3>2, <3>3, <3>4, <3>5
  <2>8. spent' =< Sent(s)
    BY <2>1, <2>2, <2>4, <2>5, SMT
  <2>9. turn' \notin o => spent' = Sent(s)
    <3>1. turn' \notin o => Fresh(s) = {}
      BY <2>2, <2>6 DEF Journal
    <3> QED
      BY <2>1, <2>4, <2>5, <3>1
  <2>10. Pending' => spent' = Projected(run)' /\ Sent(s) =< spent' + MaxAttempts
    <3>1. SUFFICES ASSUME Pending' PROVE spent' = Projected(run) /\ Sent(s) =< spent' + MaxAttempts
      BY <2>6
    <3>2. turn' \in Turns /\ p[turn'] # "none"
      BY <2>1, <3>1 DEF Pending
    <3>3. Last(s) # "safe"
      BY <2>2, <2>6, <3>2 DEF Journal
    <3>4. spent' = Projected(run)
      BY <2>1, <2>3, <2>4, <3>3
    <3>5. Cardinality(Fresh(s)) =< MaxAttempts
      BY <2>2 DEF Journal
    <3> QED
      BY <2>2, <2>5, <3>4, <3>5, TriageRunAssumption, SMT
  <2> QED
    BY <2>1, <2>3, <2>6, <2>7, <2>8, <2>9, <2>10, SMTT(30) DEF TurnInv, InTurn, Before, Asking
<1>5. ASSUME pc \in InTurn
      PROVE  /\ run \in Agents /\ turn = now + 1 /\ Fruitless(p, turn) /\ Doubts(s) = 0
             /\ spent =< Sent(s)
             /\ Answers(s) \in Nat /\ Sent(s) \in Nat /\ Prior(run) \in Nat
             /\ s \in Seq(Events) /\ Cardinality(Fresh(s)) \in Nat
             /\ Journal(s, o, p, Prior(run))
  <2>1. run \in Agents
    BY <1>5 DEF Position
  <2> QED
    BY <1>5, <2>1, Own DEF TurnInv
<1>6. CASE EnterLoop
  <2>1. /\ pc = "admitting" /\ pc' = "preparing"
        /\ UNCHANGED <<run, turn, asked, spent, log, opened, reply>>
    BY <1>6 DEF EnterLoop, Goto, journal
  <2>2. Prior(run)' = Prior(run) /\ Projected(run)' = Projected(run) /\ (Pending' <=> Pending)
    BY <2>1 DEF Prior, Projected, Since, IsTurnEnd, Pending
  <2> QED
    BY <2>1, <2>2, SMTT(30) DEF TurnInv, InTurn, Before, Asking
<1>7. CASE Invoke
  <2>1. /\ pc = "preparing" /\ pc' = "invoking" /\ turn \in Turns
        /\ asked' = IF Pending THEN Attempts(run) - Projected(run) ELSE 0
        /\ UNCHANGED <<run, turn, spent, log, opened, reply>>
    BY <1>7 DEF Invoke, journal
  <2>2. Prior(run)' = Prior(run) /\ (Pending' <=> Pending)
    BY <2>1 DEF Prior, Pending
  <2>3. /\ run \in Agents /\ turn = now + 1 /\ Fruitless(p, turn) /\ Doubts(s) = 0
        /\ spent =< Sent(s) /\ Sent(s) \in Nat
    BY <1>5, <2>1 DEF InTurn, Before
  <2>4. Attempts(run) = Sent(s) /\ Projected(run) \in Nat
    BY <2>3, AttemptsOf, ProjectedBound, Own
  <2>5. /\ turn \notin o => spent = Sent(s)
        /\ Pending => spent = Projected(run)
    BY <2>1 DEF TurnInv
  <2>6. Pending \/ turn \notin o => spent + asked' = Sent(s)
    BY <2>1, <2>3, <2>4, <2>5, SMT
  <2> QED
    BY <2>1, <2>2, <2>3, <2>6, SMTT(30) DEF TurnInv, InTurn, Before, Asking
<1>8. CASE OpenRequest
  <2>1. /\ pc = "invoking" /\ pc' = "requesting" /\ ~Pending /\ turn \notin o
        /\ opened' = [opened EXCEPT ![run] = @ \cup {turn}]
        /\ UNCHANGED <<run, turn, asked, spent, log, reply>>
    BY <1>8 DEF OpenRequest, Goto
  <2>2. /\ run \in Agents /\ turn = now + 1 /\ Fruitless(p, turn) /\ Doubts(s) = 0
        /\ spent =< Sent(s) /\ Journal(s, o, p, Prior(run))
    BY <1>5, <2>1 DEF InTurn, Before
  <2>3. turn \in Turns /\ asked = 0 /\ spent + asked = Sent(s) /\ p[turn] = "none"
    BY <2>1 DEF TurnInv, InTurn, Before, Pending
  <2>4. turn \in opened'[run]
    BY <2>1, <2>2, Own DEF TypeOK
  <2>5. asked = Cardinality(Fresh(s))
    <3>1. Fresh(s) = {}
      BY <2>1, <2>2 DEF Journal
    <3> QED
      BY <2>2, <2>3, <3>1, Own
  <2>6. Prior(run)' = Prior(run)
    BY <2>1 DEF Prior
  <2> QED
    BY <2>1, <2>2, <2>3, <2>4, <2>5, <2>6, SMTT(30) DEF TurnInv, InTurn, Before, Asking
<1>9. CASE ReplayReply
  <2>1. /\ pc = "invoking" /\ pc' = "replied" /\ Pending
        /\ UNCHANGED <<run, turn, asked, spent, log, opened, reply>>
    BY <1>9 DEF ReplayReply, Goto, journal
  <2>2. Prior(run)' = Prior(run) /\ p[turn] # "none"
    BY <2>1 DEF Prior, Pending
  <2> QED
    BY <2>1, <2>2, SMTT(30) DEF TurnInv, InTurn, Before, Asking
<1>10. ASSUME NEW e \in Events, Write(e), run' = run, pc \in InTurn, UNCHANGED <<opened, reply>>
       PROVE  /\ log'[run] = Append(s, e) /\ Prior(run)' = Prior(run)
              /\ Answers(log'[run]) = IF e = "answered" THEN Answers(s) + 1 ELSE Answers(s)
              /\ Sent(log'[run]) = IF e = "dispatched" THEN Sent(s) + 1 ELSE Sent(s)
              /\ e \notin Ambiguous => Doubts(log'[run]) = 0
              /\ Last(log'[run]) = e /\ log'[run] # <<>>
  <2>1. /\ log'[run] = Append(s, e)
        /\ \A r \in Runs \ {run} : log'[r] = log[r]
    BY <1>10, WriteFacts
  <2>2. run \in Agents /\ s \in Seq(Events) /\ Doubts(s) = 0
    BY <1>5, <1>10
  <2> QED
    BY <1>10, <2>1, <2>2, SamePrior, AppendCounts, AppendSeq
<1>11. CASE Dispatch
  <2>1. /\ pc \in {"requesting", "retrying"} /\ Write("dispatched") /\ pc' = "attempted"
        /\ asked' = asked + 1 /\ UNCHANGED <<run, turn, spent, opened, reply>>
    BY <1>11 DEF Dispatch
  <2>2. /\ turn = now + 1 /\ Fruitless(p, turn) /\ spent =< Sent(s) /\ Sent(s) \in Nat
        /\ s \in Seq(Events) /\ Cardinality(Fresh(s)) \in Nat
    BY <1>5, <2>1 DEF InTurn, Asking
  <2>3. /\ turn \in Turns /\ turn \in o /\ p[turn] = "none"
        /\ spent + asked = Sent(s) /\ asked = Cardinality(Fresh(s))
    BY <2>1 DEF TurnInv, InTurn, Asking
  <2>4. /\ log'[run] = Append(s, "dispatched") /\ Prior(run)' = Prior(run)
        /\ Answers(log'[run]) = Answers(s) /\ Sent(log'[run]) = Sent(s) + 1
        /\ Doubts(log'[run]) = 0 /\ Last(log'[run]) = "dispatched" /\ log'[run] # <<>>
    <3>1. "dispatched" \in Events /\ "dispatched" \notin Ambiguous /\ pc \in InTurn
      BY <2>1 DEF Events, Ambiguous, InTurn, Asking
    <3> QED
      BY <1>10, <2>1, <3>1
  <2>5. Cardinality(Fresh(log'[run])) = Cardinality(Fresh(s)) + 1
    BY <2>2, <2>4, FreshAppend DEF Events
  <2>6. asked \in Nat /\ spent \in Nat
    BY DEF TypeOK
  <2>7. /\ spent + asked' = Sent(log'[run]) /\ asked' = Cardinality(Fresh(log'[run]))
        /\ asked' > 0 /\ spent =< Sent(log'[run])
    <3>1. /\ spent + (asked + 1) = Sent(s) + 1 /\ asked + 1 > 0 /\ spent =< Sent(s) + 1
      BY <2>2, <2>3, <2>6, SMT
    <3> QED
      BY <2>1, <2>3, <2>4, <2>5, <3>1
  <2> QED
    BY <2>1, <2>2, <2>3, <2>4, <2>7, SMTT(30) DEF TurnInv, InTurn, Before, Asking
<1>12. CASE EndAttempt
  <2>1. PICK e \in {"safe", "regenerable", "refused", "unknown"} :
          /\ Write(e)
          /\ \/ pc' = "retrying" /\ e \in {"safe", "regenerable"}
                /\ (e = "regenerable" => ~Already(s, "regenerable"))
             \/ pc' = "faulted"
    BY <1>12 DEF EndAttempt, AttemptRetried, AttemptFails, Goto
  <2>2. pc = "attempted" /\ UNCHANGED <<run, turn, asked, spent, opened, reply>>
    BY <1>12 DEF EndAttempt, AttemptRetried, AttemptFails, Goto
  <2>3. /\ turn = now + 1 /\ Fruitless(p, turn) /\ spent =< Sent(s) /\ s \in Seq(Events)
    BY <1>5, <2>2 DEF InTurn, Asking
  <2>4. /\ turn \in Turns /\ turn \in o /\ p[turn] = "none"
        /\ spent + asked = Sent(s) /\ asked = Cardinality(Fresh(s)) /\ asked > 0
        /\ s # <<>> /\ Last(s) = "dispatched"
    BY <2>2 DEF TurnInv, InTurn, Asking
  <2>5. /\ log'[run] = Append(s, e) /\ Prior(run)' = Prior(run)
        /\ Answers(log'[run]) = Answers(s) /\ Sent(log'[run]) = Sent(s)
        /\ Doubts(log'[run]) = 0 /\ Last(log'[run]) = e
    <3>1. e \in Events /\ e \notin Ambiguous /\ pc \in InTurn /\ e \notin {"answered", "dispatched"}
      BY <2>1, <2>2 DEF Events, Failed, Ambiguous, InTurn, Asking
    <3> QED
      BY <1>10, <2>1, <2>2, <3>1
  <2>6. Fresh(log'[run]) = Fresh(s)
    BY <2>1, <2>3, <2>5, FreshAppend DEF Events, Failed
  <2>7. ASSUME pc' = "retrying"
        PROVE  Refused(log'[run])
    <3> DEFINE t == Append(s, e)
    <3>0. e \in Events
      BY <2>1 DEF Events, Failed
    <3>1. /\ Len(s) \in Nat /\ Len(t) = Len(s) + 1 /\ DOMAIN s = 1..Len(s)
          /\ \A i \in 1..Len(s) : t[i] = s[i]
      BY <2>3, <3>0, AppendSeq
    <3>2. Len(s) > 0
      BY <2>3, <2>4, SMT
    <3> HIDE DEF t
    <3>3. Len(t) > 1 /\ Len(t) - 1 = Len(s) /\ t[Len(t) - 1] = "dispatched"
      BY <2>4, <3>1, <3>2, SMT DEF Last
    <3>4. e \in {"safe", "regenerable"} /\ (e = "regenerable" => ~Already(s, "regenerable"))
      BY <2>1, <2>7
    <3>5. \A n \in 1..Len(s) : SameTurn(t, n, Len(s)) => SameTurn(s, n, Len(s))
      BY <3>1, SMT DEF SameTurn
    <3>6. e = "regenerable" =>
            \A n \in 1..Len(s) : t[n] = "regenerable" => ~SameTurn(t, n, Len(s))
      BY <3>1, <3>4, <3>5 DEF Already
    <3> QED
      BY <2>5, <3>3, <3>4, <3>6 DEF Refused, t
  <2>8. pc' = "retrying" =>
          LET t == log'[run] IN
            /\ Len(t) > 1 /\ t[Len(t) - 1] = "dispatched"
            /\ Last(t) \in {"safe", "regenerable"}
            /\ Last(t) = "regenerable" =>
                 \A n \in 1..Len(t) - 1 : t[n] = "regenerable" => ~SameTurn(t, n, Len(t) - 1)
    BY <2>7 DEF Refused
  <2> HIDE DEF s, o, p
  <2>9. CASE pc' = "retrying"
    BY <2>2, <2>3, <2>4, <2>5, <2>6, <2>8, <2>9, SMTT(30) DEF TurnInv, InTurn, Before, Asking, o, p
  <2>10. CASE pc' = "faulted"
    BY <2>2, <2>3, <2>4, <2>5, <2>10, SMTT(30) DEF TurnInv, InTurn, Before, Asking, o, p
  <2> QED
    BY <2>1, <2>9, <2>10
<1>13. CASE ReceiveReply
  <2>1. PICK content \in Contents :
          /\ reply' = [reply EXCEPT ![run][turn] = content]
          /\ pc = "attempted" /\ pc' = "replied"
          /\ UNCHANGED <<run, turn, asked, spent, log, opened>>
    BY <1>13 DEF ReceiveReply, Goto
  <2>2. /\ run \in Agents /\ turn = now + 1 /\ Fruitless(p, turn) /\ Doubts(s) = 0 /\ spent =< Sent(s)
    BY <1>5, <2>1 DEF InTurn, Asking
  <2>3. turn \in Turns /\ spent + asked = Sent(s)
    BY <2>1 DEF TurnInv, InTurn, Asking
  <2>4. /\ reply'[run][turn] = content
        /\ \A n \in Turns \ {turn} : reply'[run][n] = p[n]
    BY <2>1, <2>2, <2>3, Own DEF TypeOK
  <2>5. content # "none"
    BY DEF Contents
  <2>6. Fruitless(reply'[run], turn)
    BY <2>2, <2>3, <2>4, SMT DEF Fruitless, Turns
  <2>7. Prior(run)' = Prior(run)
    BY <2>1 DEF Prior
  <2> QED
    BY <2>1, <2>2, <2>3, <2>4, <2>5, <2>6, <2>7, SMTT(30) DEF TurnInv, InTurn, Before, Asking
<1>14. CASE WaitTimesOut
  <2>1. /\ pc \in Waits /\ Write("timedout") /\ pc' = "late"
        /\ UNCHANGED <<run, turn, asked, spent, opened, reply>>
    BY <1>14 DEF WaitTimesOut, Goto
  <2>2. pc \in InTurn \ {"admitting", "preparing"}
    BY <2>1 DEF Waits, InTurn, Before, Asking
  <2>3. turn = now + 1 /\ Fruitless(p, turn) /\ spent =< Sent(s)
    BY <1>5, <2>2
  <2>4. turn \in Turns /\ (asked > 0 => spent + asked = Sent(s))
    <3>1. asked = 0 => ~(asked > 0)
      BY SMT
    <3> QED
      BY <2>1, <2>2, <3>1 DEF TurnInv, Waits, Asking
  <2>5. /\ Prior(run)' = Prior(run)
        /\ Answers(log'[run]) = Answers(s) /\ Sent(log'[run]) = Sent(s) /\ Doubts(log'[run]) = 0
    <3>1. "timedout" \in Events /\ "timedout" \notin Ambiguous
      BY DEF Events, Failed, Ambiguous
    <3> QED
      BY <1>10, <2>1, <2>2, <3>1
  <2> QED
    BY <2>1, <2>3, <2>4, <2>5, SMTT(30) DEF TurnInv, InTurn, Before, Asking
<1>15. CASE ProjectAnswer
  <2>1. /\ pc = "replied" /\ Write("answered") /\ pc' = "judging" /\ spent' = spent + asked
        /\ UNCHANGED <<run, turn, asked, opened, reply>>
    BY <1>15 DEF ProjectAnswer
  <2>2. /\ turn = now + 1 /\ Journal(s, o, p, Prior(run))
        /\ Answers(s) \in Nat /\ Prior(run) \in Nat
    BY <1>5, <2>1 DEF InTurn
  <2>3. turn \in Turns /\ spent + asked = Sent(s)
    BY <2>1 DEF TurnInv, InTurn
  <2>4. /\ Prior(run)' = Prior(run) /\ Answers(log'[run]) = Answers(s) + 1
        /\ Sent(log'[run]) = Sent(s) /\ Doubts(log'[run]) = 0
        /\ Last(log'[run]) = "answered" /\ log'[run] # <<>>
    <3>1. "answered" \in Events /\ "answered" \notin Ambiguous /\ pc \in InTurn
      BY <2>1 DEF Events, Ambiguous, InTurn
    <3> QED
      BY <1>10, <2>1, <3>1
  <2>5. turn = Prior(run)' + Answers(log'[run])
    BY <2>2, <2>4, SMT
  <2>6. \A n \in o : n =< turn
    BY <2>2 DEF Journal
  <2> QED
    BY <2>1, <2>3, <2>4, <2>5, <2>6, SMTT(30) DEF TurnInv, InTurn, Before, Asking
<1>16. CASE JudgeAnswer
  <2>1. /\ pc = "judging" /\ UNCHANGED <<run, asked, spent, log, opened, reply>>
        /\ \/ pc' \in {"ending", "validating"}
           \/ pc' = "preparing" /\ turn' = turn + 1 /\ p[turn] \notin Valid
    BY <1>16, SMTT(30) DEF JudgeAnswer, journal, Valid
  <2>2. CASE pc' \in {"ending", "validating"}
    BY <2>2, TurnOver, SMT DEF InTurn, Before, Asking
  <2>3. CASE pc' = "preparing" /\ turn' = turn + 1 /\ p[turn] \notin Valid
    <3>1. run \in Agents
      BY <2>1 DEF Position
    <3>2. /\ turn = now /\ turn \in Turns /\ Doubts(s) = 0 /\ spent = Sent(s)
          /\ \A n \in o : n =< turn
      BY <2>1 DEF TurnInv
    <3>3. Journal(s, o, p, Prior(run)) /\ Prior(run)' = Prior(run) /\ Sent(s) \in Nat
      BY <2>1, <3>1, Own DEF Prior
    <3>4. Fruitless(p, turn')
      <4>1. Fruitless(p, turn)
        BY <3>2, <3>3 DEF Journal
      <4>2. \A m \in Turns : m < turn' => m < turn \/ m = turn
        BY <2>3, <3>2, SMT DEF Turns
      <4> QED
        BY <2>3, <4>1, <4>2 DEF Fruitless
    <3>5. ~Pending'
      <4>1. turn' \in Turns => ~(turn' =< turn)
        BY <2>3, <3>2, SMT DEF Turns
      <4> QED
        BY <2>1, <3>2, <3>3, <4>1 DEF Pending, Journal
    <3> QED
      BY <2>1, <2>3, <3>2, <3>3, <3>4, <3>5, SMTT(30) DEF TurnInv, InTurn, Before, Asking
  <2> QED
    BY <2>1, <2>2, <2>3
<1> QED
  BY <1>1, <1>2, <1>3, <1>4, <1>6, <1>7, <1>8, <1>9, <1>11, <1>12, <1>13, <1>14, <1>15, <1>16
    DEF Next, Work

\* Of a journal whose turns gave nothing, no turn is an output.
LEMMA Barren ==
  ASSUME NEW s \in Seq(Events), NEW o, NEW p, NEW b \in Nat, Journal(s, o, p, b),
         Fruitless(p, b + Answers(s) + 1), NEW n \in Nat, n > 0, n =< Answers(s)
  PROVE  p[b + n] \notin Valid
<1>1. Answers(s) \in Nat /\ b + Answers(s) =< MaxTurns
  BY AppendCounts DEF Journal, Events
<1>2. b + n \in Turns /\ b + n < b + Answers(s) + 1
  BY <1>1, TriageRunAssumption, SMT DEF Turns
<1> QED
  BY <1>2 DEF Fruitless

\* Turns that a journal's partition finds are answered turns.
LEMMA GroupsOf ==
  ASSUME NEW s \in Seq(Events)
  PROVE  LET G == {i \in DOMAIN s : s[i] = "answered" /\ \A k \in 1..i : Chained(s, k)}
         IN  Cardinality(G) \in Nat /\ Cardinality(G) =< Answers(s)
<1> DEFINE G == {i \in DOMAIN s : s[i] = "answered" /\ \A k \in 1..i : Chained(s, k)}
           A == {i \in DOMAIN s : s[i] \in {"answered"}}
<1>1. G \subseteq A
  OBVIOUS
<1>2. IsFiniteSet(A)
  BY CountType
<1> QED
  BY <1>1, <1>2, FS_Subset, FS_CardinalityType DEF Answers, Count

\* A run whose replies are no output has none after the step either.
LEMMA StillBarren ==
  ASSUME JournalInv', run \in Agents, run' = run, log'[run] \in Seq(Events),
         Prior(run)' \in Nat,
         Fruitless(reply'[run], Prior(run)' + Answers(log'[run]) + 1)
  PROVE  ~HasOutput(run)'
<1> DEFINE s == log'[run]
           G == {i \in DOMAIN s : s[i] = "answered" /\ \A k \in 1..i : Chained(s, k)}
           n == Cardinality(G)
           b == Prior(run)'
           p == reply'[run]
<1>1. Groups(run)' = n
  BY DEF Groups, IsTurnEnd
<1>2. n \in Nat /\ n =< Answers(s)
  BY GroupsOf
<1>3. Journal(s, opened'[run], p, b)
  BY DEF JournalInv
<1>4. HasOutput(run)' <=> n > 0 /\ p[b + n] \in Valid
  BY <1>1 DEF HasOutput, Output
<1>5. b \in Nat /\ s \in Seq(Events) /\ Fruitless(p, b + Answers(s) + 1)
  OBVIOUS
<1> HIDE DEF s, n, b, p
<1>6. ASSUME n > 0 PROVE p[b + n] \notin Valid
  BY <1>2, <1>3, <1>5, <1>6, Barren
<1> QED
  BY <1>4, <1>6

\* A step that leaves journals, call and records alone.
LEMMA EndSame ==
  ASSUME EndInv, UNCHANGED <<journal, call, status>>
  PROVE  EndInv'
<1>1. UNCHANGED <<log, opened, reply, pc, run, spent, verdict, status>>
  BY DEF journal, call
<1>2. \A r : Prior(r)' = Prior(r)
  BY <1>1 DEF Prior
<1>3. Attempts(run)' = Attempts(run) /\ (HasOutput(run)' <=> HasOutput(run))
  BY <1>1, <1>2 DEF Attempts, HasOutput, Output, Groups, IsTurnEnd
<1> QED
  BY <1>1, <1>3 DEF EndInv

\* A step that does not reach an end.
LEMMA EndOver ==
  ASSUME pc' \notin {"validating", "ending"} \cup Done
  PROVE  EndInv'
  BY DEF EndInv

\* A run that is about to end otherwise than with an output.
LEMMA EndOpen ==
  ASSUME pc' = "ending", run' = run,
         run \in Agents => /\ Exact(log'[run], verdict') => spent' = Attempts(run)'
                           /\ verdict' = "human" => log'[run] # <<>>
                           /\ verdict' \in {"failed", "human"} => ~HasOutput(run)'
  PROVE  EndInv'
  BY DEF EndInv, Done

\* Every step seals what the journal says.
LEMMA EndStep ==
  ASSUME IInv, [Next]_vars, JournalInv'
  PROVE  EndInv'
<1> USE DEF IInv
<1> DEFINE s == log[run]
           o == opened[run]
           p == reply[run]
           now == Prior(run) + Answers(s)
<1>1. CASE \/ StartRun \/ RecoverTurn \/ EnterLoop \/ Invoke \/ OpenRequest \/ ReplayReply
           \/ Dispatch \/ EndAttempt \/ ReceiveReply \/ WaitTimesOut \/ ProjectAnswer
           \/ RecoverNothing \/ PreparationFails \/ AcceptOutput \/ ReopenRepair
           \/ CallMember \/ Crash
  <2>1. pc' \in {"idle", "claimed"} \cup InTurn \cup {"judging"}
    <3>1. CASE \/ StartRun \/ RecoverTurn \/ EnterLoop \/ Invoke \/ OpenRequest \/ ReplayReply
      BY <3>1 DEF StartRun, RecoverTurn, EnterLoop, Invoke, OpenRequest, ReplayReply, Goto,
        InTurn, Before, Asking
    <3>2. CASE \/ Dispatch \/ EndAttempt \/ ReceiveReply \/ WaitTimesOut \/ ProjectAnswer
      BY <3>2 DEF Dispatch, EndAttempt, AttemptRetried, AttemptFails, ReceiveReply, WaitTimesOut,
        ProjectAnswer, Goto, InTurn, Asking
    <3>3. CASE \/ RecoverNothing \/ PreparationFails \/ AcceptOutput \/ ReopenRepair
               \/ CallMember \/ Crash
      BY <3>3 DEF RecoverNothing, PreparationFails, AcceptOutput, ReopenRepair, CallMember, Crash,
        Leave, Forget
    <3> QED
      BY <1>1, <3>1, <3>2, <3>3
  <2> QED
    BY <2>1, EndOver DEF InTurn, Before, Asking, Done
<1>2. CASE AuthorizeReplacement \/ AuthorizeRepair \/ UNCHANGED vars
  BY <1>2, EndSame DEF AuthorizeReplacement, AuthorizeRepair, vars, records
<1>3. CASE StartRepair
  BY <1>3, EndOver DEF StartRepair, call, Done
<1>4. CASE SealOversized
  <2>1. CASE Ended(run)
    BY <1>4, <2>1, EndOver DEF SealOversized, Leave, Forget, Done
  <2>2. CASE ~Ended(run)
    <3>1. pc' = "ending" /\ verdict' = "budget" /\ run' = run
      BY <1>4, <2>2 DEF SealOversized
    <3> QED
      BY <3>1, EndOpen DEF Exact
  <2> QED
    BY <2>1, <2>2
<1>5. CASE RefuseTurn
  <2>1. pc' = "ending" /\ verdict' = "budget" /\ run' = run
    BY <1>5 DEF RefuseTurn
  <2> QED
    BY <2>1, EndOpen DEF Exact
<1>6. CASE WriteRepair
  <2>1. pc' = "ending" /\ run' = run /\ run \notin Agents
    BY <1>6 DEF WriteRepair, Agents
  <2> QED
    BY <2>1, EndOpen
<1>7. CASE ReopenTerminal
  <2>1. pc' = "returned" /\ run' = run /\ spent' = Attempts(run) /\ log' = log
    BY <1>7 DEF ReopenTerminal, journal
  <2>2. Attempts(run)' = Attempts(run)
    BY <2>1 DEF Attempts
  <2> QED
    BY <2>1, <2>2 DEF EndInv
<1>8. CASE SealUsage
  <2>1. \/ pc' = "idle"
        \/ pc = "returned" /\ pc' = "accepting" /\ UNCHANGED <<run, spent, log, status>>
    BY <1>8, SMTT(30) DEF SealUsage, Goto, Leave, Forget, journal
  <2>2. CASE pc' = "idle"
    BY <2>2, EndOver DEF Done
  <2>3. CASE pc = "returned" /\ pc' = "accepting" /\ UNCHANGED <<run, spent, log, status>>
    <3>1. Attempts(run)' = Attempts(run)
      BY <2>3 DEF Attempts
    <3> QED
      BY <2>3, <3>1 DEF EndInv, Done
  <2> QED
    BY <2>1, <2>2, <2>3
<1>9. CASE Finish
  <2>1. /\ pc = "ending" /\ pc' = "returned" /\ UNCHANGED <<run, spent, log>>
        /\ status' = [status EXCEPT ![run] = verdict]
    BY <1>9 DEF Finish, Goto, journal
  <2>2. status'[run] = verdict
    BY <2>1 DEF TypeOK
  <2>3. Attempts(run)' = Attempts(run)
    BY <2>1 DEF Attempts
  <2> QED
    BY <2>1, <2>2, <2>3 DEF EndInv
<1>10. CASE Validate
  <2>1. /\ pc = "validating" /\ Write("validated") /\ pc' = "ending"
        /\ UNCHANGED <<run, spent, verdict>>
    BY <1>10 DEF Validate, Goto
  <2>2. run \in Agents /\ verdict = "completed" /\ spent = Attempts(run)
    BY <2>1 DEF Position, EndInv
  <2>3. log'[run] = Append(s, "validated") /\ s \in Seq(Events)
    BY <2>1, <2>2, WriteFacts, Own DEF Events
  <2>4. Sent(log'[run]) = Sent(s) /\ Doubts(log'[run]) = Doubts(s)
    BY <2>3, AppendCounts DEF Events, Ambiguous
  <2>5. Attempts(run)' = Attempts(run)
    BY <2>1, <2>4 DEF Attempts, Sent, Doubts
  <2> QED
    BY <2>1, <2>2, <2>5, EndOpen
<1>11. CASE RecoverEnding
  <2>1. /\ run \in Agents /\ Reading(run) \in {"completed", "failed", "human"} /\ run' = run
        /\ pc' = (IF Reading(run) = "completed" THEN "validating" ELSE "ending")
        /\ verdict' = Reading(run) /\ spent' = Attempts(run) /\ UNCHANGED <<log, opened, reply>>
    BY <1>11 DEF RecoverEnding, Recovering, Opens, TypeOK, Runs, Agents, journal
  <2>2. /\ Reading(run) \in {"failed", "human"} => ~HasOutput(run)
        /\ Reading(run) = "human" => s # <<>>
        /\ Reading(run) = "completed" => Doubts(s) = 0
    BY <2>1, Own, ReadingEnds
  <2>3. Prior(run)' = Prior(run)
    BY <2>1 DEF Prior
  <2>4. Attempts(run)' = Attempts(run) /\ (HasOutput(run)' <=> HasOutput(run))
    BY <2>1, <2>3 DEF Attempts, HasOutput, Output, Groups, IsTurnEnd
  <2>5. CASE Reading(run) = "completed"
    BY <2>1, <2>2, <2>4, <2>5 DEF EndInv, Done
  <2>6. CASE Reading(run) # "completed"
    <3>1. pc' = "ending" /\ verdict' \in {"failed", "human"}
      BY <2>1, <2>6
    <3> QED
      BY <2>1, <2>2, <2>4, <3>1, EndOpen
  <2> QED
    BY <2>5, <2>6
<1>12. ASSUME NEW e \in Events, Write(e), run' = run, run \in Agents, UNCHANGED <<opened, reply>>
       PROVE  /\ log'[run] = Append(s, e) /\ log'[run] \in Seq(Events) /\ log'[run] # <<>>
              /\ Prior(run)' = Prior(run) /\ Prior(run) \in Nat
              /\ e \notin {"answered", "dispatched"} => /\ Answers(log'[run]) = Answers(s)
                                                        /\ Sent(log'[run]) = Sent(s)
              /\ Last(log'[run]) = e
              /\ Sent(log'[run]) > 0 => Attempts(run)' = Sent(log'[run])
  <2>1. /\ log'[run] = Append(s, e) /\ s \in Seq(Events) /\ Prior(run) \in Nat
        /\ \A r \in Runs \ {run} : log'[r] = log[r]
    BY <1>12, WriteFacts, Own
  <2>2. Prior(run)' = Prior(run)
    BY <1>12, <2>1, SamePrior
  <2>3. Sent(log'[run]) > 0 => Attempts(run)' = Sent(log'[run])
    BY <1>12 DEF Attempts, Sent
  <2> QED
    BY <1>12, <2>1, <2>2, <2>3, AppendSeq, AppendCounts
<1>13. CASE SealInterrupted
  <2>1. /\ run \in Agents /\ Unresolved(run) /\ Write("interrupted") /\ run' = run
        /\ pc' = "ending" /\ verdict' = "human" /\ spent' = Attempts(run)
        /\ UNCHANGED <<opened, reply>>
    BY <1>13 DEF SealInterrupted, Opens, TypeOK, Runs, Agents
  <2>2. /\ Fresh(s) # {} /\ Sent(s) > 0 /\ Journal(s, o, p, Prior(run))
    BY <2>1, UnresolvedFresh, Own
  <2>3. /\ log'[run] \in Seq(Events) /\ log'[run] # <<>>
        /\ Prior(run)' = Prior(run) /\ Prior(run) \in Nat
        /\ Answers(log'[run]) = Answers(s) /\ Sent(log'[run]) = Sent(s)
        /\ Sent(log'[run]) > 0 => Attempts(run)' = Sent(log'[run])
    BY <2>1, <1>12 DEF Events, Ambiguous
  <2>4. Attempts(run)' = Attempts(run)
    BY <2>1, <2>2, <2>3, Own, AttemptsOf
  <2>5. Fruitless(reply'[run], Prior(run)' + Answers(log'[run]) + 1)
    BY <2>1, <2>2, <2>3 DEF Journal
  <2>6. ~HasOutput(run)'
    BY <2>1, <2>3, <2>5, StillBarren
  <2> QED
    BY <2>1, <2>3, <2>4, <2>6, EndOpen
<1>14. ASSUME pc \in InTurn, pc' = "ending", run' = run, verdict' \in {"human", "failed"},
              UNCHANGED <<opened, reply>>, NEW e \in Events \ {"answered", "dispatched"}, Write(e),
              verdict' = "human" /\ e \in {"ambiguous", "interrupted"} =>
                spent' = Sent(s) /\ Sent(s) > 0
       PROVE  EndInv'
  <2>1. run \in Agents
    BY <1>14 DEF Position
  <2>2. /\ log'[run] \in Seq(Events) /\ log'[run] # <<>>
        /\ Prior(run)' = Prior(run) /\ Prior(run) \in Nat
        /\ Answers(log'[run]) = Answers(s) /\ Sent(log'[run]) = Sent(s)
        /\ Last(log'[run]) = e
        /\ Sent(log'[run]) > 0 => Attempts(run)' = Sent(log'[run])
    BY <2>1, <1>14, <1>12
  <2>3. turn = now + 1 /\ Fruitless(p, turn)
    BY <1>14 DEF TurnInv
  <2>4. ~HasOutput(run)'
    BY <1>14, <2>1, <2>2, <2>3, StillBarren
  <2>5. Exact(log'[run], verdict') => spent' = Attempts(run)'
    BY <1>14, <2>2 DEF Exact
  <2> QED
    BY <1>14, <2>2, <2>4, <2>5, EndOpen
<1>15. CASE BlockedByHealth \/ BoundaryFails \/ RejectSecret
  <2>1. /\ pc \in InTurn /\ pc' = "ending" /\ run' = run /\ verdict' \in {"human", "failed"}
        /\ UNCHANGED <<opened, reply>>
    BY <1>15 DEF BlockedByHealth, BoundaryFails, RejectSecret, Waits, InTurn, Before, Asking
  <2>2. PICK e \in {"blocked", "orphaned", "secret"} : Write(e)
    BY <1>15 DEF BlockedByHealth, BoundaryFails, RejectSecret
  <2>3. e \in Events \ {"answered", "dispatched"} /\ e \notin {"ambiguous", "interrupted"}
    BY <2>2 DEF Events, Ambiguous
  <2> QED
    BY <1>14, <2>1, <2>2, <2>3
<1>16. CASE RecordFailure
  <2>1. /\ pc = "faulted" /\ pc' = "ending" /\ run' = run /\ verdict' = "human"
        /\ UNCHANGED <<opened, reply>> /\ spent' = spent + asked
    BY <1>16 DEF RecordFailure
  <2>2. PICK e \in {"ambiguous", "declined"} : Write(e)
    BY <1>16 DEF RecordFailure
  <2>3. spent + asked = Sent(s) /\ asked > 0
    BY <2>1 DEF TurnInv
  <2>4. Sent(s) > 0
    <3>1. spent \in Nat /\ asked \in Nat
      BY DEF TypeOK
    <3> QED
      BY <2>3, <3>1, SMT
  <2>5. e \in Events \ {"answered", "dispatched"} /\ pc \in InTurn
    BY <2>1, <2>2 DEF Events, Ambiguous, InTurn
  <2> QED
    BY <1>14, <2>1, <2>2, <2>3, <2>4, <2>5
<1>17. CASE RecordTimeout
  <2>1. /\ pc = "late" /\ pc' = "ending" /\ run' = run /\ verdict' = "human"
        /\ UNCHANGED <<opened, reply>>
        /\ spent' = spent + (IF asked > 0 THEN asked ELSE 1)
    BY <1>17 DEF RecordTimeout
  <2>2. PICK e \in {"ambiguous", "orphaned"} : Write(e) /\ (e = "ambiguous" => asked > 0)
    BY <1>17 DEF RecordTimeout
  <2>3. asked > 0 => spent' = Sent(s) /\ Sent(s) > 0
    <3>1. spent \in Nat /\ asked \in Nat
      BY DEF TypeOK
    <3>2. asked > 0 => spent + asked = Sent(s)
      BY <2>1 DEF TurnInv
    <3>3. asked > 0 => spent + asked > 0
      BY <3>1, SMT
    <3> QED
      BY <2>1, <3>2, <3>3
  <2>4. e \in Events \ {"answered", "dispatched"} /\ pc \in InTurn
    BY <2>1, <2>2 DEF Events, Ambiguous, InTurn
  <2> QED
    BY <1>14, <2>1, <2>2, <2>3, <2>4
<1>18. CASE WaitTimesOutAgain
  <2>1. /\ pc \in Waits /\ pc' = "ending" /\ run' = run /\ verdict' = "failed"
        /\ UNCHANGED <<log, opened, reply>>
    BY <1>18 DEF WaitTimesOutAgain, journal
  <2>2. pc \in InTurn
    BY <2>1 DEF Waits, InTurn, Before, Asking
  <2>3. run \in Agents /\ turn = now + 1 /\ Fruitless(p, turn)
    BY <2>2 DEF Position, TurnInv
  <2>4. Prior(run)' = Prior(run) /\ Prior(run) \in Nat /\ s \in Seq(Events)
    BY <2>1, <2>3, Own DEF Prior
  <2>5. ~HasOutput(run)'
    BY <2>1, <2>3, <2>4, StillBarren
  <2> QED
    BY <2>1, <2>5, EndOpen DEF Exact
<1>19. CASE JudgeAnswer
  <2>1. /\ pc = "judging" /\ UNCHANGED <<run, spent, log, opened, reply>>
        /\ \/ pc' = "ending" /\ verdict' = "budget"
           \/ pc' = "validating"
           \/ pc' = "ending" /\ verdict' = "failed" /\ p[turn] \notin Valid
           \/ pc' = "preparing"
    BY <1>19 DEF JudgeAnswer, journal
  <2>2. run \in Agents /\ turn = now /\ turn \in Turns /\ Doubts(s) = 0 /\ spent = Sent(s)
    BY <2>1 DEF Position, TurnInv
  <2>3. /\ s \in Seq(Events) /\ Prior(run) \in Nat /\ Journal(s, o, p, Prior(run))
        /\ Sent(s) \in Nat /\ Answers(s) \in Nat
    BY <2>2, Own
  <2>4. Prior(run)' = Prior(run)
    BY <2>1 DEF Prior
  <2>5. CASE pc' = "ending" /\ verdict' = "budget"
    BY <2>1, <2>5, EndOpen DEF Exact
  <2>6. CASE pc' = "validating"
    <3>1. Attempts(run) = Sent(s)
      <4>1. Attempts(run) = IF Sent(s) > 0 THEN Sent(s) ELSE Doubts(s)
        BY <2>2, Own, AttemptsOf
      <4> QED
        BY <2>2, <2>3, <4>1, SMT
    <3>2. Attempts(run)' = Attempts(run)
      BY <2>1 DEF Attempts
    <3> QED
      BY <2>1, <2>2, <2>6, <3>1, <3>2 DEF EndInv, Done
  <2>7. CASE pc' = "ending" /\ verdict' = "failed" /\ p[turn] \notin Valid
    <3>1. Fruitless(p, now + 1)
      <4>1. Fruitless(p, now)
        BY <2>3 DEF Journal
      <4>2. \A m \in Turns : m < now + 1 => m < now \/ m = now
        BY <2>3, SMT DEF Turns
      <4> QED
        BY <2>2, <2>7, <4>1, <4>2 DEF Fruitless
    <3>2. ~HasOutput(run)'
      BY <2>1, <2>2, <2>3, <2>4, <3>1, StillBarren
    <3> QED
      BY <2>1, <2>7, <3>2, EndOpen DEF Exact
  <2>8. CASE pc' = "preparing"
    BY <2>8, EndOver DEF Done
  <2> QED
    BY <2>1, <2>5, <2>6, <2>7, <2>8
<1> QED
  BY <1>1, <1>2, <1>3, <1>4, <1>5, <1>6, <1>7, <1>8, <1>9, <1>10, <1>11, <1>13, <1>15, <1>16,
    <1>17, <1>18, <1>19 DEF Next, Work

-----------------------------------------------------------------------------
(* Types. *)

\* The bound on what a run may be charged.
LEMMA Spendable ==
  /\ MaxTurns \in Nat /\ MaxAttempts \in Nat /\ MaxTurns * MaxAttempts \in Nat
  /\ MaxSpent \in Nat /\ MaxSpent = MaxTurns * MaxAttempts + 1
<1>1. MaxTurns \in Nat /\ MaxAttempts \in Nat
  BY TriageRunAssumption
<1>2. MaxTurns * MaxAttempts \in Nat
  BY <1>1, SMT
<1> QED
  BY <1>1, <1>2, SMT DEF MaxSpent

\* What a run is charged is bounded.
LEMMA AttemptsBound ==
  ASSUME TypeOK, JournalInv, NEW r \in Agents
  PROVE  /\ Attempts(r) \in 0..MaxSpent
         /\ Sent(log[r]) \in Nat /\ Sent(log[r]) =< MaxTurns * MaxAttempts
<1>1. log[r] \in Seq(Events) /\ opened[r] \in SUBSET Turns /\ Prior(r) \in Nat
  BY PriorValue DEF TypeOK, Agents, Runs
<1>2. Journal(log[r], opened[r], reply[r], Prior(r))
  BY DEF JournalInv
<1>3. Sent(log[r]) =< MaxTurns * MaxAttempts
  BY <1>1, <1>2, SentBound
<1>4. Sent(log[r]) = 0 => Doubts(log[r]) =< 1
  BY <1>2 DEF Journal
<1>5. /\ Attempts(r) = IF Sent(log[r]) > 0 THEN Sent(log[r]) ELSE Doubts(log[r])
      /\ Sent(log[r]) \in Nat /\ Doubts(log[r]) \in Nat
  BY AttemptsOf DEF TypeOK, Agents, Runs
<1>6. Attempts(r) \in 0..MaxSpent
  BY <1>3, <1>4, <1>5, Spendable, SMT
<1> QED
  BY <1>3, <1>5, <1>6

\* The three parts of TypeOK besides the counters.
JournalType ==
  /\ log \in [Runs -> Seq(Events)]
  /\ opened \in [Runs -> SUBSET Turns]
  /\ reply \in [Runs -> [Turns -> Contents \cup {"none"}]]
RecordType ==
  /\ status \in [Runs -> Endings \cup {"none", "running"}]
  /\ sealed \in [Runs -> 0..MaxSpent]
  /\ usage \in [Runs -> SUBSET (0..MaxSpent)]
  /\ substitute \in {"none", "replacement", "repair"} /\ oversized \in BOOLEAN
PlaceType ==
  /\ pc \in PCs /\ run \in Runs /\ verdict \in Endings \cup {"none", "open", "raised"}
  /\ crashes \in 0..MaxCrashes /\ delays \in 0..MaxDelays

\* The types of the journals.
LEMMA JournalTypeStep ==
  ASSUME TypeOK, TurnInv, [Next]_vars
  PROVE  JournalType'
<1>1. JournalType /\ run \in Runs
  BY DEF TypeOK, JournalType
<1>2. CASE UNCHANGED journal
  BY <1>1, <1>2 DEF journal, JournalType
<1>3. CASE \/ SealInterrupted \/ BlockedByHealth \/ PreparationFails \/ Dispatch \/ EndAttempt
           \/ RecordFailure \/ BoundaryFails \/ WaitTimesOut \/ RecordTimeout \/ ProjectAnswer
           \/ RejectSecret \/ Validate
  <2>1. UNCHANGED <<opened, reply>>
    BY <1>3 DEF SealInterrupted, BlockedByHealth, PreparationFails, Dispatch, EndAttempt,
      RecordFailure, BoundaryFails, WaitTimesOut, RecordTimeout, ProjectAnswer, RejectSecret,
      Validate
  <2>2. \E e \in Events : Write(e)
    <3>1. {"interrupted", "blocked", "unprepared", "dispatched", "ambiguous", "declined", "orphaned",
           "timedout", "answered", "secret", "validated", "safe", "regenerable", "refused",
           "unknown"} \subseteq Events
      BY DEF Events, Failed, Ambiguous
    <3>2. CASE \/ SealInterrupted \/ BlockedByHealth \/ PreparationFails \/ Dispatch
               \/ BoundaryFails \/ WaitTimesOut \/ ProjectAnswer \/ RejectSecret \/ Validate
      BY <3>1, <3>2 DEF SealInterrupted, BlockedByHealth, PreparationFails, Dispatch,
        BoundaryFails, WaitTimesOut, ProjectAnswer, RejectSecret, Validate
    <3>3. CASE RecordFailure
      <4>1. PICK e \in {"ambiguous", "declined"} : Write(e)
        BY <3>3 DEF RecordFailure
      <4> QED
        BY <3>1, <4>1
    <3>4. CASE RecordTimeout
      <4>1. PICK e \in {"ambiguous", "orphaned"} : Write(e)
        BY <3>4 DEF RecordTimeout
      <4> QED
        BY <3>1, <4>1
    <3>5. CASE EndAttempt
      <4>1. PICK e \in {"safe", "regenerable", "refused", "unknown"} : Write(e)
        BY <3>5 DEF EndAttempt, AttemptRetried, AttemptFails
      <4> QED
        BY <3>1, <4>1
    <3> QED
      BY <1>3, <3>2, <3>3, <3>4, <3>5
  <2>3. log' \in [Runs -> Seq(Events)]
    BY <2>2, WriteFacts
  <2> QED
    BY <1>1, <2>1, <2>3 DEF JournalType
<1>4. CASE OpenRequest
  <2>1. turn \in Turns
    BY <1>4 DEF OpenRequest, TurnInv, InTurn, Before
  <2>2. opened' = [opened EXCEPT ![run] = @ \cup {turn}] /\ UNCHANGED <<log, reply>>
    BY <1>4 DEF OpenRequest
  <2> QED
    BY <1>1, <2>1, <2>2 DEF JournalType
<1>5. CASE ReceiveReply
  <2>1. turn \in Turns
    BY <1>5 DEF ReceiveReply, TurnInv, InTurn, Asking
  <2>2. PICK c \in Contents : reply' = [reply EXCEPT ![run][turn] = c] /\ UNCHANGED <<log, opened>>
    BY <1>5 DEF ReceiveReply
  <2> QED
    BY <1>1, <2>1, <2>2 DEF JournalType
<1>6. CASE WriteRepair
  <2>1. <<"repaired">> \in Seq(Events)
    <3>1. "repaired" \in Events
      BY DEF Events
    <3> QED
      BY <3>1, SMT
  <2>2. log' = [log EXCEPT ![run] = <<"repaired">>] /\ UNCHANGED <<opened, reply>>
    BY <1>6 DEF WriteRepair
  <2> QED
    BY <1>1, <2>1, <2>2 DEF JournalType
<1>7. CASE \/ SealOversized \/ StartRun \/ ReopenTerminal \/ RecoverEnding \/ RecoverTurn
           \/ RecoverNothing \/ EnterLoop \/ RefuseTurn \/ Invoke \/ ReplayReply
           \/ WaitTimesOutAgain \/ JudgeAnswer \/ Finish \/ SealUsage \/ AcceptOutput
           \/ StartRepair \/ ReopenRepair \/ CallMember \/ Crash
           \/ AuthorizeReplacement \/ AuthorizeRepair \/ UNCHANGED vars
  <2>1. UNCHANGED journal
    BY <1>7 DEF SealOversized, StartRun, ReopenTerminal, RecoverEnding, RecoverTurn,
      RecoverNothing, EnterLoop, RefuseTurn, Invoke, ReplayReply, WaitTimesOutAgain, JudgeAnswer,
      Finish, SealUsage, AcceptOutput, StartRepair, ReopenRepair, CallMember, Crash,
      AuthorizeReplacement, AuthorizeRepair, vars
  <2> QED
    BY <1>2, <2>1
<1> QED
  BY <1>3, <1>4, <1>5, <1>6, <1>7 DEF Next, Work

\* The types of the records.
LEMMA RecordTypeStep ==
  ASSUME TypeOK, Position, [Next]_vars
  PROVE  RecordType'
<1>1. RecordType /\ run \in Runs /\ spent \in 0..MaxSpent
  BY DEF TypeOK, RecordType
<1>2. CASE \/ StartRun \/ StartRepair \/ SealOversized
  BY <1>1, <1>2 DEF StartRun, StartRepair, SealOversized, RecordType, setting
<1>3. CASE Finish
  <2>1. verdict \in Endings
    BY <1>3 DEF Finish, Position
  <2> QED
    BY <1>1, <1>3, <2>1 DEF Finish, RecordType, setting
<1>4. CASE SealUsage
  <2>1. /\ UNCHANGED <<status, sealed, substitute, oversized>>
        /\ UNCHANGED usage \/ usage' = [usage EXCEPT ![run] = {spent}]
    BY <1>4 DEF SealUsage, setting
  <2>2. {spent} \in SUBSET (0..MaxSpent)
    BY <1>1
  <2>3. usage' \in [Runs -> SUBSET (0..MaxSpent)]
    BY <1>1, <2>1, <2>2 DEF RecordType
  <2> QED
    BY <1>1, <2>1, <2>3 DEF RecordType
<1>5. CASE AuthorizeReplacement \/ AuthorizeRepair
  BY <1>1, <1>5 DEF AuthorizeReplacement, AuthorizeRepair, RecordType, records
<1>6. CASE UNCHANGED <<records, setting>>
  BY <1>1, <1>6 DEF RecordType, records, setting
<1>7. CASE \/ ReopenTerminal \/ SealInterrupted \/ RecoverEnding \/ RecoverTurn \/ RecoverNothing
           \/ BlockedByHealth \/ EnterLoop \/ RefuseTurn \/ Invoke \/ OpenRequest \/ ReplayReply
           \/ Dispatch \/ EndAttempt \/ RecordFailure \/ ReceiveReply \/ BoundaryFails
           \/ WaitTimesOut \/ WaitTimesOutAgain \/ RecordTimeout \/ ProjectAnswer \/ RejectSecret
           \/ JudgeAnswer \/ Validate \/ AcceptOutput \/ WriteRepair \/ ReopenRepair
           \/ CallMember \/ PreparationFails \/ Crash \/ UNCHANGED vars
  <2>1. UNCHANGED <<records, setting>>
    BY <1>7 DEF ReopenTerminal, SealInterrupted, RecoverEnding, RecoverTurn, RecoverNothing,
      BlockedByHealth, EnterLoop, RefuseTurn, Invoke, OpenRequest, ReplayReply, Dispatch,
      EndAttempt, RecordFailure, ReceiveReply, BoundaryFails, WaitTimesOut, WaitTimesOutAgain,
      RecordTimeout, ProjectAnswer, RejectSecret, JudgeAnswer, Validate, AcceptOutput,
      WriteRepair, ReopenRepair, CallMember, PreparationFails, Crash, vars
  <2> QED
    BY <1>6, <2>1
<1> QED
  BY <1>2, <1>3, <1>4, <1>5, <1>7 DEF Next, Work

\* The types of the position of the call.
LEMMA PlaceTypeStep ==
  ASSUME TypeOK, Position, [Next]_vars
  PROVE  PlaceType'
<1>1. PlaceType /\ TriageRunAssumption
  BY TriageRunAssumption DEF TypeOK, PlaceType
<1>2. ASSUME UNCHANGED bounds, run' \in {run, "original"}, pc' \in PCs,
             verdict' \in Endings \cup {"none", "open", "raised"}
      PROVE  PlaceType'
  BY <1>1, <1>2 DEF PlaceType, bounds, Runs
<1>3. CASE \/ SealOversized \/ RecoverNothing \/ AcceptOutput \/ ReopenRepair
  <2>1. UNCHANGED bounds /\ run' \in {run, "original"}
    BY <1>3 DEF SealOversized, RecoverNothing, AcceptOutput, ReopenRepair, Leave, Forget
  <2>2. pc' \in PCs
    BY <1>3 DEF SealOversized, RecoverNothing, AcceptOutput, ReopenRepair, Leave, Forget, PCs
  <2>3. verdict' \in Endings \cup {"none", "open", "raised"}
    BY <1>3 DEF SealOversized, RecoverNothing, AcceptOutput, ReopenRepair, Leave, Endings
  <2> QED
    BY <1>2, <2>1, <2>2, <2>3
<1>4. CASE SealUsage
  <2>1. UNCHANGED bounds /\ run' \in {run, "original"} /\ pc' \in {"accepting", "idle"}
    BY <1>4 DEF SealUsage, Leave, Forget, Goto
  <2>2. verdict' \in {verdict, "raised"}
    BY <1>4 DEF SealUsage, Leave, Goto
  <2> QED
    BY <1>1, <1>2, <2>1, <2>2 DEF PlaceType, PCs
<1>5. CASE ReopenTerminal
  BY <1>2, <1>5 DEF ReopenTerminal, Ended, PCs
<1>6. CASE RecoverEnding
  <2>1. /\ UNCHANGED <<bounds, run>> /\ pc' \in {"validating", "ending"}
        /\ verdict' \in {"completed", "failed", "human"}
    BY <1>6 DEF RecoverEnding
  <2> QED
    BY <1>2, <2>1 DEF PCs, Endings
<1>7. CASE \/ SealInterrupted \/ BlockedByHealth \/ RefuseTurn \/ RecordFailure \/ BoundaryFails
           \/ WaitTimesOutAgain \/ RecordTimeout \/ RejectSecret \/ WriteRepair
  <2>1. UNCHANGED <<bounds, run>> /\ pc' = "ending"
    BY <1>7 DEF SealInterrupted, BlockedByHealth, RefuseTurn, RecordFailure, BoundaryFails,
      WaitTimesOutAgain, RecordTimeout, RejectSecret, WriteRepair
  <2>2. verdict' \in {"human", "budget", "failed", "completed"}
    BY <1>7 DEF SealInterrupted, BlockedByHealth, RefuseTurn, RecordFailure, BoundaryFails,
      WaitTimesOutAgain, RecordTimeout, RejectSecret, WriteRepair
  <2> QED
    BY <1>2, <2>1, <2>2 DEF PCs, Endings
<1>8. CASE \/ StartRun \/ RecoverTurn \/ EnterLoop \/ Invoke \/ OpenRequest \/ ReplayReply
           \/ Dispatch \/ EndAttempt \/ ReceiveReply \/ WaitTimesOut \/ ProjectAnswer
           \/ Validate \/ Finish \/ StartRepair
  <2>1. UNCHANGED <<bounds, run, verdict>>
    BY <1>8 DEF StartRun, RecoverTurn, EnterLoop, Invoke, OpenRequest, ReplayReply, Dispatch,
      EndAttempt, AttemptRetried, AttemptFails, ReceiveReply, WaitTimesOut, ProjectAnswer,
      Validate, Finish, StartRepair, Goto, call
  <2>2. CASE StartRun \/ RecoverTurn \/ EnterLoop \/ Invoke \/ OpenRequest \/ ReplayReply
    BY <1>1, <1>2, <2>1, <2>2 DEF StartRun, RecoverTurn, EnterLoop, Invoke, OpenRequest,
      ReplayReply, Goto, PlaceType, PCs
  <2>3. CASE Dispatch \/ EndAttempt \/ ReceiveReply \/ WaitTimesOut \/ ProjectAnswer
    BY <1>1, <1>2, <2>1, <2>3 DEF Dispatch, EndAttempt, AttemptRetried, AttemptFails,
      ReceiveReply, WaitTimesOut, ProjectAnswer, Goto, PlaceType, PCs
  <2>4. CASE Validate \/ Finish \/ StartRepair
    BY <1>1, <1>2, <2>1, <2>4 DEF Validate, Finish, StartRepair, Goto, call, PlaceType, PCs
  <2> QED
    BY <1>8, <2>2, <2>3, <2>4
<1>9. CASE JudgeAnswer
  <2>1. /\ UNCHANGED <<bounds, run>> /\ pc' \in {"ending", "validating", "preparing"}
        /\ verdict' \in {verdict, "budget", "completed", "failed"}
    BY <1>9 DEF JudgeAnswer
  <2> QED
    BY <1>1, <1>2, <2>1 DEF PCs, Endings, PlaceType
<1>10. CASE AuthorizeReplacement \/ AuthorizeRepair \/ UNCHANGED vars
  BY <1>1, <1>2, <1>10 DEF AuthorizeReplacement, AuthorizeRepair, vars, call, PlaceType
<1>11. CASE CallMember
  <2>1. UNCHANGED bounds /\ pc' = "claimed" /\ verdict' = "none" /\ run' \in Runs
    BY <1>11 DEF CallMember, Selected, TypeOK, Runs
  <2> QED
    BY <1>1, <2>1 DEF PlaceType, PCs, bounds
<1>12. CASE PreparationFails
  <2>1. /\ delays < MaxDelays /\ delays' = delays + 1 /\ crashes' = crashes
        /\ pc' = "idle" /\ run' = "original" /\ verdict' = "open"
    BY <1>12 DEF PreparationFails, Leave, Forget
  <2>2. delays' \in 0..MaxDelays
    BY <1>1, <2>1, SMT DEF PlaceType, TriageRunAssumption
  <2> QED
    BY <1>1, <2>1, <2>2 DEF PlaceType, PCs, Runs
<1>13. CASE Crash
  <2>1. /\ crashes < MaxCrashes /\ crashes' = crashes + 1 /\ delays' = delays
        /\ pc' = "idle" /\ run' = "original" /\ verdict' = "none"
    BY <1>13 DEF Crash, Leave, Forget
  <2>2. crashes' \in 0..MaxCrashes
    BY <1>1, <2>1, SMT DEF PlaceType, TriageRunAssumption
  <2> QED
    BY <1>1, <2>1, <2>2 DEF PlaceType, PCs, Runs
<1> QED
  BY <1>3, <1>4, <1>5, <1>6, <1>7, <1>8, <1>9, <1>10, <1>11, <1>12, <1>13 DEF Next, Work

\* The counters of the call stay in their bounds.
LEMMA CounterStep ==
  ASSUME IInv, [Next]_vars, JournalType', JournalInv', TurnInv', Position'
  PROVE  turn' \in 0..MaxTurns + 1 /\ asked' \in 0..MaxAttempts /\ spent' \in 0..MaxSpent
<1> USE DEF IInv
<1>0. /\ turn \in 0..MaxTurns + 1 /\ asked \in 0..MaxAttempts /\ spent \in 0..MaxSpent
      /\ asked \in Nat /\ spent \in Nat
      /\ 0 \in 0..MaxTurns + 1 /\ 0 \in 0..MaxAttempts /\ 0 \in 0..MaxSpent
  <2>1. turn \in 0..MaxTurns + 1 /\ asked \in 0..MaxAttempts /\ spent \in 0..MaxSpent
    BY DEF TypeOK
  <2> QED
    BY <2>1, Spendable, SMT
<1>1. CASE \/ SealOversized \/ RecoverNothing \/ EnterLoop \/ OpenRequest \/ ReplayReply
           \/ EndAttempt \/ ReceiveReply \/ WaitTimesOut \/ WaitTimesOutAgain \/ BlockedByHealth
           \/ RefuseTurn \/ Validate \/ Finish \/ SealUsage \/ AcceptOutput \/ StartRepair
           \/ ReopenRepair \/ CallMember \/ PreparationFails \/ Crash \/ AuthorizeReplacement
           \/ AuthorizeRepair \/ UNCHANGED vars
  <2>1. UNCHANGED <<turn, asked, spent>> \/ (turn' = 0 /\ asked' = 0 /\ spent' = 0)
    <3>1. CASE \/ SealOversized \/ RecoverNothing \/ EnterLoop \/ OpenRequest \/ ReplayReply
      BY <3>1 DEF SealOversized, RecoverNothing, EnterLoop, OpenRequest, ReplayReply, Goto, Leave,
        Forget
    <3>2. CASE \/ EndAttempt \/ ReceiveReply \/ WaitTimesOut \/ WaitTimesOutAgain
               \/ BlockedByHealth \/ RefuseTurn \/ Validate \/ Finish
      BY <3>2 DEF EndAttempt, AttemptRetried, AttemptFails, ReceiveReply, WaitTimesOut,
        WaitTimesOutAgain, BlockedByHealth, RefuseTurn, Validate, Finish, Goto
    <3>3. CASE \/ SealUsage \/ AcceptOutput \/ StartRepair \/ ReopenRepair \/ CallMember
      BY <3>3 DEF SealUsage, AcceptOutput, StartRepair, ReopenRepair, CallMember, Goto, Leave,
        Forget, call
    <3>4. CASE \/ PreparationFails \/ Crash \/ AuthorizeReplacement \/ AuthorizeRepair
               \/ UNCHANGED vars
      BY <3>4 DEF PreparationFails, Crash, AuthorizeReplacement, AuthorizeRepair, vars, call,
        Leave, Forget
    <3> QED
      BY <1>1, <3>1, <3>2, <3>3, <3>4
  <2> QED
    BY <1>0, <2>1
<1>2. ASSUME run' = run, run \in Agents, pc' = "admitting", asked' = asked, spent' \in 0..MaxSpent
      PROVE  turn' \in 0..MaxTurns + 1
  <2>1. turn' = Prior(run)' + Answers(log'[run]) + 1
    BY <1>2 DEF TurnInv, InTurn, Before
  <2>2. Prior(run)' + Answers(log'[run]) =< MaxTurns
    BY <1>2 DEF JournalInv, Journal
  <2>3. log'[run] \in Seq(Events) /\ log'["original"] \in Seq(Events)
    BY <1>2 DEF JournalType, Agents, Runs
  <2>4. Answers(log'[run]) \in Nat /\ Prior(run)' \in Nat
    <3>1. Answers(log'[run]) \in Nat /\ Answers(log'["original"]) \in Nat
      BY <2>3, CountType DEF Answers
    <3> QED
      BY <1>2, <3>1 DEF Prior, Answers
  <2> QED
    BY <2>1, <2>2, <2>4, Spendable, SMT
<1>3. CASE StartRun
  <2>1. run' = run /\ run \in Agents /\ pc' = "admitting" /\ asked' = asked /\ spent' = spent
    BY <1>3 DEF StartRun, Opens, TypeOK, Runs, Agents
  <2> QED
    BY <1>0, <1>2, <2>1
<1>4. CASE RecoverTurn
  <2>1. /\ run' = run /\ run \in Agents /\ pc' = "admitting" /\ asked' = asked
        /\ spent' \in {Projected(run), Attempts(run)}
    BY <1>4 DEF RecoverTurn, Recovering, Opens, TypeOK, Runs, Agents
  <2>2. /\ Attempts(run) \in 0..MaxSpent /\ Sent(log[run]) \in Nat
        /\ Sent(log[run]) =< MaxTurns * MaxAttempts
    BY <2>1, AttemptsBound
  <2>3. Projected(run) \in Nat /\ Projected(run) =< Sent(log[run])
    BY <2>1, Own, ProjectedBound
  <2>4. Projected(run) \in 0..MaxSpent
    BY <2>2, <2>3, Spendable, SMT
  <2>5. spent' \in 0..MaxSpent
    BY <2>1, <2>2, <2>4
  <2> QED
    BY <1>0, <1>2, <2>1, <2>5
<1>5. CASE ReopenTerminal \/ SealInterrupted \/ RecoverEnding
  <2>1. run \in Agents /\ spent' = Attempts(run) /\ UNCHANGED <<turn, asked>>
    BY <1>5 DEF ReopenTerminal, SealInterrupted, RecoverEnding, Recovering, Opens, TypeOK, Runs,
      Agents
  <2> QED
    BY <1>0, <2>1, AttemptsBound
<1>6. CASE WriteRepair
  <2>1. spent' = Attempts("original") /\ UNCHANGED <<turn, asked>>
    BY <1>6 DEF WriteRepair
  <2> QED
    BY <1>0, <2>1, AttemptsBound DEF Agents
<1>7. CASE Invoke
  <2>1. /\ pc = "preparing" /\ UNCHANGED <<turn, spent>>
        /\ asked' = IF Pending THEN Attempts(run) - Projected(run) ELSE 0
    BY <1>7 DEF Invoke
  <2>2. run \in Agents /\ Doubts(log[run]) = 0
    BY <2>1 DEF Position, TurnInv, InTurn, Before
  <2>3. Pending => spent = Projected(run) /\ Sent(log[run]) =< spent + MaxAttempts
    BY <2>1 DEF TurnInv
  <2>4. Attempts(run) = Sent(log[run]) /\ Sent(log[run]) \in Nat
    <3>1. /\ Attempts(run) = IF Sent(log[run]) > 0 THEN Sent(log[run]) ELSE Doubts(log[run])
          /\ Sent(log[run]) \in Nat
      BY <2>2, Own, AttemptsOf
    <3> QED
      BY <2>2, <3>1, SMT
  <2>5. Projected(run) \in Nat /\ Projected(run) =< Sent(log[run])
    BY <2>2, Own, ProjectedBound
  <2>6. Pending => Attempts(run) - Projected(run) \in 0..MaxAttempts
    BY <1>0, <2>3, <2>4, <2>5, Spendable, SMT
  <2> QED
    BY <1>0, <2>1, <2>6
<1>8. CASE Dispatch
  <2>1. asked < MaxAttempts /\ asked' = asked + 1 /\ UNCHANGED <<turn, spent>>
    BY <1>8 DEF Dispatch
  <2>2. asked' \in 0..MaxAttempts
    BY <1>0, <2>1, Spendable, SMT
  <2> QED
    BY <1>0, <2>1, <2>2
<1>9. ASSUME pc \in InTurn, UNCHANGED <<turn, asked>>,
             spent' = spent + 1 \/ spent' = Sent(log[run])
      PROVE  turn' \in 0..MaxTurns + 1 /\ asked' \in 0..MaxAttempts /\ spent' \in 0..MaxSpent
  <2>1. run \in Agents /\ spent =< Sent(log[run])
    BY <1>9 DEF Position, TurnInv
  <2>2. Sent(log[run]) \in Nat /\ Sent(log[run]) =< MaxTurns * MaxAttempts
    BY <2>1, AttemptsBound
  <2>3. spent' \in 0..MaxSpent
    BY <1>0, <1>9, <2>1, <2>2, Spendable, SMT
  <2> QED
    BY <1>0, <1>9, <2>3
<1>10. CASE RecordFailure \/ ProjectAnswer \/ RejectSecret
  <2>1. pc \in {"faulted", "replied"} /\ spent' = spent + asked /\ UNCHANGED <<turn, asked>>
    BY <1>10 DEF RecordFailure, ProjectAnswer, RejectSecret
  <2>2. spent + asked = Sent(log[run])
    BY <2>1 DEF TurnInv
  <2> QED
    BY <1>9, <2>1, <2>2 DEF InTurn
<1>11. CASE BoundaryFails
  <2>1. pc \in InTurn /\ spent' = spent + 1 /\ UNCHANGED <<turn, asked>>
    BY <1>11 DEF BoundaryFails, Waits, InTurn, Before, Asking
  <2> QED
    BY <1>9, <2>1
<1>12. CASE RecordTimeout
  <2>1. /\ pc = "late" /\ UNCHANGED <<turn, asked>>
        /\ spent' = spent + (IF asked > 0 THEN asked ELSE 1)
    BY <1>12 DEF RecordTimeout
  <2>2. asked > 0 => spent + asked = Sent(log[run])
    BY <2>1 DEF TurnInv
  <2>3. spent' = spent + 1 \/ spent' = Sent(log[run])
    BY <2>1, <2>2
  <2> QED
    BY <1>9, <2>1, <2>3 DEF InTurn
<1>13. CASE JudgeAnswer
  <2>1. /\ UNCHANGED <<asked, spent>>
        /\ turn' = turn \/ (turn < MaxTurns /\ turn' = turn + 1)
    BY <1>13 DEF JudgeAnswer
  <2>2. turn' \in 0..MaxTurns + 1
    BY <1>0, <2>1, Spendable, SMT
  <2> QED
    BY <1>0, <2>1, <2>2
<1> QED
  BY <1>1, <1>3, <1>4, <1>5, <1>6, <1>7, <1>8, <1>10, <1>11, <1>12, <1>13 DEF Next, Work

\* Only the repair writes its journal.
LEMMA RepairStep ==
  ASSUME TypeOK, Position, RepairInv, [Next]_vars
  PROVE  RepairInv'
<1>1. ASSUME run \in Agents, NEW e, Write(e)
      PROVE  RepairInv'
  <2>1. log'["repair"] = log["repair"]
    BY <1>1 DEF Write, TypeOK, Agents, Runs
  <2> QED
    BY <2>1 DEF RepairInv
<1>2. CASE SealInterrupted
  <2>1. run \in Agents
    BY <1>2 DEF SealInterrupted, Opens, TypeOK, Runs, Agents
  <2> QED
    BY <1>1, <1>2, <2>1 DEF SealInterrupted
<1>3. CASE \/ BlockedByHealth \/ PreparationFails \/ Dispatch \/ EndAttempt \/ RecordFailure
           \/ BoundaryFails \/ WaitTimesOut \/ RecordTimeout \/ ProjectAnswer \/ RejectSecret
           \/ Validate
  <2>1. pc \in InTurn \cup {"validating"}
    BY <1>3 DEF BlockedByHealth, PreparationFails, Dispatch, EndAttempt, RecordFailure,
      BoundaryFails, WaitTimesOut, RecordTimeout, ProjectAnswer, RejectSecret, Validate, Waits,
      InTurn, Before, Asking
  <2>2. run \in Agents
    BY <2>1 DEF Position
  <2>3. \E e : Write(e)
    BY <1>3 DEF BlockedByHealth, PreparationFails, Dispatch, EndAttempt, AttemptRetried,
      AttemptFails, RecordFailure, BoundaryFails, WaitTimesOut, RecordTimeout, ProjectAnswer,
      RejectSecret, Validate
  <2> QED
    BY <1>1, <2>2, <2>3
<1>4. CASE WriteRepair
  BY <1>4 DEF WriteRepair, RepairInv, TypeOK, Runs
<1>5. CASE UNCHANGED log
  BY <1>5 DEF RepairInv
<1>6. CASE \/ SealOversized \/ StartRun \/ ReopenTerminal \/ RecoverEnding \/ RecoverTurn
           \/ RecoverNothing \/ EnterLoop \/ RefuseTurn \/ Invoke \/ ReplayReply
           \/ WaitTimesOutAgain \/ JudgeAnswer \/ Finish \/ SealUsage \/ AcceptOutput
           \/ StartRepair \/ ReopenRepair \/ CallMember \/ Crash \/ OpenRequest \/ ReceiveReply
           \/ AuthorizeReplacement \/ AuthorizeRepair \/ UNCHANGED vars
  <2>1. UNCHANGED log
    BY <1>6 DEF SealOversized, StartRun, ReopenTerminal, RecoverEnding, RecoverTurn,
      RecoverNothing, EnterLoop, RefuseTurn, Invoke, ReplayReply, WaitTimesOutAgain, JudgeAnswer,
      Finish, SealUsage, AcceptOutput, StartRepair, ReopenRepair, CallMember, Crash, OpenRequest,
      ReceiveReply, AuthorizeReplacement, AuthorizeRepair, vars, journal
  <2> QED
    BY <1>5, <2>1
<1> QED
  BY <1>2, <1>3, <1>4, <1>6 DEF Next, Work

-----------------------------------------------------------------------------
(* The invariant, and what it implies. *)

\* The invariant holds at first,
LEMMA InitIInv == Init => IInv
<1> SUFFICES ASSUME Init PROVE IInv
  OBVIOUS
<1>1. /\ <<>> \in Seq(Events) /\ 0 \in 0..MaxSpent /\ {} \in SUBSET (0..MaxSpent)
      /\ 0 \in 0..MaxTurns + 1 /\ 0 \in 0..MaxAttempts /\ 0 \in 0..MaxCrashes /\ 0 \in 0..MaxDelays
  BY EmptyCounts, Spendable, TriageRunAssumption, SMT
<1>2. TypeOK
  <2>1. JournalType
    BY <1>1 DEF Init, JournalType, Turns
  <2>2. RecordType
    BY <1>1 DEF Init, RecordType
  <2>3. PlaceType
    BY <1>1 DEF Init, PlaceType, PCs, Runs
  <2> QED
    BY <1>1, <2>1, <2>2, <2>3 DEF Init, TypeOK, JournalType, RecordType, PlaceType
<1>3. JournalInv
  <2>1. \A r \in Agents : log[r] = <<>> /\ opened[r] = {} /\ reply[r] = Nothing
    BY DEF Init, Agents, Runs, Nothing
  <2>2. Prior("original") = 0 /\ Prior("replacement") = 0
    BY <2>1, EmptyCounts DEF Prior, Agents
  <2>3. 0 \in Nat /\ 0 =< MaxTurns
    BY Spendable, SMT
  <2>4. \A r \in Agents : Prior(r) = 0
    BY <2>2 DEF Agents
  <2> QED
    BY <2>1, <2>3, <2>4, JournalEmpty DEF JournalInv
<1>4. RecordInv
  <2>1. \A r \in Agents : status[r] = "none"
    BY DEF Init, Agents, Runs
  <2>2. \A r \in Agents : ~Exact(log[r], status[r])
    BY <2>1 DEF Exact
  <2> QED
    BY <2>1, <2>2 DEF Init, RecordInv, Ended, Endings
<1>5. Position /\ TurnInv /\ EndInv /\ RepairInv
  <2>1. pc = "idle" /\ run = "original"
    BY DEF Init
  <2>2. Position
    BY <2>1 DEF Position, Running, Done, InTurn, Before, Asking
  <2>3. TurnInv
    BY <2>1, SMT DEF TurnInv, InTurn, Before, Asking
  <2>4. EndInv
    BY <2>1 DEF EndInv, Done
  <2>5. RepairInv
    BY DEF Init, RepairInv, Runs
  <2> QED
    BY <2>2, <2>3, <2>4, <2>5
<1> QED
  BY <1>2, <1>3, <1>4, <1>5 DEF IInv

\* and every step keeps it.
LEMMA StepIInv == IInv /\ [Next]_vars => IInv'
<1> SUFFICES ASSUME IInv, [Next]_vars PROVE IInv'
  OBVIOUS
<1>1. JournalInv' /\ RecordInv' /\ Position' /\ TurnInv'
  BY JournalStep, RecordStep, PositionStep, TurnStep
<1>2. EndInv'
  BY <1>1, EndStep
<1>3. JournalType' /\ RecordType' /\ PlaceType'
  BY JournalTypeStep, RecordTypeStep, PlaceTypeStep DEF IInv
<1>4. turn' \in 0..MaxTurns + 1 /\ asked' \in 0..MaxAttempts /\ spent' \in 0..MaxSpent
  BY <1>1, <1>3, CounterStep
<1>5. TypeOK'
  BY <1>3, <1>4 DEF TypeOK, JournalType, RecordType, PlaceType
<1>6. RepairInv'
  BY RepairStep DEF IInv
<1> QED
  BY <1>1, <1>2, <1>5, <1>6 DEF IInv

\* The inductive invariant holds in every state of every behaviour of the member.
THEOREM Inductive == Spec => []IInv
<1>1. Init => IInv
  BY InitIInv
<1>2. IInv /\ [Next]_vars => IInv'
  BY StepIInv
<1> QED
  BY <1>1, <1>2, PTL DEF Spec

\* The variables keep their types; in particular no run is ever charged for more than
\* MaxSpent attempts, over all its lives (_physical_provider_attempt_count).
THEOREM TypeCorrect == Spec => []TypeOK
<1>1. IInv => TypeOK
  BY DEF IInv
<1> QED
  BY <1>1, Inductive, PTL

\* No request is sent again unless the provider refused it before it generated anything, or
\* once after its 408, whatever process sent it (execute_pi_once, _unresolved_model_dispatches).
THEOREM RepeatSafety == Spec => []NoBlindRepeat
<1>1. IInv => NoBlindRepeat
  <2> SUFFICES ASSUME IInv, NEW r \in Runs PROVE NoBlind(log[r])
    BY DEF NoBlindRepeat, NoBlind
  <2>1. CASE r \in Agents
    BY <2>1 DEF IInv, JournalInv, Journal
  <2>2. CASE r = "repair"
    <3>1. \A i \in DOMAIN log[r] : log[r][i] # "dispatched"
      <4>1. \A i \in DOMAIN <<>> : FALSE
        BY EmptyCounts, SMT
      <4>2. \A i \in DOMAIN <<"repaired">> : <<"repaired">>[i] = "repaired"
        BY SMT
      <4> QED
        BY <2>2, <4>1, <4>2 DEF IInv, RepairInv
    <3> QED
      BY <3>1 DEF NoBlind
  <2> QED
    BY <2>1, <2>2 DEF Runs, Agents
<1> QED
  BY <1>1, Inductive, PTL

\* An original run and its replacement answer MaxTurns turns between them at most
\* (_replacement_prior_metrics, first_turn_number).
THEOREM SharedTurns == Spec => []TurnsAreShared
<1>1. IInv => TurnsAreShared
  BY DEF IInv, JournalInv, Journal, Agents, Prior, TurnsAreShared, Answers
<1> QED
  BY <1>1, Inductive, PTL

\* A completed run is charged once, for every dispatch in its journal, and so is an original
\* that was replaced (_append_usage, _metrics_from_events).
THEOREM ChargedOnce == Spec => []CompletedIsCharged
<1>1. IInv => CompletedIsCharged
  BY DEF IInv, RecordInv, Exact, CompletedIsCharged, Runs, Agents
<1> QED
  BY <1>1, Inductive, PTL

\* A second run exists only beside an original that ended without an output and was charged
\* (authorize_once, authorize_format_recovery): one verdict of the member at most.
THEOREM SingleVerdict == Spec => []OneVerdict
<1>1. IInv => OneVerdict
  BY DEF IInv, RecordInv, OneVerdict, Runs, Agents
<1> QED
  BY <1>1, Inductive, PTL

\* The outcome of the job.
Verdict == IF Ended(Effective) THEN status[Effective] ELSE "open"

-----------------------------------------------------------------------------
(* Implementation *)

\* A step of the member is a step of its job, or none.
LEMMA JobStep ==
  ASSUME IInv, [Next]_vars
  PROVE  [Job!Next]_(Job!jobs)
<1> USE DEF IInv
<1>0. /\ status \in [Runs -> Endings \cup {"none", "running"}] /\ run \in Runs
      /\ substitute \in {"none", "replacement", "repair"} /\ Effective \in Runs
  BY DEF TypeOK, Effective, Runs
<1>1. ASSUME Verdict' = Verdict, substitute' = substitute
      PROVE  [Job!Next]_(Job!jobs)
  BY <1>1 DEF Job!jobs, Verdict
<1>2. CASE UNCHANGED <<status, substitute>>
  BY <1>1, <1>2 DEF Verdict, Ended, Effective
<1>3. CASE \/ StartRun \/ StartRepair \/ SealOversized
  <2>1. /\ substitute' = substitute
        /\ UNCHANGED status \/ (~Ended(run) /\ status' = [status EXCEPT ![run] = "running"])
    BY <1>3 DEF StartRun, StartRepair, SealOversized, setting, Ended, Endings
  <2>2. CASE ~Ended(run) /\ status' = [status EXCEPT ![run] = "running"]
    <3>1. Effective' = Effective
      BY <2>1 DEF Effective
    <3>2. IF Effective = run THEN status'[Effective] = "running"
                             ELSE status'[Effective] = status[Effective]
      BY <1>0, <2>2
    <3>3. Verdict' = Verdict
      <4>1. CASE Effective = run
        BY <2>2, <3>1, <3>2, <4>1 DEF Verdict, Ended, Endings
      <4>2. CASE Effective # run
        BY <3>1, <3>2, <4>2 DEF Verdict, Ended
      <4> QED
        BY <4>1, <4>2
    <3> QED
      BY <1>1, <2>1, <3>3
  <2> QED
    BY <1>2, <2>1, <2>2
<1>4. CASE Finish
  <2>1. /\ status[run] = "running" /\ verdict \in Endings /\ substitute' = substitute
        /\ status' = [status EXCEPT ![run] = verdict]
    BY <1>4 DEF Finish, Position, Running, setting
  <2>2. Effective = run
    <3>1. CASE run = "original"
      <4>1. substitute = "none"
        BY <1>0, <2>1, <3>1 DEF RecordInv
      <4> QED
        BY <3>1, <4>1 DEF Effective
    <3>2. CASE run # "original"
      BY <3>2 DEF Effective, Position, Runs, TypeOK
    <3> QED
      BY <3>1, <3>2
  <2>3. Effective' = run /\ status'[run] = verdict
    BY <1>0, <2>1, <2>2 DEF Effective
  <2>4. Verdict = "open" /\ Verdict' = verdict
    BY <2>1, <2>2, <2>3 DEF Verdict, Ended, Endings
  <2>5. Job!End("job", verdict)
    BY <2>1, <2>4 DEF Job!End, Verdict
  <2>6. verdict \in Job!Outcomes
    BY <2>1 DEF Job!Outcomes, Endings
  <2> QED
    BY <2>5, <2>6 DEF Job!Next
<1>5. CASE AuthorizeReplacement \/ AuthorizeRepair
  <2>1. /\ substitute = "none" /\ substitute' \in {"replacement", "repair"}
        /\ status["original"] \in {"failed", "human"} /\ status' = status
    BY <1>5 DEF AuthorizeReplacement, AuthorizeRepair, records
  <2>2. Effective = "original" /\ Effective' = substitute'
    BY <2>1 DEF Effective
  <2>3. status[substitute'] = "none"
    BY <2>1 DEF RecordInv, Runs
  <2>4. Verdict = status["original"] /\ Verdict' = "open"
    BY <2>1, <2>2, <2>3 DEF Verdict, Ended, Endings
  <2>5. Job!Substitute("job")
    BY <2>1, <2>4 DEF Job!Substitute, Verdict
  <2> QED
    BY <2>5 DEF Job!Next
<1>6. CASE \/ ReopenTerminal \/ SealInterrupted \/ RecoverEnding \/ RecoverTurn \/ RecoverNothing
           \/ BlockedByHealth \/ EnterLoop \/ RefuseTurn \/ Invoke \/ OpenRequest \/ ReplayReply
           \/ Dispatch \/ EndAttempt \/ RecordFailure \/ ReceiveReply \/ BoundaryFails
           \/ WaitTimesOut \/ WaitTimesOutAgain \/ RecordTimeout \/ ProjectAnswer \/ RejectSecret
           \/ JudgeAnswer \/ Validate \/ SealUsage \/ AcceptOutput \/ WriteRepair \/ ReopenRepair
           \/ CallMember \/ PreparationFails \/ Crash \/ UNCHANGED vars
  <2>1. UNCHANGED <<status, substitute>>
    BY <1>6 DEF ReopenTerminal, SealInterrupted, RecoverEnding, RecoverTurn, RecoverNothing,
      BlockedByHealth, EnterLoop, RefuseTurn, Invoke, OpenRequest, ReplayReply, Dispatch,
      EndAttempt, RecordFailure, ReceiveReply, BoundaryFails, WaitTimesOut, WaitTimesOutAgain,
      RecordTimeout, ProjectAnswer, RejectSecret, JudgeAnswer, Validate, SealUsage, AcceptOutput,
      WriteRepair, ReopenRepair, CallMember, PreparationFails, Crash, vars, records, setting
  <2> QED
    BY <1>2, <2>1
<1> QED
  BY <1>3, <1>4, <1>5, <1>6 DEF Next, Work

\* The member is a job of the plan: it ends once, is taken up once more at most, and
\* otherwise its outcome does not change (TriageJobs).
THEOREM JobImplemented == Spec => ImplementsJob
<1>1. Init => Job!Init
  <2> SUFFICES ASSUME Init PROVE Job!Init
    OBVIOUS
  <2>1. substitute = "none" /\ status["original"] = "none"
    BY DEF Init, Runs
  <2>2. Effective = "original" /\ ~Ended("original")
    BY <2>1 DEF Effective, Ended, Endings
  <2> QED
    BY <2>1, <2>2 DEF Job!Init
<1>2. IInv /\ [Next]_vars => [Job!Next]_(Job!jobs)
  BY JobStep
<1> QED
  BY <1>1, <1>2, Inductive, PTL DEF Spec, ImplementsJob, Job!Spec
=============================================================================
