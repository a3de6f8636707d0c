-------------------------- MODULE WatchWakesProofs --------------------------
(***************************************************************************)
(* Proofs about WatchWakes for any requests, watches, runners and bounds.  *)
(***************************************************************************)
EXTENDS WatchWakes, AttentionWatchProofs

(* The first event of the run of a callback is durable. *)
Bound(c) == run[c] \notin {"none", "started"}

(* Those that a wake is dispatched to share the watch that wrote it. *)
Frozen ==
  \A m \in Wakes :
    subscribers[m] # {} => m \in outbox /\ subscribers[m] \subseteq Audience(m)

(* What a step leaves in place. *)
Growth ==
  /\ outbox \subseteq outbox'
  /\ \A m \in Wakes : Audience(m) \subseteq Audience(m)'
  /\ \A m \in Wakes : subscribers[m] # {} => subscribers'[m] = subscribers[m]
  /\ \A c \in Callbacks : Bound(c) => Bound(c)'
  /\ \A c \in Callbacks : run[c] # "none" => run'[c] # "none"
  /\ delivered' = delivered \/ \E k \in Runners : Deliver(k)

(* A runner dispatches a written wake, and what it no longer has to bind is bound. *)
DispatchHeld(k) ==
  /\ at[k] \in {"freezing", "binding", "appending"} => wake[k] \in outbox
  /\ at[k] \in {"binding", "appending"} =>
       /\ subscribers[wake[k]] # {} /\ todo[k] \subseteq subscribers[wake[k]]
       /\ \A r \in subscribers[wake[k]] \ todo[k] : Bound(<<wake[k], r>>)
  /\ at[k] = "appending" =>
       call[k] = <<wake[k], call[k][2]>> /\ call[k][2] \in todo[k] /\ run[call[k]] # "none"
  /\ at[k] \notin {"idle", "freezing", "binding", "appending", "selected"} => Bound(call[k])

DispatchHolds == \A k \in Runners : DispatchHeld(k)

(* A role has one runner. *)
RoleClaimed ==
  \A k, j \in Runners : at[k] \in Judging /\ at[j] \in Judging /\ call[k] = call[j] => k = j

(* Where a runner is in the conversation of its callback, and what it holds after it. *)
TurnHeld(k) ==
  LET c == call[k] IN
  /\ at[k] \in Judging => role[c] = "running" /\ turn[k] >= 1
  /\ at[k] = "asking" => turn[k] =< stored[c] + 1
  /\ at[k] = "dispatching" =>
       turn[k] = answered[c] + 1 /\ asked[c] = answered[c] /\ stored[c] = answered[c]
  /\ at[k] \in {"asking", "dispatching"} /\ turn[k] = answered[c] + 1 /\ turn[k] > 1 =>
       reply[c] = "malformed"
  /\ at[k] = "waiting" =>
       asked[c] = answered[c] + 1 /\ turn[k] = asked[c] /\ stored[c] = answered[c]
  /\ at[k] = "storing" => turn[k] =< answered[c] /\ turn[k] =< stored[c] + 1
  /\ at[k] = "judging" => turn[k] =< stored[c]
  /\ at[k] \in {"charging", "deciding", "noting", "finishing"} => RoleEnded(c)
  /\ at[k] \in {"charging", "deciding"} /\ role[c] = "completed" => tally[k] = stored[c]
  /\ at[k] = "deciding" => role[c] = "completed" /\ usage[c] = {tally[k]}
  /\ at[k] \in {"noting", "finishing"} =>
       usage[c] # {} /\ (role[c] = "completed" => c \in decided)

TurnHolds == \A k \in Runners : TurnHeld(k)

(* A further request was sent only after a reply that broke the contract. *)
Correcting(c) ==
  role[c] = "running" /\ asked[c] > answered[c] /\ answered[c] > 0 => reply[c] = "malformed"

Corrected == \A c \in Callbacks : Correcting(c)

WakeInv ==
  /\ WakeTypeOK /\ Frozen /\ DispatchHolds /\ DeliveredIsBound
  /\ RoleClaimed /\ TurnHolds /\ Corrected /\ JudgedOnce

LEMMA NullsAre == NoWake \in Wakes /\ NoCall \in Callbacks
<1>1. NoWake \in Wakes
  BY AnyoneIsWatch DEF NoWake, Wakes
<1>2. Anyone[1] \in Requests
  BY AnyoneIsWatch, WatchWakesAssumption DEF Watches
<1> QED BY <1>1, <1>2 DEF Callbacks, NoCall

LEMMA CallbackIs ==
  ASSUME NEW m \in Wakes, NEW r \in Requests
  PROVE  <<m, r>> \in Callbacks
BY DEF Callbacks

(* A step of the system is a step of the watches. *)
LEMMA WatchStepOfNext ==
  ASSUME WatchTypeOK, WakeTypeOK, [Next]_vars
  PROVE  WatchStep
<1>1. \/ WatchNext \/ (\E r \in Owners : Activate(r)) \/ (\E k \in Runners : Deliver(k))
      \/ UNCHANGED watchVars
  BY Zenon DEF Next, vars, AdmitRequest, Reject, Reuse, Admit, Admission, Dispatch,
     PickWake, Freeze,
     StartCallback, AppendBinding, SkipBound, Judge, Select, Prepare, EnterRole, SealInterrupted,
     ReopenRole, RefuseTurn, ReplayTurn, OpenTurn, SendTurn, ReceiveTurn, TurnFails,
     RefuseReply, StoreTurn, CorrectAnswer, SealAnswer, Charge, AdmitDecision, NoteJudgment,
     FinishDispatch, Quit
<1> USE DEF watchVars, rows, clocks, mail, polling
<1>2. CASE WatchNext
  BY <1>2 DEF WatchStep
<1>3. ASSUME NEW r \in Owners, Activate(r)
      PROVE  WatchStep
  BY <1>3, WatchWakesAssumption DEF WatchStep, Activate, Root, WakeTypeOK
<1>4. CASE \E k \in Runners : Deliver(k)
  BY <1>4 DEF WatchStep, Still, Deliver, WatchTypeOK, WakeTypeOK
<1>5. CASE UNCHANGED watchVars
  BY <1>5 DEF WatchStep, Still, WatchTypeOK
<1> QED BY <1>1, <1>2, <1>3, <1>4, <1>5

(***************************************************************************)
(* Every step keeps the types of the admissions, the dispatches and the    *)
(* judgments.                                                              *)
(***************************************************************************)
LEMMA WakeTypeStep ==
  ASSUME WatchTypeOK, WakeTypeOK, TurnHolds, [Next]_vars
  PROVE  WakeTypeOK'
<1> USE AttentionWatchAssumption, WatchWakesAssumption DEF WakeTypeOK, Ats, watchVars, rows,
   clocks, mail, polling, wakeVars, admissions, dispatches, judgments, talk, running
<1>1. ASSUME WatchNext, UNCHANGED wakeVars
      PROVE  WakeTypeOK'
  BY <1>1
<1>2. ASSUME NEW r \in Requests, Reject(r)
      PROVE  WakeTypeOK'
  BY <1>2 DEF Reject, Admission
<1>3. ASSUME NEW r \in Requests, NEW o \in Owners, Reuse(r, o)
      PROVE  WakeTypeOK'
  <2>1. Admission(r, "rejected", r, 0) \/ Admission(r, "reused", o, 0)
    BY <1>3 DEF Reuse
  <2>2. CASE Admission(r, "rejected", r, 0)
    BY <2>2 DEF Admission
  <2>3. CASE Admission(r, "reused", o, 0)
    BY <2>3 DEF Admission
  <2> QED BY <2>1, <2>2, <2>3
<1>4. ASSUME NEW r \in Requests, NEW c \in 0..journaled, Admit(r, c)
      PROVE  WakeTypeOK'
  BY <1>4 DEF Admit, Admission, WatchTypeOK
<1>5. ASSUME NEW r \in Owners, Activate(r)
      PROVE  WakeTypeOK'
  BY <1>5 DEF Activate, CreateWatch
<1>6. ASSUME NEW k \in Runners, NEW m \in Wakes, PickWake(k, m)
      PROVE  WakeTypeOK'
  BY <1>6 DEF PickWake, Goto
<1>7. ASSUME NEW k \in Runners, Freeze(k)
      PROVE  WakeTypeOK'
  BY <1>7 DEF Freeze, Goto, CallbackSet, Audience
<1>8. ASSUME NEW k \in Runners, NEW r \in Requests, StartCallback(k, r)
      PROVE  WakeTypeOK'
  BY <1>8, CallbackIs DEF StartCallback, Goto
<1>9. ASSUME NEW k \in Runners, AppendBinding(k)
      PROVE  WakeTypeOK'
  BY <1>9, NullsAre DEF AppendBinding, Goto
<1>10. ASSUME NEW k \in Runners, NEW r \in Requests, SkipBound(k, r)
      PROVE  WakeTypeOK'
  BY <1>10 DEF SkipBound
<1>11. ASSUME NEW k \in Runners, Deliver(k)
      PROVE  WakeTypeOK'
  BY <1>11, NullsAre DEF Deliver, Leave, Goto
<1>12. ASSUME NEW k \in Runners, Select(k)
      PROVE  WakeTypeOK'
  BY <1>12 DEF Select, Goto
<1>13. ASSUME NEW k \in Runners, NEW c \in Callbacks, Prepare(k, c)
      PROVE  WakeTypeOK'
  BY <1>13 DEF Prepare, Goto
<1>14. ASSUME NEW k \in Runners, EnterRole(k)
      PROVE  WakeTypeOK'
  BY <1>14 DEF EnterRole, Goto
<1>15. ASSUME NEW k \in Runners, SealInterrupted(k)
      PROVE  WakeTypeOK'
  BY <1>15 DEF SealInterrupted, Result, Goto, Interrupted
<1>16. ASSUME NEW k \in Runners, ReopenRole(k)
      PROVE  WakeTypeOK'
  BY <1>16 DEF ReopenRole, Result, Goto, RoleEnded
<1>17. ASSUME NEW k \in Runners, RefuseTurn(k)
      PROVE  WakeTypeOK'
  BY <1>17 DEF RefuseTurn, Result, Goto, TurnHolds, TurnHeld, Judging
<1>18. ASSUME NEW k \in Runners, ReplayTurn(k)
      PROVE  WakeTypeOK'
  BY <1>18 DEF ReplayTurn, Goto
<1>19. ASSUME NEW k \in Runners, OpenTurn(k)
      PROVE  WakeTypeOK'
  BY <1>19 DEF OpenTurn, Goto
<1>20. ASSUME NEW k \in Runners, SendTurn(k)
      PROVE  WakeTypeOK'
  BY <1>20 DEF SendTurn, Goto
<1>21. ASSUME NEW k \in Runners, NEW a \in Answers, ReceiveTurn(k, a)
      PROVE  WakeTypeOK'
  BY <1>21 DEF ReceiveTurn, Goto, Answers
<1>22. ASSUME NEW k \in Runners, TurnFails(k)
      PROVE  WakeTypeOK'
  BY <1>22 DEF TurnFails, Result, Goto, TurnHolds, TurnHeld, Judging
<1>23. ASSUME NEW k \in Runners, RefuseReply(k)
      PROVE  WakeTypeOK'
  BY <1>23 DEF RefuseReply, Result, Goto, TurnHolds, TurnHeld, Judging
<1>24. ASSUME NEW k \in Runners, StoreTurn(k)
      PROVE  WakeTypeOK'
  BY <1>24 DEF StoreTurn, Goto
<1>25. ASSUME NEW k \in Runners, CorrectAnswer(k)
      PROVE  WakeTypeOK'
  BY <1>25 DEF CorrectAnswer, Goto
<1>26. ASSUME NEW k \in Runners, SealAnswer(k)
      PROVE  WakeTypeOK'
  BY <1>26 DEF SealAnswer, Result, Goto
<1>27. ASSUME NEW k \in Runners, Charge(k)
      PROVE  WakeTypeOK'
  BY <1>27 DEF Charge, Goto
<1>28. ASSUME NEW k \in Runners, AdmitDecision(k)
      PROVE  WakeTypeOK'
  BY <1>28 DEF AdmitDecision, Goto
<1>29. ASSUME NEW k \in Runners, NoteJudgment(k)
      PROVE  WakeTypeOK'
  BY <1>29 DEF NoteJudgment, Goto
<1>30. ASSUME NEW k \in Runners, FinishDispatch(k)
      PROVE  WakeTypeOK'
  BY <1>30, NullsAre DEF FinishDispatch, Leave, Goto
<1>31. ASSUME NEW k \in Runners, Quit(k)
      PROVE  WakeTypeOK'
  BY <1>31, NullsAre DEF Quit, Leave, Goto
<1>32. CASE UNCHANGED vars
  BY <1>32 DEF vars
<1> QED
  BY <1>1, <1>2, <1>3, <1>4, <1>5, <1>6, <1>7, <1>8, <1>9, <1>10, <1>11, <1>12, <1>13,
     <1>14, <1>15, <1>16, <1>17, <1>18, <1>19, <1>20, <1>21, <1>22, <1>23, <1>24, <1>25,
     <1>26, <1>27, <1>28, <1>29, <1>30, <1>31, <1>32
  DEF Next, AdmitRequest, Dispatch, Judge

(***************************************************************************)
(* What is written stays: wakes, admissions, frozen subscribers and bound  *)
(* runs; only the delivery of a wake adds one to those delivered.          *)
(***************************************************************************)
LEMMA GrowthStep ==
  ASSUME WatchTypeOK, WakeTypeOK, [Next]_vars
  PROVE  Growth
<1> USE DEF Growth, Audience, Accepted, Bound, WakeTypeOK, watchVars, rows, clocks, mail,
   polling, wakeVars, admissions, dispatches, judgments, talk, running
<1>1. ASSUME WatchNext, UNCHANGED wakeVars
      PROVE  Growth
  BY <1>1 DEF WatchNext, Poll, Tend, Pass, Claim, CollectionFails, Collect, Read, WritePoll,
     Abandon, CancelWatch, EndAtClaim, Lapse, Cool, Rebaseline
<1>2. ASSUME NEW r \in Requests, Reject(r)
      PROVE  Growth
  BY <1>2 DEF Reject, Admission
<1>3. ASSUME NEW r \in Requests, NEW o \in Owners, Reuse(r, o)
      PROVE  Growth
  BY <1>3 DEF Reuse, Admission
<1>4. ASSUME NEW r \in Requests, NEW c \in 0..journaled, Admit(r, c)
      PROVE  Growth
  BY <1>4 DEF Admit, Admission
<1>5. ASSUME NEW r \in Owners, Activate(r)
      PROVE  Growth
  BY <1>5 DEF Activate, CreateWatch
<1>6. ASSUME NEW k \in Runners, NEW m \in Wakes, PickWake(k, m)
      PROVE  Growth
  BY <1>6 DEF PickWake, Goto
<1>7. ASSUME NEW k \in Runners, Freeze(k)
      PROVE  Growth
  BY <1>7 DEF Freeze, Goto, CallbackSet
<1>8. ASSUME NEW k \in Runners, NEW r \in Requests, StartCallback(k, r)
      PROVE  Growth
  BY <1>8, CallbackIs DEF StartCallback, Goto
<1>9. ASSUME NEW k \in Runners, AppendBinding(k)
      PROVE  Growth
  BY <1>9 DEF AppendBinding, Goto
<1>10. ASSUME NEW k \in Runners, NEW r \in Requests, SkipBound(k, r)
      PROVE  Growth
  BY <1>10 DEF SkipBound
<1>11. ASSUME NEW k \in Runners, Deliver(k)
      PROVE  Growth
  BY <1>11 DEF Deliver, Leave, Goto
<1>12. ASSUME NEW k \in Runners, Select(k)
      PROVE  Growth
  BY <1>12 DEF Select, Goto
<1>13. ASSUME NEW k \in Runners, NEW c \in Callbacks, Prepare(k, c)
      PROVE  Growth
  BY <1>13 DEF Prepare, Goto
<1>14. ASSUME NEW k \in Runners, EnterRole(k)
      PROVE  Growth
  BY <1>14 DEF EnterRole, Goto
<1>15. ASSUME NEW k \in Runners, SealInterrupted(k)
      PROVE  Growth
  BY <1>15 DEF SealInterrupted, Result, Goto
<1>16. ASSUME NEW k \in Runners, ReopenRole(k)
      PROVE  Growth
  BY <1>16 DEF ReopenRole, Result, Goto
<1>17. ASSUME NEW k \in Runners, RefuseTurn(k)
      PROVE  Growth
  BY <1>17 DEF RefuseTurn, Result, Goto
<1>18. ASSUME NEW k \in Runners, ReplayTurn(k)
      PROVE  Growth
  BY <1>18 DEF ReplayTurn, Goto
<1>19. ASSUME NEW k \in Runners, OpenTurn(k)
      PROVE  Growth
  BY <1>19 DEF OpenTurn, Goto
<1>20. ASSUME NEW k \in Runners, SendTurn(k)
      PROVE  Growth
  BY <1>20 DEF SendTurn, Goto
<1>21. ASSUME NEW k \in Runners, NEW a \in Answers, ReceiveTurn(k, a)
      PROVE  Growth
  BY <1>21 DEF ReceiveTurn, Goto
<1>22. ASSUME NEW k \in Runners, TurnFails(k)
      PROVE  Growth
  BY <1>22 DEF TurnFails, Result, Goto
<1>23. ASSUME NEW k \in Runners, RefuseReply(k)
      PROVE  Growth
  BY <1>23 DEF RefuseReply, Result, Goto
<1>24. ASSUME NEW k \in Runners, StoreTurn(k)
      PROVE  Growth
  BY <1>24 DEF StoreTurn, Goto
<1>25. ASSUME NEW k \in Runners, CorrectAnswer(k)
      PROVE  Growth
  BY <1>25 DEF CorrectAnswer, Goto
<1>26. ASSUME NEW k \in Runners, SealAnswer(k)
      PROVE  Growth
  BY <1>26 DEF SealAnswer, Result, Goto
<1>27. ASSUME NEW k \in Runners, Charge(k)
      PROVE  Growth
  BY <1>27 DEF Charge, Goto
<1>28. ASSUME NEW k \in Runners, AdmitDecision(k)
      PROVE  Growth
  BY <1>28 DEF AdmitDecision, Goto
<1>29. ASSUME NEW k \in Runners, NoteJudgment(k)
      PROVE  Growth
  BY <1>29 DEF NoteJudgment, Goto
<1>30. ASSUME NEW k \in Runners, FinishDispatch(k)
      PROVE  Growth
  BY <1>30 DEF FinishDispatch, Leave, Goto
<1>31. ASSUME NEW k \in Runners, Quit(k)
      PROVE  Growth
  BY <1>31 DEF Quit, Leave, Goto
<1>32. CASE UNCHANGED vars
  BY <1>32 DEF vars
<1> QED
  BY <1>1, <1>2, <1>3, <1>4, <1>5, <1>6, <1>7, <1>8, <1>9, <1>10, <1>11, <1>12, <1>13,
     <1>14, <1>15, <1>16, <1>17, <1>18, <1>19, <1>20, <1>21, <1>22, <1>23, <1>24, <1>25,
     <1>26, <1>27, <1>28, <1>29, <1>30, <1>31, <1>32
  DEF Next, AdmitRequest, Dispatch, Judge

(***************************************************************************)
(* Every step freezes the subscribers of a wake among those that share its *)
(* watch.                                                                  *)
(***************************************************************************)
LEMMA FrozenStep ==
  ASSUME WatchTypeOK, WakeTypeOK, Frozen, DispatchHolds, Growth, [Next]_vars
  PROVE  Frozen'
<1> USE DEF Frozen, Growth, watchVars, rows, clocks, mail, polling, wakeVars, admissions,
   dispatches, judgments, talk, running
<1>1. ASSUME WatchNext, UNCHANGED wakeVars
      PROVE  Frozen'
  BY <1>1
<1>2. ASSUME NEW r \in Requests, Reject(r)
      PROVE  Frozen'
  BY <1>2 DEF Reject, Admission
<1>3. ASSUME NEW r \in Requests, NEW o \in Owners, Reuse(r, o)
      PROVE  Frozen'
  BY <1>3 DEF Reuse, Admission
<1>4. ASSUME NEW r \in Requests, NEW c \in 0..journaled, Admit(r, c)
      PROVE  Frozen'
  BY <1>4 DEF Admit, Admission
<1>5. ASSUME NEW r \in Owners, Activate(r)
      PROVE  Frozen'
  BY <1>5 DEF Activate, CreateWatch
<1>6. ASSUME NEW k \in Runners, NEW m \in Wakes, PickWake(k, m)
      PROVE  Frozen'
  BY <1>6 DEF PickWake, Goto
<1>7. ASSUME NEW k \in Runners, Freeze(k)
      PROVE  Frozen'
  BY <1>7 DEF Freeze, Goto, CallbackSet, DispatchHolds, DispatchHeld, WakeTypeOK
<1>8. ASSUME NEW k \in Runners, NEW r \in Requests, StartCallback(k, r)
      PROVE  Frozen'
  BY <1>8 DEF StartCallback, Goto
<1>9. ASSUME NEW k \in Runners, AppendBinding(k)
      PROVE  Frozen'
  BY <1>9 DEF AppendBinding, Goto
<1>10. ASSUME NEW k \in Runners, NEW r \in Requests, SkipBound(k, r)
      PROVE  Frozen'
  BY <1>10 DEF SkipBound
<1>11. ASSUME NEW k \in Runners, Deliver(k)
      PROVE  Frozen'
  BY <1>11 DEF Deliver, Leave, Goto
<1>12. ASSUME NEW k \in Runners, Select(k)
      PROVE  Frozen'
  BY <1>12 DEF Select, Goto
<1>13. ASSUME NEW k \in Runners, NEW c \in Callbacks, Prepare(k, c)
      PROVE  Frozen'
  BY <1>13 DEF Prepare, Goto
<1>14. ASSUME NEW k \in Runners, EnterRole(k)
      PROVE  Frozen'
  BY <1>14 DEF EnterRole, Goto
<1>15. ASSUME NEW k \in Runners, SealInterrupted(k)
      PROVE  Frozen'
  BY <1>15 DEF SealInterrupted, Result, Goto
<1>16. ASSUME NEW k \in Runners, ReopenRole(k)
      PROVE  Frozen'
  BY <1>16 DEF ReopenRole, Result, Goto
<1>17. ASSUME NEW k \in Runners, RefuseTurn(k)
      PROVE  Frozen'
  BY <1>17 DEF RefuseTurn, Result, Goto
<1>18. ASSUME NEW k \in Runners, ReplayTurn(k)
      PROVE  Frozen'
  BY <1>18 DEF ReplayTurn, Goto
<1>19. ASSUME NEW k \in Runners, OpenTurn(k)
      PROVE  Frozen'
  BY <1>19 DEF OpenTurn, Goto
<1>20. ASSUME NEW k \in Runners, SendTurn(k)
      PROVE  Frozen'
  BY <1>20 DEF SendTurn, Goto
<1>21. ASSUME NEW k \in Runners, NEW a \in Answers, ReceiveTurn(k, a)
      PROVE  Frozen'
  BY <1>21 DEF ReceiveTurn, Goto
<1>22. ASSUME NEW k \in Runners, TurnFails(k)
      PROVE  Frozen'
  BY <1>22 DEF TurnFails, Result, Goto
<1>23. ASSUME NEW k \in Runners, RefuseReply(k)
      PROVE  Frozen'
  BY <1>23 DEF RefuseReply, Result, Goto
<1>24. ASSUME NEW k \in Runners, StoreTurn(k)
      PROVE  Frozen'
  BY <1>24 DEF StoreTurn, Goto
<1>25. ASSUME NEW k \in Runners, CorrectAnswer(k)
      PROVE  Frozen'
  BY <1>25 DEF CorrectAnswer, Goto
<1>26. ASSUME NEW k \in Runners, SealAnswer(k)
      PROVE  Frozen'
  BY <1>26 DEF SealAnswer, Result, Goto
<1>27. ASSUME NEW k \in Runners, Charge(k)
      PROVE  Frozen'
  BY <1>27 DEF Charge, Goto
<1>28. ASSUME NEW k \in Runners, AdmitDecision(k)
      PROVE  Frozen'
  BY <1>28 DEF AdmitDecision, Goto
<1>29. ASSUME NEW k \in Runners, NoteJudgment(k)
      PROVE  Frozen'
  BY <1>29 DEF NoteJudgment, Goto
<1>30. ASSUME NEW k \in Runners, FinishDispatch(k)
      PROVE  Frozen'
  BY <1>30 DEF FinishDispatch, Leave, Goto
<1>31. ASSUME NEW k \in Runners, Quit(k)
      PROVE  Frozen'
  BY <1>31 DEF Quit, Leave, Goto
<1>32. CASE UNCHANGED vars
  BY <1>32 DEF vars
<1> QED
  BY <1>1, <1>2, <1>3, <1>4, <1>5, <1>6, <1>7, <1>8, <1>9, <1>10, <1>11, <1>12, <1>13,
     <1>14, <1>15, <1>16, <1>17, <1>18, <1>19, <1>20, <1>21, <1>22, <1>23, <1>24, <1>25,
     <1>26, <1>27, <1>28, <1>29, <1>30, <1>31, <1>32
  DEF Next, AdmitRequest, Dispatch, Judge

(* What a runner holds of a wake, or of a callback, is kept by a step that leaves the    *)
(* runner where it is, or keeps it at work on its callback.                              *)
Steady(j) == at'[j] = at[j] /\ wake'[j] = wake[j] /\ todo'[j] = todo[j] /\ call'[j] = call[j]

AtWork(j) ==
  /\ at[j] \notin {"idle", "freezing", "binding", "appending", "selected"}
  /\ at'[j] \notin {"idle", "freezing", "binding", "appending", "selected"}
  /\ call'[j] = call[j]

LEMMA DispatchFrame ==
  ASSUME NEW j \in Runners, WakeTypeOK, WakeTypeOK', DispatchHolds, Growth,
         Steady(j) \/ AtWork(j) \/ at'[j] \in {"idle", "selected"}
  PROVE  DispatchHeld(j)'
<1>1. DispatchHeld(j)
  BY DEF DispatchHolds
<1>2. /\ wake[j] \in Wakes /\ call[j] \in Callbacks /\ todo[j] \subseteq Requests
      /\ subscribers[wake[j]] \subseteq Requests
  BY DEF WakeTypeOK
<1>3. /\ wake[j] \in outbox => wake[j] \in outbox'
      /\ subscribers[wake[j]] # {} => subscribers'[wake[j]] = subscribers[wake[j]]
      /\ \A r \in Requests :
           Bound(<<wake[j], r>>) => run'[<<wake[j], r>>] \notin {"none", "started"}
      /\ Bound(call[j]) => run'[call[j]] \notin {"none", "started"}
      /\ run[call[j]] # "none" => run'[call[j]] # "none"
  BY <1>2, CallbackIs DEF Growth, Bound
<1>4. CASE Steady(j)
  BY <1>1, <1>2, <1>3, <1>4 DEF DispatchHeld, Steady, Bound
<1>5. CASE AtWork(j)
  BY <1>1, <1>3, <1>5 DEF DispatchHeld, AtWork, Bound
<1>6. CASE at'[j] \in {"idle", "selected"}
  BY <1>6 DEF DispatchHeld
<1> QED BY <1>4, <1>5, <1>6

(***************************************************************************)
(* Every step keeps the hold of each runner on the wake or the callback it *)
(* works on.                                                               *)
(***************************************************************************)
LEMMA DispatchStep ==
  ASSUME NEW j \in Runners, WakeTypeOK, WakeTypeOK', DispatchHolds, Growth, [Next]_vars
  PROVE  DispatchHeld(j)'
<1> USE DEF WakeTypeOK, watchVars, rows, clocks, mail, polling, wakeVars, admissions,
   dispatches, judgments, talk, running
<1>1. ASSUME WatchNext, UNCHANGED wakeVars
      PROVE  DispatchHeld(j)'
  BY <1>1, DispatchFrame DEF Steady, AtWork
<1>2. ASSUME NEW r \in Requests, Reject(r)
      PROVE  DispatchHeld(j)'
  BY <1>2, DispatchFrame DEF Reject, Admission, Steady, AtWork
<1>3. ASSUME NEW r \in Requests, NEW o \in Owners, Reuse(r, o)
      PROVE  DispatchHeld(j)'
  BY <1>3, DispatchFrame DEF Reuse, Admission, Steady, AtWork
<1>4. ASSUME NEW r \in Requests, NEW c \in 0..journaled, Admit(r, c)
      PROVE  DispatchHeld(j)'
  BY <1>4, DispatchFrame DEF Admit, Admission, Steady, AtWork
<1>5. ASSUME NEW r \in Owners, Activate(r)
      PROVE  DispatchHeld(j)'
  BY <1>5, DispatchFrame DEF Activate, CreateWatch, Steady, CreateWatch
<1>6. ASSUME NEW k \in Runners, NEW m \in Wakes, PickWake(k, m)
      PROVE  DispatchHeld(j)'
  <2>1. CASE j = k
    BY <1>6, <2>1, CallbackIs DEF DispatchHolds, DispatchHeld, Growth, Bound, PickWake, Goto
  <2>2. CASE j # k
    <3>1. Steady(j)
      BY <1>6, <2>2 DEF Steady, PickWake, Goto
    <3> QED BY <3>1, DispatchFrame
  <2> QED BY <2>1, <2>2
<1>7. ASSUME NEW k \in Runners, Freeze(k)
      PROVE  DispatchHeld(j)'
  <2>1. CASE j = k
    BY <1>7, <2>1, CallbackIs DEF DispatchHolds, DispatchHeld, Growth, Bound, Freeze, Goto
  <2>2. CASE j # k
    <3>1. Steady(j)
      BY <1>7, <2>2 DEF Steady, Freeze, Goto
    <3> QED BY <3>1, DispatchFrame
  <2> QED BY <2>1, <2>2
<1>8. ASSUME NEW k \in Runners, NEW r \in Requests, StartCallback(k, r)
      PROVE  DispatchHeld(j)'
  <2>1. CASE j = k
    BY <1>8, <2>1, CallbackIs DEF DispatchHolds, DispatchHeld, Growth, Bound, StartCallback,
       Goto
  <2>2. CASE j # k
    <3>1. Steady(j)
      BY <1>8, <2>2 DEF Steady, StartCallback, Goto
    <3> QED BY <3>1, DispatchFrame
  <2> QED BY <2>1, <2>2
<1>9. ASSUME NEW k \in Runners, AppendBinding(k)
      PROVE  DispatchHeld(j)'
  <2>1. CASE j = k
    BY <1>9, <2>1, CallbackIs DEF DispatchHolds, DispatchHeld, Growth, Bound, AppendBinding,
       Goto
  <2>2. CASE j # k
    <3>1. Steady(j)
      BY <1>9, <2>2 DEF Steady, AppendBinding, Goto
    <3> QED BY <3>1, DispatchFrame
  <2> QED BY <2>1, <2>2
<1>10. ASSUME NEW k \in Runners, NEW r \in Requests, SkipBound(k, r)
      PROVE  DispatchHeld(j)'
  <2>1. CASE j = k
    <3>1. /\ at[j] = "binding" /\ at'[j] = "binding" /\ wake'[j] = wake[j]
          /\ todo'[j] = todo[j] \ {r}
          /\ outbox' = outbox /\ subscribers' = subscribers /\ run' = run
          /\ Bound(<<wake[j], r>>)
      BY <1>10, <2>1 DEF SkipBound, Bound
    <3>2. DispatchHeld(j)
      BY DEF DispatchHolds
    <3> QED BY <3>1, <3>2 DEF DispatchHeld, Bound
  <2>2. CASE j # k
    <3>1. Steady(j)
      BY <1>10, <2>2 DEF Steady, SkipBound
    <3> QED BY <3>1, DispatchFrame
  <2> QED BY <2>1, <2>2
<1>11. ASSUME NEW k \in Runners, Deliver(k)
      PROVE  DispatchHeld(j)'
  <2>1. CASE j = k
    <3>1. AtWork(j) \/ at'[j] = "idle"
      BY <1>11, <2>1 DEF AtWork, Deliver, Leave, Goto
    <3> QED BY <3>1, DispatchFrame
  <2>2. CASE j # k
    <3>1. Steady(j)
      BY <1>11, <2>2 DEF Steady, Deliver, Leave, Goto
    <3> QED BY <3>1, DispatchFrame
  <2> QED BY <2>1, <2>2
<1>12. ASSUME NEW k \in Runners, Select(k)
      PROVE  DispatchHeld(j)'
  BY <1>12, DispatchFrame DEF Select, Goto, Steady, AtWork
<1>13. ASSUME NEW k \in Runners, NEW c \in Callbacks, Prepare(k, c)
      PROVE  DispatchHeld(j)'
  <2>1. CASE j = k
    BY <1>13, <2>1, CallbackIs DEF DispatchHolds, DispatchHeld, Growth, Bound, Prepare, Goto
  <2>2. CASE j # k
    <3>1. Steady(j)
      BY <1>13, <2>2 DEF Steady, Prepare, Goto
    <3> QED BY <3>1, DispatchFrame
  <2> QED BY <2>1, <2>2
<1>14. ASSUME NEW k \in Runners, EnterRole(k)
      PROVE  DispatchHeld(j)'
  <2>1. CASE j = k
    <3>1. AtWork(j) \/ at'[j] = "idle"
      BY <1>14, <2>1 DEF AtWork, EnterRole, Goto
    <3> QED BY <3>1, DispatchFrame
  <2>2. CASE j # k
    <3>1. Steady(j)
      BY <1>14, <2>2 DEF Steady, EnterRole, Goto
    <3> QED BY <3>1, DispatchFrame
  <2> QED BY <2>1, <2>2
<1>15. ASSUME NEW k \in Runners, SealInterrupted(k)
      PROVE  DispatchHeld(j)'
  <2>1. CASE j = k
    <3>1. AtWork(j) \/ at'[j] = "idle"
      BY <1>15, <2>1 DEF AtWork, SealInterrupted, Result, Goto
    <3> QED BY <3>1, DispatchFrame
  <2>2. CASE j # k
    <3>1. Steady(j)
      BY <1>15, <2>2 DEF Steady, SealInterrupted, Result, Goto
    <3> QED BY <3>1, DispatchFrame
  <2> QED BY <2>1, <2>2
<1>16. ASSUME NEW k \in Runners, ReopenRole(k)
      PROVE  DispatchHeld(j)'
  <2>1. CASE j = k
    <3>1. AtWork(j) \/ at'[j] = "idle"
      BY <1>16, <2>1 DEF AtWork, ReopenRole, Result, Goto
    <3> QED BY <3>1, DispatchFrame
  <2>2. CASE j # k
    <3>1. Steady(j)
      BY <1>16, <2>2 DEF Steady, ReopenRole, Result, Goto
    <3> QED BY <3>1, DispatchFrame
  <2> QED BY <2>1, <2>2
<1>17. ASSUME NEW k \in Runners, RefuseTurn(k)
      PROVE  DispatchHeld(j)'
  <2>1. CASE j = k
    <3>1. AtWork(j) \/ at'[j] = "idle"
      BY <1>17, <2>1 DEF AtWork, RefuseTurn, Result, Goto
    <3> QED BY <3>1, DispatchFrame
  <2>2. CASE j # k
    <3>1. Steady(j)
      BY <1>17, <2>2 DEF Steady, RefuseTurn, Result, Goto
    <3> QED BY <3>1, DispatchFrame
  <2> QED BY <2>1, <2>2
<1>18. ASSUME NEW k \in Runners, ReplayTurn(k)
      PROVE  DispatchHeld(j)'
  BY <1>18, DispatchFrame DEF ReplayTurn, Goto, Steady, AtWork
<1>19. ASSUME NEW k \in Runners, OpenTurn(k)
      PROVE  DispatchHeld(j)'
  BY <1>19, DispatchFrame DEF OpenTurn, Goto, Steady, AtWork
<1>20. ASSUME NEW k \in Runners, SendTurn(k)
      PROVE  DispatchHeld(j)'
  BY <1>20, DispatchFrame DEF SendTurn, Goto, Steady, AtWork
<1>21. ASSUME NEW k \in Runners, NEW a \in Answers, ReceiveTurn(k, a)
      PROVE  DispatchHeld(j)'
  <2>1. CASE j = k
    <3>1. AtWork(j) \/ at'[j] = "idle"
      BY <1>21, <2>1 DEF AtWork, ReceiveTurn, Goto
    <3> QED BY <3>1, DispatchFrame
  <2>2. CASE j # k
    <3>1. Steady(j)
      BY <1>21, <2>2 DEF Steady, ReceiveTurn, Goto
    <3> QED BY <3>1, DispatchFrame
  <2> QED BY <2>1, <2>2
<1>22. ASSUME NEW k \in Runners, TurnFails(k)
      PROVE  DispatchHeld(j)'
  <2>1. CASE j = k
    <3>1. AtWork(j) \/ at'[j] = "idle"
      BY <1>22, <2>1 DEF AtWork, TurnFails, Result, Goto
    <3> QED BY <3>1, DispatchFrame
  <2>2. CASE j # k
    <3>1. Steady(j)
      BY <1>22, <2>2 DEF Steady, TurnFails, Result, Goto
    <3> QED BY <3>1, DispatchFrame
  <2> QED BY <2>1, <2>2
<1>23. ASSUME NEW k \in Runners, RefuseReply(k)
      PROVE  DispatchHeld(j)'
  <2>1. CASE j = k
    <3>1. AtWork(j) \/ at'[j] = "idle"
      BY <1>23, <2>1 DEF AtWork, RefuseReply, Result, Goto
    <3> QED BY <3>1, DispatchFrame
  <2>2. CASE j # k
    <3>1. Steady(j)
      BY <1>23, <2>2 DEF Steady, RefuseReply, Result, Goto
    <3> QED BY <3>1, DispatchFrame
  <2> QED BY <2>1, <2>2
<1>24. ASSUME NEW k \in Runners, StoreTurn(k)
      PROVE  DispatchHeld(j)'
  BY <1>24, DispatchFrame DEF StoreTurn, Goto, Steady, AtWork
<1>25. ASSUME NEW k \in Runners, CorrectAnswer(k)
      PROVE  DispatchHeld(j)'
  BY <1>25, DispatchFrame DEF CorrectAnswer, Goto, Steady, AtWork
<1>26. ASSUME NEW k \in Runners, SealAnswer(k)
      PROVE  DispatchHeld(j)'
  <2>1. CASE j = k
    <3>1. AtWork(j) \/ at'[j] = "idle"
      BY <1>26, <2>1 DEF AtWork, SealAnswer, Result, Goto
    <3> QED BY <3>1, DispatchFrame
  <2>2. CASE j # k
    <3>1. Steady(j)
      BY <1>26, <2>2 DEF Steady, SealAnswer, Result, Goto
    <3> QED BY <3>1, DispatchFrame
  <2> QED BY <2>1, <2>2
<1>27. ASSUME NEW k \in Runners, Charge(k)
      PROVE  DispatchHeld(j)'
  BY <1>27, DispatchFrame DEF Charge, Goto, Steady, AtWork
<1>28. ASSUME NEW k \in Runners, AdmitDecision(k)
      PROVE  DispatchHeld(j)'
  BY <1>28, DispatchFrame DEF AdmitDecision, Goto, Steady, AtWork
<1>29. ASSUME NEW k \in Runners, NoteJudgment(k)
      PROVE  DispatchHeld(j)'
  <2>1. CASE j = k
    <3>1. AtWork(j) \/ at'[j] = "idle"
      BY <1>29, <2>1 DEF AtWork, NoteJudgment, Goto
    <3> QED BY <3>1, DispatchFrame
  <2>2. CASE j # k
    <3>1. Steady(j)
      BY <1>29, <2>2 DEF Steady, NoteJudgment, Goto
    <3> QED BY <3>1, DispatchFrame
  <2> QED BY <2>1, <2>2
<1>30. ASSUME NEW k \in Runners, FinishDispatch(k)
      PROVE  DispatchHeld(j)'
  <2>1. CASE j = k
    <3>1. AtWork(j) \/ at'[j] = "idle"
      BY <1>30, <2>1 DEF AtWork, FinishDispatch, Leave, Goto
    <3> QED BY <3>1, DispatchFrame
  <2>2. CASE j # k
    <3>1. Steady(j)
      BY <1>30, <2>2 DEF Steady, FinishDispatch, Leave, Goto
    <3> QED BY <3>1, DispatchFrame
  <2> QED BY <2>1, <2>2
<1>31. ASSUME NEW k \in Runners, Quit(k)
      PROVE  DispatchHeld(j)'
  <2>1. CASE j = k
    <3>1. AtWork(j) \/ at'[j] = "idle"
      BY <1>31, <2>1 DEF AtWork, Quit, Leave, Goto
    <3> QED BY <3>1, DispatchFrame
  <2>2. CASE j # k
    <3>1. Steady(j)
      BY <1>31, <2>2 DEF Steady, Quit, Leave, Goto
    <3> QED BY <3>1, DispatchFrame
  <2> QED BY <2>1, <2>2
<1>32. CASE UNCHANGED vars
  BY <1>32, DispatchFrame DEF vars, Steady
<1> QED
  BY <1>1, <1>2, <1>3, <1>4, <1>5, <1>6, <1>7, <1>8, <1>9, <1>10, <1>11, <1>12, <1>13,
     <1>14, <1>15, <1>16, <1>17, <1>18, <1>19, <1>20, <1>21, <1>22, <1>23, <1>24, <1>25,
     <1>26, <1>27, <1>28, <1>29, <1>30, <1>31, <1>32
  DEF Next, AdmitRequest, Dispatch, Judge

(***************************************************************************)
(* A wake is marked once each of its subscribers is bound, and only they   *)
(* are.                                                                    *)
(***************************************************************************)
LEMMA DeliveredStep ==
  ASSUME WakeTypeOK, WakeTypeOK', Frozen', DispatchHolds, Growth, DeliveredIsBound,
         [Next]_vars
  PROVE  DeliveredIsBound'
<1> USE DEF DeliveredIsBound, Frozen, Growth, Bound, WakeTypeOK, watchVars, rows, clocks,
   mail, polling, wakeVars, admissions, dispatches, judgments, talk, running
<1>1. ASSUME WatchNext, UNCHANGED wakeVars
      PROVE  DeliveredIsBound'
  <2>1. delivered' = delivered
    BY <1>1 DEF Deliver, Leave, Goto
  <2> QED BY <1>1, <2>1
<1>2. ASSUME NEW r \in Requests, Reject(r)
      PROVE  DeliveredIsBound'
  BY <1>2 DEF Reject, Admission
<1>3. ASSUME NEW r \in Requests, NEW o \in Owners, Reuse(r, o)
      PROVE  DeliveredIsBound'
  BY <1>3 DEF Reuse, Admission
<1>4. ASSUME NEW r \in Requests, NEW c \in 0..journaled, Admit(r, c)
      PROVE  DeliveredIsBound'
  BY <1>4 DEF Admit, Admission
<1>5. ASSUME NEW r \in Owners, Activate(r)
      PROVE  DeliveredIsBound'
  BY <1>5 DEF Activate, CreateWatch, CreateWatch
<1>6. ASSUME NEW k \in Runners, NEW m \in Wakes, PickWake(k, m)
      PROVE  DeliveredIsBound'
  BY <1>6 DEF PickWake, Goto
<1>7. ASSUME NEW k \in Runners, Freeze(k)
      PROVE  DeliveredIsBound'
  BY <1>7 DEF Freeze, Goto
<1>8. ASSUME NEW k \in Runners, NEW r \in Requests, StartCallback(k, r)
      PROVE  DeliveredIsBound'
  BY <1>8 DEF StartCallback, Goto, DispatchHolds, DispatchHeld
<1>9. ASSUME NEW k \in Runners, AppendBinding(k)
      PROVE  DeliveredIsBound'
  BY <1>9 DEF AppendBinding, Goto, DispatchHolds, DispatchHeld
<1>10. ASSUME NEW k \in Runners, NEW r \in Requests, SkipBound(k, r)
      PROVE  DeliveredIsBound'
  BY <1>10 DEF SkipBound
<1>11. ASSUME NEW k \in Runners, Deliver(k)
      PROVE  DeliveredIsBound'
  BY <1>11 DEF Deliver, Leave, Goto, DispatchHolds, DispatchHeld
<1>12. ASSUME NEW k \in Runners, Select(k)
      PROVE  DeliveredIsBound'
  BY <1>12 DEF Select, Goto
<1>13. ASSUME NEW k \in Runners, NEW c \in Callbacks, Prepare(k, c)
      PROVE  DeliveredIsBound'
  BY <1>13 DEF Prepare, Goto
<1>14. ASSUME NEW k \in Runners, EnterRole(k)
      PROVE  DeliveredIsBound'
  BY <1>14 DEF EnterRole, Goto
<1>15. ASSUME NEW k \in Runners, SealInterrupted(k)
      PROVE  DeliveredIsBound'
  BY <1>15 DEF SealInterrupted, Result, Goto
<1>16. ASSUME NEW k \in Runners, ReopenRole(k)
      PROVE  DeliveredIsBound'
  BY <1>16 DEF ReopenRole, Result, Goto
<1>17. ASSUME NEW k \in Runners, RefuseTurn(k)
      PROVE  DeliveredIsBound'
  BY <1>17 DEF RefuseTurn, Result, Goto
<1>18. ASSUME NEW k \in Runners, ReplayTurn(k)
      PROVE  DeliveredIsBound'
  BY <1>18 DEF ReplayTurn, Goto
<1>19. ASSUME NEW k \in Runners, OpenTurn(k)
      PROVE  DeliveredIsBound'
  BY <1>19 DEF OpenTurn, Goto
<1>20. ASSUME NEW k \in Runners, SendTurn(k)
      PROVE  DeliveredIsBound'
  BY <1>20 DEF SendTurn, Goto
<1>21. ASSUME NEW k \in Runners, NEW a \in Answers, ReceiveTurn(k, a)
      PROVE  DeliveredIsBound'
  BY <1>21 DEF ReceiveTurn, Goto
<1>22. ASSUME NEW k \in Runners, TurnFails(k)
      PROVE  DeliveredIsBound'
  BY <1>22 DEF TurnFails, Result, Goto
<1>23. ASSUME NEW k \in Runners, RefuseReply(k)
      PROVE  DeliveredIsBound'
  BY <1>23 DEF RefuseReply, Result, Goto
<1>24. ASSUME NEW k \in Runners, StoreTurn(k)
      PROVE  DeliveredIsBound'
  BY <1>24 DEF StoreTurn, Goto
<1>25. ASSUME NEW k \in Runners, CorrectAnswer(k)
      PROVE  DeliveredIsBound'
  BY <1>25 DEF CorrectAnswer, Goto
<1>26. ASSUME NEW k \in Runners, SealAnswer(k)
      PROVE  DeliveredIsBound'
  BY <1>26 DEF SealAnswer, Result, Goto
<1>27. ASSUME NEW k \in Runners, Charge(k)
      PROVE  DeliveredIsBound'
  BY <1>27 DEF Charge, Goto
<1>28. ASSUME NEW k \in Runners, AdmitDecision(k)
      PROVE  DeliveredIsBound'
  BY <1>28 DEF AdmitDecision, Goto
<1>29. ASSUME NEW k \in Runners, NoteJudgment(k)
      PROVE  DeliveredIsBound'
  <2>1. Bound(call[k]) /\ call[k] \in Callbacks
    BY <1>29 DEF NoteJudgment, DispatchHolds, DispatchHeld
  <2>2. /\ delivered' = delivered /\ subscribers' = subscribers
        /\ run' = [run EXCEPT ![call[k]] = IF @ = "ended" THEN @ ELSE "noted"]
    BY <1>29 DEF NoteJudgment
  <2>3. \A c \in Callbacks : run'[c] # "none" => run[c] # "none"
    BY <2>1, <2>2
  <2>4. \A c \in Callbacks : run[c] \notin {"none", "started"} => run'[c] \notin {"none", "started"}
    BY <2>1, <2>2
  <2> HIDE DEF Growth
  <2> QED BY <2>2, <2>3, <2>4, CallbackIs
<1>30. ASSUME NEW k \in Runners, FinishDispatch(k)
      PROVE  DeliveredIsBound'
  BY <1>30 DEF FinishDispatch, Leave, Goto, DispatchHolds, DispatchHeld
<1>31. ASSUME NEW k \in Runners, Quit(k)
      PROVE  DeliveredIsBound'
  BY <1>31 DEF Quit, Leave, Goto
<1>32. CASE UNCHANGED vars
  BY <1>32 DEF vars
<1> QED
  BY <1>1, <1>2, <1>3, <1>4, <1>5, <1>6, <1>7, <1>8, <1>9, <1>10, <1>11, <1>12, <1>13,
     <1>14, <1>15, <1>16, <1>17, <1>18, <1>19, <1>20, <1>21, <1>22, <1>23, <1>24, <1>25,
     <1>26, <1>27, <1>28, <1>29, <1>30, <1>31, <1>32
  DEF Next, AdmitRequest, Dispatch, Judge

(***************************************************************************)
(* Every step keeps the claim of a role exclusive.                         *)
(***************************************************************************)
LEMMA RoleClaimStep ==
  ASSUME WakeTypeOK, RoleClaimed, [Next]_vars
  PROVE  RoleClaimed'
<1> USE DEF RoleClaimed, Judging, WakeTypeOK, watchVars, rows, clocks, mail, polling,
   wakeVars, admissions, dispatches, judgments, talk, running
<1>1. ASSUME WatchNext, UNCHANGED wakeVars
      PROVE  RoleClaimed'
  BY <1>1
<1>2. ASSUME NEW r \in Requests, Reject(r)
      PROVE  RoleClaimed'
  BY <1>2 DEF Reject, Admission
<1>3. ASSUME NEW r \in Requests, NEW o \in Owners, Reuse(r, o)
      PROVE  RoleClaimed'
  BY <1>3 DEF Reuse, Admission
<1>4. ASSUME NEW r \in Requests, NEW c \in 0..journaled, Admit(r, c)
      PROVE  RoleClaimed'
  BY <1>4 DEF Admit, Admission
<1>5. ASSUME NEW r \in Owners, Activate(r)
      PROVE  RoleClaimed'
  BY <1>5 DEF Activate, CreateWatch
<1>6. ASSUME NEW k \in Runners, NEW m \in Wakes, PickWake(k, m)
      PROVE  RoleClaimed'
  BY <1>6 DEF PickWake, Goto
<1>7. ASSUME NEW k \in Runners, Freeze(k)
      PROVE  RoleClaimed'
  BY <1>7 DEF Freeze, Goto
<1>8. ASSUME NEW k \in Runners, NEW r \in Requests, StartCallback(k, r)
      PROVE  RoleClaimed'
  BY <1>8 DEF StartCallback, Goto
<1>9. ASSUME NEW k \in Runners, AppendBinding(k)
      PROVE  RoleClaimed'
  BY <1>9 DEF AppendBinding, Goto
<1>10. ASSUME NEW k \in Runners, NEW r \in Requests, SkipBound(k, r)
      PROVE  RoleClaimed'
  BY <1>10 DEF SkipBound
<1>11. ASSUME NEW k \in Runners, Deliver(k)
      PROVE  RoleClaimed'
  BY <1>11 DEF Deliver, Leave, Goto
<1>12. ASSUME NEW k \in Runners, Select(k)
      PROVE  RoleClaimed'
  BY <1>12 DEF Select, Goto
<1>13. ASSUME NEW k \in Runners, NEW c \in Callbacks, Prepare(k, c)
      PROVE  RoleClaimed'
  BY <1>13 DEF Prepare, Goto
<1>14. ASSUME NEW k \in Runners, EnterRole(k)
      PROVE  RoleClaimed'
  BY <1>14 DEF EnterRole, Goto, RoleTaken
<1>15. ASSUME NEW k \in Runners, SealInterrupted(k)
      PROVE  RoleClaimed'
  BY <1>15 DEF SealInterrupted, Result, Goto
<1>16. ASSUME NEW k \in Runners, ReopenRole(k)
      PROVE  RoleClaimed'
  BY <1>16 DEF ReopenRole, Result, Goto
<1>17. ASSUME NEW k \in Runners, RefuseTurn(k)
      PROVE  RoleClaimed'
  BY <1>17 DEF RefuseTurn, Result, Goto
<1>18. ASSUME NEW k \in Runners, ReplayTurn(k)
      PROVE  RoleClaimed'
  BY <1>18 DEF ReplayTurn, Goto
<1>19. ASSUME NEW k \in Runners, OpenTurn(k)
      PROVE  RoleClaimed'
  BY <1>19 DEF OpenTurn, Goto
<1>20. ASSUME NEW k \in Runners, SendTurn(k)
      PROVE  RoleClaimed'
  BY <1>20 DEF SendTurn, Goto
<1>21. ASSUME NEW k \in Runners, NEW a \in Answers, ReceiveTurn(k, a)
      PROVE  RoleClaimed'
  BY <1>21 DEF ReceiveTurn, Goto
<1>22. ASSUME NEW k \in Runners, TurnFails(k)
      PROVE  RoleClaimed'
  BY <1>22 DEF TurnFails, Result, Goto
<1>23. ASSUME NEW k \in Runners, RefuseReply(k)
      PROVE  RoleClaimed'
  BY <1>23 DEF RefuseReply, Result, Goto
<1>24. ASSUME NEW k \in Runners, StoreTurn(k)
      PROVE  RoleClaimed'
  BY <1>24 DEF StoreTurn, Goto
<1>25. ASSUME NEW k \in Runners, CorrectAnswer(k)
      PROVE  RoleClaimed'
  BY <1>25 DEF CorrectAnswer, Goto
<1>26. ASSUME NEW k \in Runners, SealAnswer(k)
      PROVE  RoleClaimed'
  BY <1>26 DEF SealAnswer, Result, Goto
<1>27. ASSUME NEW k \in Runners, Charge(k)
      PROVE  RoleClaimed'
  BY <1>27 DEF Charge, Goto
<1>28. ASSUME NEW k \in Runners, AdmitDecision(k)
      PROVE  RoleClaimed'
  BY <1>28 DEF AdmitDecision, Goto
<1>29. ASSUME NEW k \in Runners, NoteJudgment(k)
      PROVE  RoleClaimed'
  BY <1>29 DEF NoteJudgment, Goto
<1>30. ASSUME NEW k \in Runners, FinishDispatch(k)
      PROVE  RoleClaimed'
  BY <1>30 DEF FinishDispatch, Leave, Goto
<1>31. ASSUME NEW k \in Runners, Quit(k)
      PROVE  RoleClaimed'
  BY <1>31 DEF Quit, Leave, Goto
<1>32. CASE UNCHANGED vars
  BY <1>32 DEF vars
<1> QED
  BY <1>1, <1>2, <1>3, <1>4, <1>5, <1>6, <1>7, <1>8, <1>9, <1>10, <1>11, <1>12, <1>13,
     <1>14, <1>15, <1>16, <1>17, <1>18, <1>19, <1>20, <1>21, <1>22, <1>23, <1>24, <1>25,
     <1>26, <1>27, <1>28, <1>29, <1>30, <1>31, <1>32
  DEF Next, AdmitRequest, Dispatch, Judge

(* What the conversation of a callback has come to, and what is kept of it by a step.    *)
SameTurn(j) ==
  at'[j] = at[j] /\ call'[j] = call[j] /\ turn'[j] = turn[j] /\ tally'[j] = tally[j]

SameRecord(c) ==
  /\ role'[c] = role[c] /\ asked'[c] = asked[c] /\ answered'[c] = answered[c]
  /\ stored'[c] = stored[c] /\ reply'[c] = reply[c] /\ usage'[c] = usage[c]
  /\ (c \in decided' <=> c \in decided)

Early == {"idle", "freezing", "binding", "appending", "selected", "claiming"}

LEMMA TurnFrame ==
  ASSUME NEW j \in Runners, TurnHeld(j), SameTurn(j), SameRecord(call[j])
  PROVE  TurnHeld(j)'
BY DEF TurnHeld, SameTurn, SameRecord, Judging, RoleEnded

LEMMA TurnEarly ==
  ASSUME NEW j \in Runners, at'[j] \in Early
  PROVE  TurnHeld(j)'
BY DEF TurnHeld, Early, Judging

LEMMA Squeeze ==
  ASSUME NEW t \in Nat, NEW a \in Nat, NEW b \in Nat, NEW s \in Nat, t > a, t =< s + 1, s =<
         b,
         b =< a
  PROVE  t = b + 1 /\ a = b /\ s = b
OBVIOUS

LEMMA TurnDispatching ==
  ASSUME NEW j \in Runners, NEW c, at'[j] = "dispatching", call'[j] = c, role'[c] =
         "running",
         turn'[j] = answered'[c] + 1, turn'[j] >= 1, asked'[c] = answered'[c],
         stored'[c] = answered'[c],
         turn'[j] > 1 => reply'[c] = "malformed"
  PROVE  TurnHeld(j)'
BY DEF TurnHeld, Judging

LEMMA TurnCharging ==
  ASSUME NEW j \in Runners, NEW c, at'[j] = "charging", call'[j] = c,
         role'[c] \in {"completed", "failed"}, role'[c] = "completed" => tally'[j] = stored'[c]
  PROVE  TurnHeld(j)'
BY DEF TurnHeld, Judging, RoleEnded

LEMMA RecordFrame ==
  ASSUME NEW c \in Callbacks, Judged(c), Correcting(c), SameRecord(c), run'[c] = run[c]
  PROVE  Judged(c)' /\ Correcting(c)'
BY DEF Judged, Correcting, SameRecord, RoleEnded

(***************************************************************************)
(* Every step keeps the hold of each runner on the conversation of its     *)
(* callback.                                                               *)
(***************************************************************************)
LEMMA TurnStep ==
  ASSUME NEW j \in Runners, WakeTypeOK, WakeTypeOK', RoleClaimed, JudgedOnce, TurnHeld(j),
         \A k \in Runners : TurnHeld(k), [Next]_vars
  PROVE  TurnHeld(j)'
<1> USE AttentionWatchAssumption, WatchWakesAssumption DEF WakeTypeOK, JudgedOnce,
   watchVars, rows, clocks, mail, polling, wakeVars, admissions, dispatches, judgments,
   talk, running
<1>1. ASSUME WatchNext, UNCHANGED wakeVars
      PROVE  TurnHeld(j)'
  <2>1. SameTurn(j) /\ SameRecord(call[j])
    BY <1>1 DEF SameTurn, SameRecord
  <2> QED BY <2>1, TurnFrame
<1>2. ASSUME NEW r \in Requests, Reject(r)
      PROVE  TurnHeld(j)'
  <2>1. at'[j] \in Early \/ (SameTurn(j) /\ SameRecord(call[j]))
    BY <1>2 DEF Early, SameTurn, SameRecord, Reject, Admission
  <2> QED BY <2>1, TurnFrame, TurnEarly
<1>3. ASSUME NEW r \in Requests, NEW o \in Owners, Reuse(r, o)
      PROVE  TurnHeld(j)'
  <2>1. at'[j] \in Early \/ (SameTurn(j) /\ SameRecord(call[j]))
    BY <1>3 DEF Early, SameTurn, SameRecord, Reuse, Admission
  <2> QED BY <2>1, TurnFrame, TurnEarly
<1>4. ASSUME NEW r \in Requests, NEW c \in 0..journaled, Admit(r, c)
      PROVE  TurnHeld(j)'
  <2>1. at'[j] \in Early \/ (SameTurn(j) /\ SameRecord(call[j]))
    BY <1>4 DEF Early, SameTurn, SameRecord, Admit, Admission
  <2> QED BY <2>1, TurnFrame, TurnEarly
<1>5. ASSUME NEW r \in Owners, Activate(r)
      PROVE  TurnHeld(j)'
  <2>1. at'[j] \in Early \/ (SameTurn(j) /\ SameRecord(call[j]))
    BY <1>5 DEF Early, SameTurn, SameRecord, Activate, CreateWatch
  <2> QED BY <2>1, TurnFrame, TurnEarly
<1>6. ASSUME NEW k \in Runners, NEW m \in Wakes, PickWake(k, m)
      PROVE  TurnHeld(j)'
  <2>1. at'[j] \in Early \/ (SameTurn(j) /\ SameRecord(call[j]))
    BY <1>6 DEF Early, SameTurn, SameRecord, PickWake, Goto
  <2> QED BY <2>1, TurnFrame, TurnEarly
<1>7. ASSUME NEW k \in Runners, Freeze(k)
      PROVE  TurnHeld(j)'
  <2>1. at'[j] \in Early \/ (SameTurn(j) /\ SameRecord(call[j]))
    BY <1>7 DEF Early, SameTurn, SameRecord, Freeze, Goto
  <2> QED BY <2>1, TurnFrame, TurnEarly
<1>8. ASSUME NEW k \in Runners, NEW r \in Requests, StartCallback(k, r)
      PROVE  TurnHeld(j)'
  <2>1. at'[j] \in Early \/ (SameTurn(j) /\ SameRecord(call[j]))
    BY <1>8 DEF Early, SameTurn, SameRecord, StartCallback, Goto
  <2> QED BY <2>1, TurnFrame, TurnEarly
<1>9. ASSUME NEW k \in Runners, AppendBinding(k)
      PROVE  TurnHeld(j)'
  <2>1. at'[j] \in Early \/ (SameTurn(j) /\ SameRecord(call[j]))
    BY <1>9 DEF Early, SameTurn, SameRecord, AppendBinding, Goto
  <2> QED BY <2>1, TurnFrame, TurnEarly
<1>10. ASSUME NEW k \in Runners, NEW r \in Requests, SkipBound(k, r)
      PROVE  TurnHeld(j)'
  <2>1. at'[j] \in Early \/ (SameTurn(j) /\ SameRecord(call[j]))
    BY <1>10 DEF Early, SameTurn, SameRecord, SkipBound
  <2> QED BY <2>1, TurnFrame, TurnEarly
<1>11. ASSUME NEW k \in Runners, Deliver(k)
      PROVE  TurnHeld(j)'
  <2>1. at'[j] \in Early \/ (SameTurn(j) /\ SameRecord(call[j]))
    BY <1>11 DEF Early, SameTurn, SameRecord, Deliver, Leave, Goto
  <2> QED BY <2>1, TurnFrame, TurnEarly
<1>12. ASSUME NEW k \in Runners, Select(k)
      PROVE  TurnHeld(j)'
  <2>1. at'[j] \in Early \/ (SameTurn(j) /\ SameRecord(call[j]))
    BY <1>12 DEF Early, SameTurn, SameRecord, Select, Goto
  <2> QED BY <2>1, TurnFrame, TurnEarly
<1>13. ASSUME NEW k \in Runners, NEW c \in Callbacks, Prepare(k, c)
      PROVE  TurnHeld(j)'
  <2>1. at'[j] \in Early \/ (SameTurn(j) /\ SameRecord(call[j]))
    BY <1>13 DEF Early, SameTurn, SameRecord, Prepare, Goto
  <2> QED BY <2>1, TurnFrame, TurnEarly
<1>14. ASSUME NEW k \in Runners, EnterRole(k)
      PROVE  TurnHeld(j)'
  <2>1. CASE j = k
    BY <1>14, <2>1 DEF TurnHeld, RoleEnded, Judging, Judged, EnterRole, Goto, RoleTaken,
       Interrupted
  <2>2. CASE j # k /\ call[j] = call[k]
    BY <1>14, <2>2 DEF TurnHeld, RoleEnded, Judging, RoleClaimed, EnterRole, Goto,
       RoleTaken, Interrupted
  <2>3. CASE j # k /\ call[j] # call[k]
    <3>1. SameTurn(j) /\ SameRecord(call[j])
      BY <1>14, <2>3 DEF SameTurn, SameRecord, EnterRole, Goto
    <3> QED BY <3>1, TurnFrame
  <2> QED BY <2>1, <2>2, <2>3
<1>15. ASSUME NEW k \in Runners, SealInterrupted(k)
      PROVE  TurnHeld(j)'
  <2>1. CASE j = k
    BY <1>15, <2>1 DEF TurnHeld, RoleEnded, Judging, Judged, SealInterrupted, Result, Goto,
       RoleTaken, Interrupted
  <2>2. CASE j # k /\ call[j] = call[k]
    BY <1>15, <2>2 DEF TurnHeld, RoleEnded, Judging, RoleClaimed, SealInterrupted, Result,
       Goto, RoleTaken, Interrupted
  <2>3. CASE j # k /\ call[j] # call[k]
    <3>1. SameTurn(j) /\ SameRecord(call[j])
      BY <1>15, <2>3 DEF SameTurn, SameRecord, SealInterrupted, Result, Goto
    <3> QED BY <3>1, TurnFrame
  <2> QED BY <2>1, <2>2, <2>3
<1>16. ASSUME NEW k \in Runners, ReopenRole(k)
      PROVE  TurnHeld(j)'
  <2>1. CASE j = k
    BY <1>16, <2>1 DEF TurnHeld, RoleEnded, Judging, Judged, ReopenRole, Result, Goto,
       RoleTaken, RoleEnded
  <2>2. CASE j # k /\ call[j] = call[k]
    BY <1>16, <2>2 DEF TurnHeld, RoleEnded, Judging, RoleClaimed, ReopenRole, Result, Goto,
       RoleTaken, RoleEnded
  <2>3. CASE j # k /\ call[j] # call[k]
    <3>1. SameTurn(j) /\ SameRecord(call[j])
      BY <1>16, <2>3 DEF SameTurn, SameRecord, ReopenRole, Result, Goto
    <3> QED BY <3>1, TurnFrame
  <2> QED BY <2>1, <2>2, <2>3
<1>17. ASSUME NEW k \in Runners, RefuseTurn(k)
      PROVE  TurnHeld(j)'
  <2>1. CASE j = k
    BY <1>17, <2>1 DEF TurnHeld, RoleEnded, Judging, Judged, RefuseTurn, Result, Goto
  <2>2. CASE j # k /\ call[j] = call[k]
    BY <1>17, <2>2 DEF TurnHeld, RoleEnded, Judging, RoleClaimed, RefuseTurn, Result, Goto
  <2>3. CASE j # k /\ call[j] # call[k]
    <3>1. SameTurn(j) /\ SameRecord(call[j])
      BY <1>17, <2>3 DEF SameTurn, SameRecord, RefuseTurn, Result, Goto
    <3> QED BY <3>1, TurnFrame
  <2> QED BY <2>1, <2>2, <2>3
<1>18. ASSUME NEW k \in Runners, ReplayTurn(k)
      PROVE  TurnHeld(j)'
  <2>1. CASE j = k
    BY <1>18, <2>1 DEF TurnHeld, RoleEnded, Judging, Judged, ReplayTurn, Goto
  <2>2. CASE j # k /\ call[j] = call[k]
    BY <1>18, <2>2 DEF TurnHeld, RoleEnded, Judging, RoleClaimed, ReplayTurn, Goto
  <2>3. CASE j # k /\ call[j] # call[k]
    <3>1. SameTurn(j) /\ SameRecord(call[j])
      BY <1>18, <2>3 DEF SameTurn, SameRecord, ReplayTurn, Goto
    <3> QED BY <3>1, TurnFrame
  <2> QED BY <2>1, <2>2, <2>3
<1>19. ASSUME NEW k \in Runners, OpenTurn(k)
      PROVE  TurnHeld(j)'
  <2>1. CASE j = k
    <3> DEFINE c == call[j]
    <3>1. /\ at[j] = "asking" /\ at'[j] = "dispatching" /\ call'[j] = c /\ turn'[j] = turn[j]
          /\ turn[j] > asked[c] /\ SameRecord(c)
      BY <1>19, <2>1 DEF OpenTurn, Goto, SameRecord
    <3>2. /\ turn[j] =< stored[c] + 1 /\ turn[j] >= 1 /\ role[c] = "running"
          /\ turn[j] = answered[c] + 1 /\ turn[j] > 1 => reply[c] = "malformed"
      BY <3>1 DEF TurnHeld, Judging
    <3>3. /\ c \in Callbacks /\ turn[j] \in Nat /\ asked[c] \in Nat /\ answered[c] \in Nat
          /\ stored[c] \in Nat /\ stored[c] =< answered[c] /\ answered[c] =< asked[c]
      BY DEF Judged
    <3> HIDE DEF c, WakeTypeOK, JudgedOnce
    <3>4. turn[j] = answered[c] + 1 /\ asked[c] = answered[c] /\ stored[c] = answered[c]
      BY <3>1, <3>2, <3>3, Squeeze
    <3>5. /\ role'[c] = "running" /\ turn'[j] = answered'[c] + 1 /\ turn'[j] >= 1
          /\ asked'[c] = answered'[c] /\ stored'[c] = answered'[c]
          /\ (turn'[j] > 1 => reply'[c] = "malformed")
      BY <3>1, <3>2, <3>4 DEF SameRecord
    <3> QED BY <3>1, <3>5, TurnDispatching
  <2>2. CASE j # k /\ call[j] = call[k]
    BY <1>19, <2>2 DEF TurnHeld, RoleEnded, Judging, RoleClaimed, OpenTurn, Goto
  <2>3. CASE j # k /\ call[j] # call[k]
    <3>1. SameTurn(j) /\ SameRecord(call[j])
      BY <1>19, <2>3 DEF SameTurn, SameRecord, OpenTurn, Goto
    <3> QED BY <3>1, TurnFrame
  <2> QED BY <2>1, <2>2, <2>3
<1>20. ASSUME NEW k \in Runners, SendTurn(k)
      PROVE  TurnHeld(j)'
  <2>1. CASE j = k
    BY <1>20, <2>1 DEF TurnHeld, RoleEnded, Judging, Judged, SendTurn, Goto
  <2>2. CASE j # k /\ call[j] = call[k]
    BY <1>20, <2>2 DEF TurnHeld, RoleEnded, Judging, RoleClaimed, SendTurn, Goto
  <2>3. CASE j # k /\ call[j] # call[k]
    <3>1. SameTurn(j) /\ SameRecord(call[j])
      BY <1>20, <2>3 DEF SameTurn, SameRecord, SendTurn, Goto
    <3> QED BY <3>1, TurnFrame
  <2> QED BY <2>1, <2>2, <2>3
<1>21. ASSUME NEW k \in Runners, NEW a \in Answers, ReceiveTurn(k, a)
      PROVE  TurnHeld(j)'
  <2>1. CASE j = k
    BY <1>21, <2>1 DEF TurnHeld, RoleEnded, Judging, Judged, ReceiveTurn, Goto
  <2>2. CASE j # k /\ call[j] = call[k]
    BY <1>21, <2>2 DEF TurnHeld, RoleEnded, Judging, RoleClaimed, ReceiveTurn, Goto
  <2>3. CASE j # k /\ call[j] # call[k]
    <3>1. SameTurn(j) /\ SameRecord(call[j])
      BY <1>21, <2>3 DEF SameTurn, SameRecord, ReceiveTurn, Goto
    <3> QED BY <3>1, TurnFrame
  <2> QED BY <2>1, <2>2, <2>3
<1>22. ASSUME NEW k \in Runners, TurnFails(k)
      PROVE  TurnHeld(j)'
  <2>1. CASE j = k
    BY <1>22, <2>1 DEF TurnHeld, RoleEnded, Judging, Judged, TurnFails, Result, Goto
  <2>2. CASE j # k /\ call[j] = call[k]
    BY <1>22, <2>2 DEF TurnHeld, RoleEnded, Judging, RoleClaimed, TurnFails, Result, Goto
  <2>3. CASE j # k /\ call[j] # call[k]
    <3>1. SameTurn(j) /\ SameRecord(call[j])
      BY <1>22, <2>3 DEF SameTurn, SameRecord, TurnFails, Result, Goto
    <3> QED BY <3>1, TurnFrame
  <2> QED BY <2>1, <2>2, <2>3
<1>23. ASSUME NEW k \in Runners, RefuseReply(k)
      PROVE  TurnHeld(j)'
  <2>1. CASE j = k
    BY <1>23, <2>1 DEF TurnHeld, RoleEnded, Judging, Judged, RefuseReply, Result, Goto,
       Answer
  <2>2. CASE j # k /\ call[j] = call[k]
    BY <1>23, <2>2 DEF TurnHeld, RoleEnded, Judging, RoleClaimed, RefuseReply, Result, Goto,
       Answer
  <2>3. CASE j # k /\ call[j] # call[k]
    <3>1. SameTurn(j) /\ SameRecord(call[j])
      BY <1>23, <2>3 DEF SameTurn, SameRecord, RefuseReply, Result, Goto
    <3> QED BY <3>1, TurnFrame
  <2> QED BY <2>1, <2>2, <2>3
<1>24. ASSUME NEW k \in Runners, StoreTurn(k)
      PROVE  TurnHeld(j)'
  <2>1. CASE j = k
    BY <1>24, <2>1 DEF TurnHeld, RoleEnded, Judging, Judged, StoreTurn, Goto, Answer
  <2>2. CASE j # k /\ call[j] = call[k]
    BY <1>24, <2>2 DEF TurnHeld, RoleEnded, Judging, RoleClaimed, StoreTurn, Goto, Answer
  <2>3. CASE j # k /\ call[j] # call[k]
    <3>1. SameTurn(j) /\ SameRecord(call[j])
      BY <1>24, <2>3 DEF SameTurn, SameRecord, StoreTurn, Goto
    <3> QED BY <3>1, TurnFrame
  <2> QED BY <2>1, <2>2, <2>3
<1>25. ASSUME NEW k \in Runners, CorrectAnswer(k)
      PROVE  TurnHeld(j)'
  <2>1. CASE j = k
    BY <1>25, <2>1 DEF TurnHeld, RoleEnded, Judging, Judged, CorrectAnswer, Goto, Answer
  <2>2. CASE j # k /\ call[j] = call[k]
    BY <1>25, <2>2 DEF TurnHeld, RoleEnded, Judging, RoleClaimed, CorrectAnswer, Goto,
       Answer
  <2>3. CASE j # k /\ call[j] # call[k]
    <3>1. SameTurn(j) /\ SameRecord(call[j])
      BY <1>25, <2>3 DEF SameTurn, SameRecord, CorrectAnswer, Goto
    <3> QED BY <3>1, TurnFrame
  <2> QED BY <2>1, <2>2, <2>3
<1>26. ASSUME NEW k \in Runners, SealAnswer(k)
      PROVE  TurnHeld(j)'
  <2>1. CASE j = k
    <3> DEFINE c == call[j]
    <3>1. /\ at[j] = "judging" /\ at'[j] = "charging" /\ call'[j] = c /\ tally'[j] = turn[j]
          /\ role'[c] = IF Answer(k) = "valid" THEN "completed" ELSE "failed"
          /\ stored'[c] = stored[c]
      BY <1>26, <2>1 DEF SealAnswer, Result, Goto
    <3>2. /\ turn[j] =< stored[c] /\ stored[c] =< answered[c]
          /\ c \in Callbacks /\ turn[j] \in Nat /\ answered[c] \in Nat /\ stored[c] \in Nat
      BY <3>1 DEF TurnHeld, Judged
    <3> HIDE DEF WakeTypeOK, JudgedOnce
    <3>3. Answer(k) = "valid" => ~(turn[j] < answered[c])
      BY <2>1 DEF Answer
    <3>4. role'[c] \in {"completed", "failed"} /\ (role'[c] = "completed" => tally'[j] = stored'[c])
      BY <3>1, <3>2, <3>3
    <3> HIDE DEF c
    <3> QED BY <3>1, <3>4, TurnCharging
  <2>2. CASE j # k /\ call[j] = call[k]
    BY <1>26, <2>2 DEF TurnHeld, RoleEnded, Judging, RoleClaimed, SealAnswer, Result, Goto,
       Answer
  <2>3. CASE j # k /\ call[j] # call[k]
    <3>1. SameTurn(j) /\ SameRecord(call[j])
      BY <1>26, <2>3 DEF SameTurn, SameRecord, SealAnswer, Result, Goto
    <3> QED BY <3>1, TurnFrame
  <2> QED BY <2>1, <2>2, <2>3
<1>27. ASSUME NEW k \in Runners, Charge(k)
      PROVE  TurnHeld(j)'
  <2>1. CASE j = k
    BY <1>27, <2>1 DEF TurnHeld, RoleEnded, Judging, Judged, Charge, Goto
  <2>2. CASE j # k /\ call[j] = call[k]
    BY <1>27, <2>2 DEF TurnHeld, RoleEnded, Judging, RoleClaimed, Charge, Goto
  <2>3. CASE j # k /\ call[j] # call[k]
    <3>1. SameTurn(j) /\ SameRecord(call[j])
      BY <1>27, <2>3 DEF SameTurn, SameRecord, Charge, Goto
    <3> QED BY <3>1, TurnFrame
  <2> QED BY <2>1, <2>2, <2>3
<1>28. ASSUME NEW k \in Runners, AdmitDecision(k)
      PROVE  TurnHeld(j)'
  <2>1. CASE j = k
    <3> DEFINE c == call[j]
    <3>1. /\ at[j] = "deciding" /\ at'[j] = "noting" /\ call'[j] = c
          /\ decided' = decided \cup {c} /\ usage'[c] = usage[c] /\ role'[c] = role[c]
      BY <1>28, <2>1 DEF AdmitDecision, Goto
    <3>2. RoleEnded(c) /\ usage[c] # {}
      BY <3>1 DEF TurnHeld
    <3> HIDE DEF c, WakeTypeOK, JudgedOnce
    <3> QED BY <3>1, <3>2 DEF TurnHeld, Judging, RoleEnded
  <2>2. CASE j # k /\ call[j] = call[k]
    BY <1>28, <2>2 DEF TurnHeld, RoleEnded, Judging, RoleClaimed, AdmitDecision, Goto
  <2>3. CASE j # k /\ call[j] # call[k]
    <3>1. SameTurn(j) /\ SameRecord(call[j])
      BY <1>28, <2>3 DEF SameTurn, SameRecord, AdmitDecision, Goto
    <3> QED BY <3>1, TurnFrame
  <2> QED BY <2>1, <2>2, <2>3
<1>29. ASSUME NEW k \in Runners, NoteJudgment(k)
      PROVE  TurnHeld(j)'
  <2>1. CASE j = k
    BY <1>29, <2>1 DEF TurnHeld, RoleEnded, Judging, Judged, NoteJudgment, Goto
  <2>2. CASE j # k /\ call[j] = call[k]
    BY <1>29, <2>2 DEF TurnHeld, RoleEnded, Judging, RoleClaimed, NoteJudgment, Goto
  <2>3. CASE j # k /\ call[j] # call[k]
    <3>1. SameTurn(j) /\ SameRecord(call[j])
      BY <1>29, <2>3 DEF SameTurn, SameRecord, NoteJudgment, Goto
    <3> QED BY <3>1, TurnFrame
  <2> QED BY <2>1, <2>2, <2>3
<1>30. ASSUME NEW k \in Runners, FinishDispatch(k)
      PROVE  TurnHeld(j)'
  <2>1. at'[j] \in Early \/ (SameTurn(j) /\ SameRecord(call[j]))
    BY <1>30 DEF Early, SameTurn, SameRecord, FinishDispatch, Leave, Goto
  <2> QED BY <2>1, TurnFrame, TurnEarly
<1>31. ASSUME NEW k \in Runners, Quit(k)
      PROVE  TurnHeld(j)'
  <2>1. at'[j] \in Early \/ (SameTurn(j) /\ SameRecord(call[j]))
    BY <1>31 DEF Early, SameTurn, SameRecord, Quit, Leave, Goto
  <2> QED BY <2>1, TurnFrame, TurnEarly
<1>32. CASE UNCHANGED vars
  BY <1>32, TurnFrame DEF vars, SameTurn, SameRecord
<1> QED
  BY <1>1, <1>2, <1>3, <1>4, <1>5, <1>6, <1>7, <1>8, <1>9, <1>10, <1>11, <1>12, <1>13,
     <1>14, <1>15, <1>16, <1>17, <1>18, <1>19, <1>20, <1>21, <1>22, <1>23, <1>24, <1>25,
     <1>26, <1>27, <1>28, <1>29, <1>30, <1>31, <1>32
  DEF Next, AdmitRequest, Dispatch, Judge

(***************************************************************************)
(* Every step keeps the one judgment of a callback.                        *)
(***************************************************************************)
LEMMA JudgedStep ==
  ASSUME NEW b \in Callbacks, WakeTypeOK, WakeTypeOK', Judged(b), Correcting(b), \A k \in
         Runners : TurnHeld(k) /\ DispatchHeld(k), [Next]_vars
  PROVE  Judged(b)' /\ Correcting(b)'
<1> USE AttentionWatchAssumption, WatchWakesAssumption DEF WakeTypeOK, watchVars, rows,
   clocks, mail, polling, wakeVars, admissions, dispatches, judgments, talk, running
<1>1. ASSUME WatchNext, UNCHANGED wakeVars
      PROVE  Judged(b)' /\ Correcting(b)'
  <2>1. SameRecord(b) /\ run'[b] = run[b]
    BY <1>1 DEF SameRecord
  <2> QED BY <2>1, RecordFrame
<1>2. ASSUME NEW r \in Requests, Reject(r)
      PROVE  Judged(b)' /\ Correcting(b)'
  <2>1. SameRecord(b) /\ run'[b] = run[b]
    BY <1>2 DEF SameRecord, Reject, Admission
  <2> QED BY <2>1, RecordFrame
<1>3. ASSUME NEW r \in Requests, NEW o \in Owners, Reuse(r, o)
      PROVE  Judged(b)' /\ Correcting(b)'
  <2>1. SameRecord(b) /\ run'[b] = run[b]
    BY <1>3 DEF SameRecord, Reuse, Admission
  <2> QED BY <2>1, RecordFrame
<1>4. ASSUME NEW r \in Requests, NEW c \in 0..journaled, Admit(r, c)
      PROVE  Judged(b)' /\ Correcting(b)'
  <2>1. SameRecord(b) /\ run'[b] = run[b]
    BY <1>4 DEF SameRecord, Admit, Admission
  <2> QED BY <2>1, RecordFrame
<1>5. ASSUME NEW r \in Owners, Activate(r)
      PROVE  Judged(b)' /\ Correcting(b)'
  <2>1. SameRecord(b) /\ run'[b] = run[b]
    BY <1>5 DEF SameRecord, Activate, CreateWatch
  <2> QED BY <2>1, RecordFrame
<1>6. ASSUME NEW k \in Runners, NEW m \in Wakes, PickWake(k, m)
      PROVE  Judged(b)' /\ Correcting(b)'
  <2>1. SameRecord(b) /\ run'[b] = run[b]
    BY <1>6 DEF SameRecord, PickWake, Goto
  <2> QED BY <2>1, RecordFrame
<1>7. ASSUME NEW k \in Runners, Freeze(k)
      PROVE  Judged(b)' /\ Correcting(b)'
  <2>1. SameRecord(b) /\ run'[b] = run[b]
    BY <1>7 DEF SameRecord, Freeze, Goto
  <2> QED BY <2>1, RecordFrame
<1>8. ASSUME NEW k \in Runners, NEW r \in Requests, StartCallback(k, r)
      PROVE  Judged(b)' /\ Correcting(b)'
  <2>1. SameRecord(b)
    BY <1>8 DEF SameRecord, StartCallback
  <2>2. run'[b] = run[b] \/ (run[b] \in {"none", "started"} /\ run'[b] \in {"started", "bound"})
    BY <1>8 DEF StartCallback
  <2> QED BY <2>1, <2>2 DEF Judged, Correcting, SameRecord, RoleEnded
<1>9. ASSUME NEW k \in Runners, AppendBinding(k)
      PROVE  Judged(b)' /\ Correcting(b)'
  <2>1. SameRecord(b)
    BY <1>9 DEF SameRecord, AppendBinding
  <2>2. run'[b] = run[b] \/ (run[b] \in {"none", "started"} /\ run'[b] \in {"started", "bound"})
    BY <1>9 DEF AppendBinding
  <2> QED BY <2>1, <2>2 DEF Judged, Correcting, SameRecord, RoleEnded
<1>10. ASSUME NEW k \in Runners, NEW r \in Requests, SkipBound(k, r)
      PROVE  Judged(b)' /\ Correcting(b)'
  <2>1. SameRecord(b) /\ run'[b] = run[b]
    BY <1>10 DEF SameRecord, SkipBound
  <2> QED BY <2>1, RecordFrame
<1>11. ASSUME NEW k \in Runners, Deliver(k)
      PROVE  Judged(b)' /\ Correcting(b)'
  <2>1. SameRecord(b) /\ run'[b] = run[b]
    BY <1>11 DEF SameRecord, Deliver, Leave, Goto
  <2> QED BY <2>1, RecordFrame
<1>12. ASSUME NEW k \in Runners, Select(k)
      PROVE  Judged(b)' /\ Correcting(b)'
  <2>1. SameRecord(b) /\ run'[b] = run[b]
    BY <1>12 DEF SameRecord, Select, Goto
  <2> QED BY <2>1, RecordFrame
<1>13. ASSUME NEW k \in Runners, NEW c \in Callbacks, Prepare(k, c)
      PROVE  Judged(b)' /\ Correcting(b)'
  <2>1. SameRecord(b) /\ run'[b] = run[b]
    BY <1>13 DEF SameRecord, Prepare, Goto
  <2> QED BY <2>1, RecordFrame
<1>14. ASSUME NEW k \in Runners, EnterRole(k)
      PROVE  Judged(b)' /\ Correcting(b)'
  <2>1. CASE b = call[k]
    BY <1>14, <2>1 DEF Judged, Correcting, TurnHeld, DispatchHeld, Bound, RoleEnded,
       Judging, EnterRole, Goto, RoleTaken, Interrupted
  <2>2. CASE b # call[k]
    <3>1. SameRecord(b) /\ run'[b] = run[b]
      BY <1>14, <2>2 DEF SameRecord, EnterRole, Goto
    <3> QED BY <3>1, RecordFrame
  <2> QED BY <2>1, <2>2
<1>15. ASSUME NEW k \in Runners, SealInterrupted(k)
      PROVE  Judged(b)' /\ Correcting(b)'
  <2>1. CASE b = call[k]
    BY <1>15, <2>1 DEF Judged, Correcting, TurnHeld, DispatchHeld, Bound, RoleEnded,
       Judging, SealInterrupted, Result, Goto, RoleTaken, Interrupted
  <2>2. CASE b # call[k]
    <3>1. SameRecord(b) /\ run'[b] = run[b]
      BY <1>15, <2>2 DEF SameRecord, SealInterrupted, Result, Goto
    <3> QED BY <3>1, RecordFrame
  <2> QED BY <2>1, <2>2
<1>16. ASSUME NEW k \in Runners, ReopenRole(k)
      PROVE  Judged(b)' /\ Correcting(b)'
  <2>1. CASE b = call[k]
    BY <1>16, <2>1 DEF Judged, Correcting, TurnHeld, DispatchHeld, Bound, RoleEnded,
       Judging, ReopenRole, Result, Goto, RoleTaken, RoleEnded
  <2>2. CASE b # call[k]
    <3>1. SameRecord(b) /\ run'[b] = run[b]
      BY <1>16, <2>2 DEF SameRecord, ReopenRole, Result, Goto
    <3> QED BY <3>1, RecordFrame
  <2> QED BY <2>1, <2>2
<1>17. ASSUME NEW k \in Runners, RefuseTurn(k)
      PROVE  Judged(b)' /\ Correcting(b)'
  <2>1. CASE b = call[k]
    BY <1>17, <2>1 DEF Judged, Correcting, TurnHeld, DispatchHeld, Bound, RoleEnded,
       Judging, RefuseTurn, Result, Goto
  <2>2. CASE b # call[k]
    <3>1. SameRecord(b) /\ run'[b] = run[b]
      BY <1>17, <2>2 DEF SameRecord, RefuseTurn, Result, Goto
    <3> QED BY <3>1, RecordFrame
  <2> QED BY <2>1, <2>2
<1>18. ASSUME NEW k \in Runners, ReplayTurn(k)
      PROVE  Judged(b)' /\ Correcting(b)'
  <2>1. CASE b = call[k]
    BY <1>18, <2>1 DEF Judged, Correcting, TurnHeld, DispatchHeld, Bound, RoleEnded,
       Judging, ReplayTurn, Goto
  <2>2. CASE b # call[k]
    <3>1. SameRecord(b) /\ run'[b] = run[b]
      BY <1>18, <2>2 DEF SameRecord, ReplayTurn, Goto
    <3> QED BY <3>1, RecordFrame
  <2> QED BY <2>1, <2>2
<1>19. ASSUME NEW k \in Runners, OpenTurn(k)
      PROVE  Judged(b)' /\ Correcting(b)'
  <2>1. CASE b = call[k]
    BY <1>19, <2>1 DEF Judged, Correcting, TurnHeld, DispatchHeld, Bound, RoleEnded,
       Judging, OpenTurn, Goto
  <2>2. CASE b # call[k]
    <3>1. SameRecord(b) /\ run'[b] = run[b]
      BY <1>19, <2>2 DEF SameRecord, OpenTurn, Goto
    <3> QED BY <3>1, RecordFrame
  <2> QED BY <2>1, <2>2
<1>20. ASSUME NEW k \in Runners, SendTurn(k)
      PROVE  Judged(b)' /\ Correcting(b)'
  <2>1. CASE b = call[k]
    BY <1>20, <2>1 DEF Judged, Correcting, TurnHeld, DispatchHeld, Bound, RoleEnded,
       Judging, SendTurn, Goto
  <2>2. CASE b # call[k]
    <3>1. SameRecord(b) /\ run'[b] = run[b]
      BY <1>20, <2>2 DEF SameRecord, SendTurn, Goto
    <3> QED BY <3>1, RecordFrame
  <2> QED BY <2>1, <2>2
<1>21. ASSUME NEW k \in Runners, NEW a \in Answers, ReceiveTurn(k, a)
      PROVE  Judged(b)' /\ Correcting(b)'
  <2>1. CASE b = call[k]
    BY <1>21, <2>1 DEF Judged, Correcting, TurnHeld, DispatchHeld, Bound, RoleEnded,
       Judging, ReceiveTurn, Goto
  <2>2. CASE b # call[k]
    <3>1. SameRecord(b) /\ run'[b] = run[b]
      BY <1>21, <2>2 DEF SameRecord, ReceiveTurn, Goto
    <3> QED BY <3>1, RecordFrame
  <2> QED BY <2>1, <2>2
<1>22. ASSUME NEW k \in Runners, TurnFails(k)
      PROVE  Judged(b)' /\ Correcting(b)'
  <2>1. CASE b = call[k]
    BY <1>22, <2>1 DEF Judged, Correcting, TurnHeld, DispatchHeld, Bound, RoleEnded,
       Judging, TurnFails, Result, Goto
  <2>2. CASE b # call[k]
    <3>1. SameRecord(b) /\ run'[b] = run[b]
      BY <1>22, <2>2 DEF SameRecord, TurnFails, Result, Goto
    <3> QED BY <3>1, RecordFrame
  <2> QED BY <2>1, <2>2
<1>23. ASSUME NEW k \in Runners, RefuseReply(k)
      PROVE  Judged(b)' /\ Correcting(b)'
  <2>1. CASE b = call[k]
    BY <1>23, <2>1 DEF Judged, Correcting, TurnHeld, DispatchHeld, Bound, RoleEnded,
       Judging, RefuseReply, Result, Goto, Answer
  <2>2. CASE b # call[k]
    <3>1. SameRecord(b) /\ run'[b] = run[b]
      BY <1>23, <2>2 DEF SameRecord, RefuseReply, Result, Goto
    <3> QED BY <3>1, RecordFrame
  <2> QED BY <2>1, <2>2
<1>24. ASSUME NEW k \in Runners, StoreTurn(k)
      PROVE  Judged(b)' /\ Correcting(b)'
  <2>1. CASE b = call[k]
    BY <1>24, <2>1 DEF Judged, Correcting, TurnHeld, DispatchHeld, Bound, RoleEnded,
       Judging, StoreTurn, Goto, Answer
  <2>2. CASE b # call[k]
    <3>1. SameRecord(b) /\ run'[b] = run[b]
      BY <1>24, <2>2 DEF SameRecord, StoreTurn, Goto
    <3> QED BY <3>1, RecordFrame
  <2> QED BY <2>1, <2>2
<1>25. ASSUME NEW k \in Runners, CorrectAnswer(k)
      PROVE  Judged(b)' /\ Correcting(b)'
  <2>1. CASE b = call[k]
    BY <1>25, <2>1 DEF Judged, Correcting, TurnHeld, DispatchHeld, Bound, RoleEnded,
       Judging, CorrectAnswer, Goto, Answer
  <2>2. CASE b # call[k]
    <3>1. SameRecord(b) /\ run'[b] = run[b]
      BY <1>25, <2>2 DEF SameRecord, CorrectAnswer, Goto
    <3> QED BY <3>1, RecordFrame
  <2> QED BY <2>1, <2>2
<1>26. ASSUME NEW k \in Runners, SealAnswer(k)
      PROVE  Judged(b)' /\ Correcting(b)'
  <2>1. CASE b = call[k]
    BY <1>26, <2>1 DEF Judged, Correcting, TurnHeld, DispatchHeld, Bound, RoleEnded,
       Judging, SealAnswer, Result, Goto, Answer
  <2>2. CASE b # call[k]
    <3>1. SameRecord(b) /\ run'[b] = run[b]
      BY <1>26, <2>2 DEF SameRecord, SealAnswer, Result, Goto
    <3> QED BY <3>1, RecordFrame
  <2> QED BY <2>1, <2>2
<1>27. ASSUME NEW k \in Runners, Charge(k)
      PROVE  Judged(b)' /\ Correcting(b)'
  <2>1. CASE b = call[k]
    BY <1>27, <2>1 DEF Judged, Correcting, TurnHeld, DispatchHeld, Bound, RoleEnded,
       Judging, Charge, Goto
  <2>2. CASE b # call[k]
    <3>1. SameRecord(b) /\ run'[b] = run[b]
      BY <1>27, <2>2 DEF SameRecord, Charge, Goto
    <3> QED BY <3>1, RecordFrame
  <2> QED BY <2>1, <2>2
<1>28. ASSUME NEW k \in Runners, AdmitDecision(k)
      PROVE  Judged(b)' /\ Correcting(b)'
  <2>1. CASE b = call[k]
    BY <1>28, <2>1 DEF Judged, Correcting, TurnHeld, DispatchHeld, Bound, RoleEnded,
       Judging, AdmitDecision, Goto
  <2>2. CASE b # call[k]
    <3>1. SameRecord(b) /\ run'[b] = run[b]
      BY <1>28, <2>2 DEF SameRecord, AdmitDecision, Goto
    <3> QED BY <3>1, RecordFrame
  <2> QED BY <2>1, <2>2
<1>29. ASSUME NEW k \in Runners, NoteJudgment(k)
      PROVE  Judged(b)' /\ Correcting(b)'
  <2>1. CASE b = call[k]
    BY <1>29, <2>1 DEF Judged, Correcting, TurnHeld, DispatchHeld, Bound, RoleEnded,
       Judging, NoteJudgment, Goto
  <2>2. CASE b # call[k]
    <3>1. SameRecord(b) /\ run'[b] = run[b]
      BY <1>29, <2>2 DEF SameRecord, NoteJudgment, Goto
    <3> QED BY <3>1, RecordFrame
  <2> QED BY <2>1, <2>2
<1>30. ASSUME NEW k \in Runners, FinishDispatch(k)
      PROVE  Judged(b)' /\ Correcting(b)'
  <2>1. CASE b = call[k]
    BY <1>30, <2>1 DEF Judged, Correcting, TurnHeld, DispatchHeld, Bound, RoleEnded,
       Judging, FinishDispatch, Leave, Goto, Leave, Goto
  <2>2. CASE b # call[k]
    <3>1. SameRecord(b) /\ run'[b] = run[b]
      BY <1>30, <2>2 DEF SameRecord, FinishDispatch, Leave, Goto
    <3> QED BY <3>1, RecordFrame
  <2> QED BY <2>1, <2>2
<1>31. ASSUME NEW k \in Runners, Quit(k)
      PROVE  Judged(b)' /\ Correcting(b)'
  <2>1. SameRecord(b) /\ run'[b] = run[b]
    BY <1>31 DEF SameRecord, Quit, Leave, Goto
  <2> QED BY <2>1, RecordFrame
<1>32. CASE UNCHANGED vars
  BY <1>32, RecordFrame DEF vars, SameRecord
<1> QED
  BY <1>1, <1>2, <1>3, <1>4, <1>5, <1>6, <1>7, <1>8, <1>9, <1>10, <1>11, <1>12, <1>13,
     <1>14, <1>15, <1>16, <1>17, <1>18, <1>19, <1>20, <1>21, <1>22, <1>23, <1>24, <1>25,
     <1>26, <1>27, <1>28, <1>29, <1>30, <1>31, <1>32
  DEF Next, AdmitRequest, Dispatch, Judge

IInv == WatchInv /\ WakeInv

LEMMA WakeInitHolds ==
  ASSUME Init
  PROVE  WakeInv
<1> USE DEF Init
<1>1. WakeTypeOK
  BY NullsAre, AttentionWatchAssumption, WatchWakesAssumption DEF WakeTypeOK, Ats
<1>2. Frozen /\ DeliveredIsBound
  BY DEF Frozen, DeliveredIsBound, WatchInit
<1>3. DispatchHolds /\ RoleClaimed /\ TurnHolds
  BY DEF DispatchHolds, DispatchHeld, RoleClaimed, TurnHolds, TurnHeld, Judging
<1>4. Corrected /\ JudgedOnce
  BY DEF Corrected, Correcting, JudgedOnce, Judged
<1> QED BY <1>1, <1>2, <1>3, <1>4 DEF WakeInv

LEMMA WakeInvStep ==
  ASSUME WatchTypeOK, WakeInv, [Next]_vars
  PROVE  WakeInv'
<1> USE DEF WakeInv
<1>1. WakeTypeOK'
  BY WakeTypeStep
<1>2. Growth
  BY GrowthStep
<1>3. Frozen'
  BY <1>2, FrozenStep
<1>4. DispatchHolds'
  BY <1>1, <1>2, DispatchStep DEF DispatchHolds
<1>5. DeliveredIsBound'
  BY <1>1, <1>2, <1>3, DeliveredStep
<1>6. RoleClaimed'
  BY RoleClaimStep
<1>7. \A k \in Runners : TurnHeld(k) /\ DispatchHeld(k)
  BY DEF TurnHolds, DispatchHolds
<1>8. TurnHolds'
  BY <1>1, <1>7, TurnStep DEF TurnHolds
<1>9. Corrected' /\ JudgedOnce'
  BY <1>1, <1>7, JudgedStep DEF Corrected, JudgedOnce
<1> QED BY <1>1, <1>3, <1>4, <1>5, <1>6, <1>8, <1>9

(* Together: the invariant of the watches and that of their callers.                     *)
THEOREM Invariance == Spec => []IInv
<1>1. Init => IInv
  BY WatchInitHolds, WakeInitHolds DEF IInv, Init
<1>2. IInv /\ [Next]_vars => IInv'
  <2> SUFFICES ASSUME IInv, [Next]_vars PROVE IInv'
    OBVIOUS
  <2>1. WatchTypeOK /\ WatchInv /\ WakeInv /\ WakeTypeOK
    BY DEF IInv, WatchInv, WakeInv
  <2>2. WatchInv'
    BY <2>1, WatchStepOfNext, WatchInvStep
  <2>3. WakeInv'
    BY <2>1, WakeInvStep
  <2> QED BY <2>2, <2>3 DEF IInv
<1> QED BY <1>1, <1>2, PTL DEF Spec

(* Every variable keeps its type.                                                        *)
THEOREM TypeCorrect == Spec => []TypeOK
<1>1. IInv => TypeOK
  BY DEF IInv, WatchInv, WakeInv, TypeOK
<1> QED BY <1>1, Invariance, PTL

(* No version is announced twice and none is passed over, by whatever number of pollers  *)
(* that die and come back after their lease has gone to another (_commit_success).       *)
THEOREM SeenAreAnnounced == Spec => []AnnouncedOnce
<1>1. IInv => AnnouncedOnce
  BY DEF IInv, WatchInv
<1> QED BY <1>1, Invariance, PTL

(* A line of watches never polls, or wakes, more than it was allowed, whatever number of *)
(* times it is rebaselined (rebaseline, _claim_due, _record_poll).                       *)
THEOREM AllowanceHolds == Spec => []AllowanceIsConserved
<1>1. IInv => AllowanceIsConserved
  BY DEF IInv, WatchInv
<1> QED BY <1>1, Invariance, PTL

(* A wake is delivered to all of its frozen subscribers or not at all, whichever runner  *)
(* dies between the freezing, the bindings and the mark (_dispatch_callback).            *)
THEOREM DeliveryIsBound == Spec => []DeliveredIsBound
<1>1. IInv => DeliveredIsBound
  BY DEF IInv, WakeInv
<1> QED BY <1>1, Invariance, PTL

(* A callback is judged by one role run, whose usage, decision and end agree, whichever  *)
(* runners compete for it and die (_run_role_claimed, _finish_dispatch).                 *)
THEOREM JudgmentIsSingle == Spec => []JudgedOnce
<1>1. IInv => JudgedOnce
  BY DEF IInv, WakeInv
<1> QED BY <1>1, Invariance, PTL

=============================================================================
