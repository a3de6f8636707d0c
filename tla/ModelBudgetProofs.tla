------------------------- MODULE ModelBudgetProofs -------------------------
(***************************************************************************)
(* Proofs about ModelBudget for any sets of keys, groups and workers, any  *)
(* finite set of stages and any plans: its types, the single use of a      *)
(* permit and the ledger it implements; then the sums that its limits are  *)
(* about, and the limits themselves.                                       *)
(***************************************************************************)
EXTENDS ModelBudget, FiniteSetTheorems, WellFoundedInduction, TLAPS

(***************************************************************************)
(* The arms of a journal's groups are made of groups and members.          *)
(***************************************************************************)
LEMMA ArmTypes ==
  ASSUME NEW j \in Journals
  PROVE  Arms(j) \subseteq Groups \X Members
<1> SUFFICES ASSUME NEW arm \in Arms(j) PROVE arm \in Groups \X Members
  OBVIOUS
<1>1. PICK g \in {h \in Groups : j.groups[h] # None} :
        arm \in {<<g, m>> : m \in DOMAIN j.groups[g].plan}
  BY DEF Arms
<1>2. j.groups[g].plan \in Plans
  BY <1>1 DEF Journals, Admissions
<1>3. DOMAIN j.groups[g].plan \subseteq Members
  BY <1>2, PlansAssumption
<1> QED BY <1>1, <1>3

(***************************************************************************)
(* The two ways a worker leaves a step keep the types of its own state.    *)
(***************************************************************************)
LEMMA ReleasedType ==
  ASSUME WorkersTypeOK, NEW w \in Workers, Released(w)
  PROVE  WorkersTypeOK'
<1>1. EmptyJournal \in Journals
  BY DEF EmptyJournal, Journals
<1> QED BY <1>1 DEF WorkersTypeOK, Released, PCs

LEMMA GotoType ==
  ASSUME WorkersTypeOK, NEW w \in Workers, NEW at \in PCs,
         Goto(w, at), pc[w] # "idle"
  PROVE  WorkersTypeOK'
BY DEF WorkersTypeOK, Goto

LEMMA CallType ==
  ASSUME TypeOK, NEW w \in Workers,
         NEW call \in ReserveCalls \cup AdmitCalls, Call(w, call)
  PROVE  TypeOK'
BY DEF TypeOK, WorkersTypeOK, Call, PCs

(***************************************************************************)
(* The journal keeps its type when an entry is appended.                   *)
(***************************************************************************)
LEMMA JournalTypes ==
  ASSUME NEW j \in Journals
  PROVE  /\ \A k \in Keys, r \in Reservations :
              [j EXCEPT !.reserved = Appended(@, k, r)] \in Journals
         /\ \A k \in Keys, c \in Nat :
              [j EXCEPT !.settled = Appended(@, k, c)] \in Journals
         /\ \A g \in Groups, d \in Admissions :
              [j EXCEPT !.groups = Appended(@, g, d)] \in Journals
BY DEF Journals, Appended

LEMMA JobTypes ==
  ASSUME TypeOK, NEW w \in Workers, pc[w] # "idle"
  PROVE  /\ job[w].op = "reserve" =>
              job[w].key \in Keys /\ job[w].charge \in Reservations
         /\ job[w].op # "reserve" =>
              job[w].group \in Groups /\ job[w].admission \in Admissions
BY DEF TypeOK, WorkersTypeOK, ReserveCalls, AdmitCalls

(***************************************************************************)
(* Every step keeps the type invariant.                                    *)
(***************************************************************************)
LEMMA TypeStep ==
  ASSUME TypeOK, [Next]_vars
  PROVE  TypeOK'
<1>1. ASSUME NEW w \in Workers, CallReserve(w)
      PROVE  TypeOK'
  <2>1. PICK k \in Keys, e \in Estimates, s \in Scopes :
          \E arm \in ArmObjects(s) :
            Call(w, [op |-> "reserve", key |-> k,
                     charge |-> [cost |-> e, scope |-> s,
                                 group |-> arm[1], member |-> arm[2]]])
    BY <1>1 DEF CallReserve
  <2>2. PICK arm \in ArmObjects(s) :
          Call(w, [op |-> "reserve", key |-> k,
                   charge |-> [cost |-> e, scope |-> s,
                               group |-> arm[1], member |-> arm[2]]])
    BY <2>1
  <2>3. InScope(journal, Arms(journal), s) \subseteq Groups \X Members
    BY ArmTypes DEF TypeOK, InScope
  <2>4. arm[1] \in Groups \cup {None} /\ arm[2] \in Members \cup {None}
    BY <2>3 DEF ArmObjects
  <2> DEFINE call == [op |-> "reserve", key |-> k,
                      charge |-> [cost |-> e, scope |-> s,
                                  group |-> arm[1], member |-> arm[2]]]
  <2>5. call \in ReserveCalls
    BY <2>4, BudgetAssumption DEF ReserveCalls, Reservations
  <2> QED BY <2>2, <2>5, CallType
<1>2. ASSUME NEW w \in Workers, CallAdmitGroup(w)
      PROVE  TypeOK'
  <2>1. PICK g \in Groups, s \in Scopes, p \in Plans :
          Call(w, [op |-> "admit", group |-> g, admission |-> [scope |-> s, plan |-> p]])
    BY <1>2 DEF CallAdmitGroup
  <2>2. [op |-> "admit", group |-> g, admission |-> [scope |-> s, plan |-> p]] \in AdmitCalls
    BY DEF AdmitCalls, Admissions
  <2> QED BY <2>1, <2>2, CallType
<1>3. ASSUME NEW w \in Workers, TryClaimRun(w)
      PROVE  TypeOK'
  BY <1>3 DEF TypeOK, WorkersTypeOK, TryClaimRun, PCs, HeldPCs
<1>4. ASSUME NEW w \in Workers, LookUpGroup(w)
      PROVE  TypeOK'
  BY <1>4, ReleasedType, GotoType DEF TypeOK, LookUpGroup, PCs, HeldPCs
<1>5. ASSUME NEW w \in Workers, ReadJournal(w)
      PROVE  TypeOK'
  BY <1>5 DEF TypeOK, WorkersTypeOK, ReadJournal, PCs, HeldPCs
<1>6. ASSUME NEW w \in Workers, DecideReservation(w)
      PROVE  TypeOK'
  BY <1>6, ReleasedType, GotoType DEF TypeOK, DecideReservation, PCs, HeldPCs
<1>7. ASSUME NEW w \in Workers, DecideAdmission(w)
      PROVE  TypeOK'
  BY <1>7, ReleasedType, GotoType DEF TypeOK, DecideAdmission, PCs, HeldPCs
<1>8. ASSUME NEW w \in Workers, AppendReservation(w)
      PROVE  TypeOK'
  <2>1. journal' \in Journals
    BY <1>8, JournalTypes, JobTypes DEF TypeOK, AppendReservation
  <2> QED BY <1>8, <2>1, ReleasedType, GotoType DEF TypeOK, AppendReservation, PCs, HeldPCs
<1>9. ASSUME NEW w \in Workers, AppendGroup(w)
      PROVE  TypeOK'
  <2>1. journal' \in Journals
    BY <1>9, JournalTypes, JobTypes DEF TypeOK, AppendGroup
  <2> QED BY <1>9, <2>1, ReleasedType DEF TypeOK, AppendGroup
<1>10. ASSUME NEW w \in Workers, ReturnPermit(w)
       PROVE  TypeOK'
  <2>1. job[w].key \in Keys
    BY <1>10, JobTypes DEF ReturnPermit
  <2>2. permits' \in [Keys -> Nat]
    BY <1>10, <2>1 DEF ReturnPermit, TypeOK
  <2> QED BY <1>10, <2>2, ReleasedType DEF TypeOK, ReturnPermit
<1>11. ASSUME NEW w \in Workers, Stop(w)
       PROVE  TypeOK'
  BY <1>11, ReleasedType DEF TypeOK, Stop
<1>12. ASSUME NEW k \in Keys, Settle(k)
       PROVE  TypeOK'
  <2>1. PICK c \in Costs : journal' = [journal EXCEPT !.settled = Appended(@, k, c)]
    BY <1>12 DEF Settle
  <2>2. journal' \in Journals
    BY <2>1, JournalTypes, BudgetAssumption DEF TypeOK
  <2> QED BY <1>12, <2>2 DEF TypeOK, WorkersTypeOK, Settle
<1>13. CASE UNCHANGED vars
  BY <1>13 DEF TypeOK, WorkersTypeOK, vars
<1> QED
  BY <1>1, <1>2, <1>3, <1>4, <1>5, <1>6, <1>7, <1>8, <1>9, <1>10, <1>11, <1>12, <1>13
  DEF Next

(***************************************************************************)
(* Every variable keeps its type.                                          *)
(***************************************************************************)
THEOREM TypeCorrect == Spec => []TypeOK
<1>1. Init => TypeOK
  BY DEF Init, TypeOK, WorkersTypeOK, EmptyJournal, Journals, PCs
<1>2. TypeOK /\ [Next]_vars => TypeOK'
  BY TypeStep
<1> HIDE DEF TypeOK, Init, Next
<1> QED BY <1>1, <1>2, PTL DEF Spec

-----------------------------------------------------------------------------
(* The inductive invariant: what the claim protects from the reading of the *)
(* journal to the permit, and what the journal says of a permitted request. *)

ClaimInv == \A w \in Workers : pc[w] \in HeldPCs => claim = w

AppendInv ==
  \A w \in Workers :
    pc[w] = "appending" /\ job[w].op = "reserve" => journal.reserved[job[w].key] = None

AppendedInv ==
  \A w \in Workers :
    pc[w] = "appended" =>
      /\ job[w].op = "reserve"
      /\ journal.reserved[job[w].key] # None
      /\ permits[job[w].key] = 0

EntryInv ==
  \A k \in Keys :
    /\ permits[k] <= 1
    /\ journal.reserved[k] = None => permits[k] = 0
    /\ journal.settled[k] # None => permits[k] = 1

IInv == TypeOK /\ ClaimInv /\ AppendInv /\ AppendedInv /\ EntryInv

(***************************************************************************)
(* A worker that ends its call takes nothing the invariant says of others. *)
(***************************************************************************)
LEMMA ReleasedInv ==
  ASSUME IInv, NEW w \in Workers, Released(w), UNCHANGED <<journal, permits>>
  PROVE  ClaimInv' /\ AppendInv' /\ AppendedInv' /\ EntryInv'
<1> USE DEF IInv, TypeOK, WorkersTypeOK, Released
<1>1. ClaimInv'
  BY DEF ClaimInv, HeldPCs
<1>2. AppendInv'
  BY DEF AppendInv
<1>3. AppendedInv'
  BY DEF AppendedInv
<1>4. EntryInv'
  BY DEF EntryInv
<1> QED BY <1>1, <1>2, <1>3, <1>4

(***************************************************************************)
(* A worker that goes on inside its claim keeps the invariant when it does *)
(* not enter a state the invariant describes without its conditions.       *)
(***************************************************************************)
LEMMA GotoInv ==
  ASSUME IInv, NEW w \in Workers, NEW at \in HeldPCs,
         Goto(w, at), pc[w] \in HeldPCs, UNCHANGED <<journal, permits>>,
         at = "appending" /\ job[w].op = "reserve"
           => journal.reserved[job[w].key] = None,
         at # "appended"
  PROVE  ClaimInv' /\ AppendInv' /\ AppendedInv' /\ EntryInv'
<1> USE DEF IInv, TypeOK, WorkersTypeOK, Goto
<1>1. ClaimInv'
  BY DEF ClaimInv
<1>2. AppendInv'
  BY DEF AppendInv
<1>3. AppendedInv'
  BY DEF AppendedInv
<1>4. EntryInv'
  BY DEF EntryInv
<1> QED BY <1>1, <1>2, <1>3, <1>4

(***************************************************************************)
(* A call that is being made holds no claim yet.                           *)
(***************************************************************************)
LEMMA CallInv ==
  ASSUME IInv, NEW w \in Workers, NEW call, Call(w, call)
  PROVE  ClaimInv' /\ AppendInv' /\ AppendedInv' /\ EntryInv'
<1> USE DEF IInv, TypeOK, WorkersTypeOK, Call
<1>1. ClaimInv'
  BY DEF ClaimInv, HeldPCs
<1>2. AppendInv'
  BY DEF AppendInv
<1>3. AppendedInv'
  BY DEF AppendedInv
<1>4. EntryInv'
  BY DEF EntryInv
<1> QED BY <1>1, <1>2, <1>3, <1>4

(***************************************************************************)
(* Every step keeps the inductive invariant.                               *)
(***************************************************************************)
LEMMA InvStep ==
  ASSUME IInv, [Next]_vars
  PROVE  IInv'
<1>0. TypeOK'
  BY TypeStep DEF IInv
<1> DEFINE Safe == ClaimInv /\ AppendInv /\ AppendedInv /\ EntryInv
<1> SUFFICES Safe'
  BY <1>0 DEF IInv
<1>1. ASSUME NEW w \in Workers, CallReserve(w) \/ CallAdmitGroup(w)
      PROVE  Safe'
  BY <1>1, CallInv DEF CallReserve, CallAdmitGroup
<1>2. ASSUME NEW w \in Workers, TryClaimRun(w)
      PROVE  Safe'
  <2> USE <1>2 DEF IInv, TypeOK, WorkersTypeOK, TryClaimRun
  <2>1. ClaimInv'
    BY BudgetAssumption DEF ClaimInv
  <2>2. AppendInv'
    BY DEF AppendInv
  <2>3. AppendedInv'
    BY DEF AppendedInv
  <2>4. EntryInv'
    BY DEF EntryInv
  <2> QED BY <2>1, <2>2, <2>3, <2>4
<1>3. ASSUME NEW w \in Workers, LookUpGroup(w)
      PROVE  Safe'
  BY <1>3, ReleasedInv, GotoInv DEF LookUpGroup, HeldPCs
<1>4. ASSUME NEW w \in Workers, ReadJournal(w)
      PROVE  Safe'
  <2> USE <1>4 DEF IInv, TypeOK, WorkersTypeOK, ReadJournal
  <2>1. ClaimInv'
    BY DEF ClaimInv, HeldPCs
  <2>2. AppendInv'
    BY DEF AppendInv
  <2>3. AppendedInv'
    BY DEF AppendedInv
  <2>4. EntryInv'
    BY DEF EntryInv
  <2> QED BY <2>1, <2>2, <2>3, <2>4
<1>5. ASSUME NEW w \in Workers, DecideReservation(w)
      PROVE  Safe'
  <2>1. CASE MayReserve(w) /\ Goto(w, "appending")
    BY <1>5, <2>1, GotoInv DEF DecideReservation, MayReserve, HeldPCs
  <2>2. CASE Released(w)
    BY <1>5, <2>2, ReleasedInv DEF DecideReservation
  <2> QED BY <1>5, <2>1, <2>2 DEF DecideReservation
<1>6. ASSUME NEW w \in Workers, DecideAdmission(w)
      PROVE  Safe'
  <2>1. CASE Goto(w, "appending")
    BY <1>6, <2>1, GotoInv DEF DecideAdmission, HeldPCs
  <2>2. CASE Released(w)
    BY <1>6, <2>2, ReleasedInv DEF DecideAdmission
  <2> QED BY <1>6, <2>1, <2>2 DEF DecideAdmission
<1>7. ASSUME NEW w \in Workers, AppendReservation(w)
      PROVE  Safe'
  <2> DEFINE key == job[w].key
  <2>1. key \in Keys /\ job[w].charge \in Reservations /\ job[w].op = "reserve"
    BY <1>7, JobTypes DEF AppendReservation, IInv
  <2>2. journal.reserved[key] = None
    BY <1>7 DEF AppendReservation, IInv, AppendInv
  <2>3. journal' = [journal EXCEPT !.reserved = [@ EXCEPT ![key] = job[w].charge]]
    BY <1>7, <2>1, <2>2 DEF AppendReservation, Appended, IInv, TypeOK, Journals
  <2>4. journal'.reserved = [journal.reserved EXCEPT ![key] = job[w].charge]
    BY <2>3 DEF IInv, TypeOK, Journals
  <2>5. journal'.settled = journal.settled
    BY <2>3 DEF IInv, TypeOK, Journals
  <2>6. Goto(w, "appended") /\ UNCHANGED permits
    BY <1>7, <2>1, <2>4 DEF AppendReservation, IInv, TypeOK, Journals
  <2>7. journal'.reserved[key] # None /\ permits[key] = 0
    BY <2>1, <2>2, <2>4, NoneAssumption DEF IInv, EntryInv, TypeOK, Journals
  <2>8. ClaimInv'
    BY <1>7, <2>6 DEF AppendReservation, Goto, IInv, ClaimInv, HeldPCs, TypeOK, WorkersTypeOK
  <2>9. \A v \in Workers : v # w => pc'[v] = pc[v] /\ pc[v] \notin HeldPCs
    BY <1>7, <2>6 DEF AppendReservation, Goto, IInv, ClaimInv, HeldPCs, TypeOK, WorkersTypeOK
  <2>10. pc'[w] = "appended" /\ job' = job
    BY <2>6 DEF Goto, IInv, TypeOK, WorkersTypeOK
  <2>11. AppendInv'
    BY <2>9, <2>10 DEF AppendInv, HeldPCs
  <2>12. AppendedInv'
    BY <2>1, <2>6, <2>7, <2>9, <2>10 DEF AppendedInv, HeldPCs
  <2>13. EntryInv'
    BY <2>1, <2>4, <2>5, <2>6, <2>7 DEF EntryInv, IInv, TypeOK, Journals
  <2> QED BY <2>8, <2>11, <2>12, <2>13
<1>8. ASSUME NEW w \in Workers, AppendGroup(w)
      PROVE  Safe'
  <2>1. journal'.reserved = journal.reserved /\ journal'.settled = journal.settled
    BY <1>8 DEF AppendGroup, IInv, TypeOK, Journals
  <2> USE <1>8, <2>1 DEF IInv, TypeOK, WorkersTypeOK, AppendGroup, Released
  <2>2. ClaimInv'
    BY DEF ClaimInv, HeldPCs
  <2>3. AppendInv'
    BY DEF AppendInv
  <2>4. AppendedInv'
    BY DEF AppendedInv
  <2>5. EntryInv'
    BY DEF EntryInv
  <2> QED BY <2>2, <2>3, <2>4, <2>5
<1>9. ASSUME NEW w \in Workers, ReturnPermit(w)
      PROVE  Safe'
  <2> DEFINE key == job[w].key
  <2>1. key \in Keys /\ journal.reserved[key] # None /\ permits[key] = 0
    BY <1>9, JobTypes DEF ReturnPermit, IInv, AppendedInv
  <2>2. permits' = [permits EXCEPT ![key] = 1] /\ journal' = journal /\ Released(w)
    BY <1>9, <2>1 DEF ReturnPermit
  <2>3. \A v \in Workers : v # w => pc'[v] = pc[v] /\ pc[v] \notin HeldPCs
    BY <1>9, <2>2 DEF ReturnPermit, Released, IInv, ClaimInv, HeldPCs, TypeOK, WorkersTypeOK
  <2>4. pc'[w] = "idle"
    BY <2>2 DEF Released, IInv, TypeOK, WorkersTypeOK
  <2>5. ClaimInv' /\ AppendInv' /\ AppendedInv'
    BY <2>3, <2>4 DEF ClaimInv, AppendInv, AppendedInv, HeldPCs
  <2>6. EntryInv'
    BY <2>1, <2>2 DEF EntryInv, IInv, TypeOK
  <2> QED BY <2>5, <2>6
<1>10. ASSUME NEW w \in Workers, Stop(w)
       PROVE  Safe'
  BY <1>10, ReleasedInv DEF Stop
<1>11. ASSUME NEW k \in Keys, Settle(k)
       PROVE  Safe'
  <2>1. PICK c \in Costs : journal' = [journal EXCEPT !.settled = Appended(@, k, c)]
    BY <1>11 DEF Settle
  <2>2. journal'.reserved = journal.reserved
    BY <2>1 DEF IInv, TypeOK, Journals
  <2>3. \A l \in Keys : l # k => journal'.settled[l] = journal.settled[l]
    BY <2>1 DEF Appended, IInv, TypeOK, Journals
  <2>4. permits[k] = 1
    BY <1>11 DEF Settle, IInv, EntryInv, TypeOK
  <2>5. ClaimInv' /\ AppendInv' /\ AppendedInv'
    BY <1>11, <2>2 DEF Settle, IInv, ClaimInv, AppendInv, AppendedInv
  <2>6. EntryInv'
    BY <1>11, <2>2, <2>3, <2>4 DEF Settle, IInv, EntryInv
  <2> QED BY <2>5, <2>6
<1>12. CASE UNCHANGED vars
  BY <1>12 DEF vars, IInv, ClaimInv, AppendInv, AppendedInv, EntryInv
<1> QED
  BY <1>1, <1>2, <1>3, <1>4, <1>5, <1>6, <1>7, <1>8, <1>9, <1>10, <1>11, <1>12
  DEF Next

LEMMA InvCorrect == Spec => []IInv
<1>1. Init => IInv
  <2> SUFFICES ASSUME Init PROVE IInv
    OBVIOUS
  <2>1. TypeOK
    BY DEF Init, TypeOK, WorkersTypeOK, EmptyJournal, Journals, PCs
  <2> QED
    BY <2>1 DEF Init, IInv, ClaimInv, AppendInv, AppendedInv, EntryInv, EmptyJournal, HeldPCs
<1>2. IInv /\ [Next]_vars => IInv'
  BY InvStep
<1> HIDE DEF IInv, Init, Next
<1> QED BY <1>1, <1>2, PTL DEF Spec

(***************************************************************************)
(* However often a request is asked for, before and after crashes, it is   *)
(* permitted once.                                                         *)
(***************************************************************************)
THEOREM OnePermit == Spec => []AtMostOnePermit
<1>1. IInv => AtMostOnePermit
  BY DEF IInv, EntryInv, AtMostOnePermit
<1> QED BY <1>1, InvCorrect, PTL

-----------------------------------------------------------------------------
(* The budget implements the ledger of single-use requests. *)

Entry == [k \in Keys |-> IF journal.reserved[k] = None THEN "free"
                         ELSE IF journal.settled[k] = None THEN "reserved"
                         ELSE "settled"]

(***************************************************************************)
(* A step that changes neither reservations, settlements nor permits is a  *)
(* stutter of the ledger.                                                  *)
(***************************************************************************)
LEMMA LedgerStutter ==
  ASSUME journal'.reserved = journal.reserved, journal'.settled = journal.settled,
         permits' = permits
  PROVE  Entry' = Entry /\ permits' = permits
BY DEF Entry

LEMMA LedgerStep ==
  ASSUME IInv, [Next]_vars
  PROVE  [Ledger!Next]_<<Entry, permits>>
<1> USE DEF Ledger!Next, Ledger!Reserve, Ledger!Permit, Ledger!Settle, Ledger!Enter
<1>1. ASSUME NEW w \in Workers, AppendReservation(w)
      PROVE  [Ledger!Next]_<<Entry, permits>>
  <2> DEFINE key == job[w].key
  <2>1. key \in Keys /\ job[w].charge \in Reservations
    BY <1>1, JobTypes DEF AppendReservation, IInv
  <2>2. journal.reserved[key] = None /\ journal.settled[key] = None
    BY <1>1, <2>1 DEF AppendReservation, IInv, AppendInv, EntryInv
  <2>3. journal' = [journal EXCEPT !.reserved = [@ EXCEPT ![key] = job[w].charge]]
    BY <1>1, <2>1, <2>2 DEF AppendReservation, Appended, IInv, TypeOK, Journals
  <2>4. /\ journal'.reserved = [journal.reserved EXCEPT ![key] = job[w].charge]
        /\ journal'.settled = journal.settled
    BY <2>3 DEF IInv, TypeOK, Journals
  <2>5. Entry[key] = "free" /\ Entry' = [Entry EXCEPT ![key] = "reserved"]
    BY <2>1, <2>2, <2>4, NoneAssumption DEF Entry, IInv, TypeOK, Journals
  <2>6. UNCHANGED permits
    BY <1>1 DEF AppendReservation
  <2> QED BY <2>1, <2>5, <2>6 DEF Entry
<1>2. ASSUME NEW w \in Workers, ReturnPermit(w)
      PROVE  [Ledger!Next]_<<Entry, permits>>
  <2> DEFINE key == job[w].key
  <2>1. key \in Keys /\ journal.reserved[key] # None /\ permits[key] = 0
    BY <1>2, JobTypes DEF ReturnPermit, IInv, AppendedInv
  <2>2. journal.settled[key] = None
    BY <2>1 DEF IInv, EntryInv
  <2>3. Entry[key] = "reserved"
    BY <2>1, <2>2 DEF Entry
  <2>4. permits' = [permits EXCEPT ![key] = 1] /\ Entry' = Entry
    BY <1>2, <2>1 DEF ReturnPermit, Entry
  <2> QED BY <2>1, <2>3, <2>4 DEF Entry
<1>3. ASSUME NEW k \in Keys, Settle(k)
      PROVE  [Ledger!Next]_<<Entry, permits>>
  <2>1. PICK c \in Costs : journal' = [journal EXCEPT !.settled = Appended(@, k, c)]
    BY <1>3 DEF Settle
  <2>2. /\ journal'.reserved = journal.reserved
        /\ journal'.settled = Appended(journal.settled, k, c)
    BY <2>1 DEF IInv, TypeOK, Journals
  <2>3. /\ permits[k] = 1 /\ permits' = permits
        /\ journal.reserved[k] # None
    BY <1>3 DEF Settle, IInv, EntryInv, TypeOK
  <2>4. CASE journal.settled[k] = None
    <3>1. Entry[k] = "reserved"
      BY <2>3, <2>4 DEF Entry
    <3>2. Entry' = [Entry EXCEPT ![k] = "settled"]
      BY <2>2, <2>3, <2>4, BudgetAssumption DEF Entry, Appended, IInv, TypeOK, Journals
    <3> QED BY <2>3, <3>1, <3>2 DEF Entry
  <2>5. CASE journal.settled[k] # None
    <3>1. journal'.settled = journal.settled
      BY <2>2, <2>5 DEF Appended, IInv, TypeOK, Journals
    <3> QED BY <2>2, <2>3, <3>1, LedgerStutter
  <2> QED BY <2>4, <2>5
<1>4. ASSUME NEW w \in Workers, AppendGroup(w)
      PROVE  [Ledger!Next]_<<Entry, permits>>
  <2>1. journal'.reserved = journal.reserved /\ journal'.settled = journal.settled
    BY <1>4 DEF AppendGroup, IInv, TypeOK, Journals
  <2> QED BY <1>4, <2>1, LedgerStutter DEF AppendGroup
<1>5. ASSUME NEW w \in Workers,
             \/ CallReserve(w) \/ CallAdmitGroup(w) \/ TryClaimRun(w)
             \/ LookUpGroup(w) \/ ReadJournal(w)
             \/ DecideReservation(w) \/ DecideAdmission(w) \/ Stop(w)
      PROVE  [Ledger!Next]_<<Entry, permits>>
  <2>1. UNCHANGED <<journal, permits>>
    BY <1>5 DEF CallReserve, CallAdmitGroup, Call, TryClaimRun, LookUpGroup,
                ReadJournal, DecideReservation, DecideAdmission, Stop
  <2> QED BY <2>1, LedgerStutter
<1>6. CASE UNCHANGED vars
  BY <1>6, LedgerStutter DEF vars
<1> QED BY <1>1, <1>2, <1>3, <1>4, <1>5, <1>6 DEF Next

(***************************************************************************)
(* The model budget implements the ledger: entered, permitted at most once *)
(* and settled at most once, in this order.                                *)
(***************************************************************************)
THEOREM LedgerRefinement == Spec => ImplementsLedger
<1>1. Init => Ledger!Init
  BY DEF Init, Ledger!Init, EmptyJournal
<1>2. IInv /\ [Next]_vars => [Ledger!Next]_<<Entry, permits>>
  BY LedgerStep
<1> HIDE DEF IInv, Init, Next, vars
<1> QED BY <1>1, <1>2, InvCorrect, PTL DEF Spec, ImplementsLedger, Ledger!Spec, Entry

-----------------------------------------------------------------------------
(* Sums over finite sets.                                                  *)

(***************************************************************************)
(* What holds of a subset of the finite set S whenever it holds of its own *)
(* strict subsets holds of S.                                              *)
(***************************************************************************)
LEMMA SubsetInduction ==
  ASSUME NEW S, IsFiniteSet(S), NEW C,
         \A T \in SUBSET S : (\A U \in SUBSET T : U # T => U \in C) => T \in C
  PROVE  S \in C
<1> DEFINE Bad == (SUBSET S) \ C
<1> SUFFICES ASSUME S \notin C PROVE FALSE
  OBVIOUS
<1>1. S \in Bad /\ Bad \subseteq FiniteSubsetsOf(S)
  BY FS_FiniteSubsetsOfFinite
<1>2. IsWellFoundedOn(StrictSubsetOrdering(S), FiniteSubsetsOf(S))
  BY FS_StrictSubsetOrderingWellFounded
<1> HIDE DEF Bad
<1>3. PICK T \in Bad : \A U \in Bad : ~(<<U, T>> \in StrictSubsetOrdering(S))
  BY <1>1, <1>2, WFMin
<1>4. T \in SUBSET S /\ T \notin C
  BY <1>3 DEF Bad
<1>5. ASSUME NEW U \in SUBSET T, U # T
      PROVE  U \in C
  <2>1. <<U, T>> \in StrictSubsetOrdering(S)
    BY <1>4, <1>5 DEF StrictSubsetOrdering
  <2>2. U \notin Bad
    BY <1>3, <2>1
  <2> QED BY <1>4, <2>2 DEF Bad
<1> QED BY <1>4, <1>5

(***************************************************************************)
(* What holds of the empty set, and of a set with one more element of S    *)
(* whenever it holds of the set, holds of S.                               *)
(***************************************************************************)
LEMMA SetInduction ==
  ASSUME NEW S, IsFiniteSet(S), NEW C, {} \in C,
         \A T \in SUBSET S : T \in C => \A x \in S \ T : T \cup {x} \in C
  PROVE  S \in C
<1>1. ASSUME NEW T \in SUBSET S, \A U \in SUBSET T : U # T => U \in C
      PROVE  T \in C
  <2>1. CASE T = {}
    BY <2>1
  <2>2. CASE T # {}
    <3>1. PICK x \in T : TRUE
      BY <2>2
    <3>2. T \ {x} \in C
      BY <1>1, <3>1
    <3>3. (T \ {x}) \cup {x} = T /\ x \in S \ (T \ {x})
      BY <3>1
    <3> QED BY <3>2, <3>3
  <2> QED BY <2>1, <2>2
<1> QED BY <1>1, SubsetInduction

(***************************************************************************)
(* SumFunctionOnSet(f, S) is S's value of a function g of sets that takes  *)
(* the elements one by one.  Such a g exists for a finite S ...            *)
(***************************************************************************)
Pick(s) == CHOOSE x \in s : TRUE
IsFold(g, f, D) ==
  g = [s \in D |-> IF s = {} THEN 0 ELSE f[Pick(s)] + g[s \ {Pick(s)}]]

\* Induction on the naturals, for a set.
LEMMA NatSetInduction ==
  ASSUME NEW N, 0 \in N, \A n \in Nat : n \in N => n + 1 \in N
  PROVE  Nat \subseteq N
<1> DEFINE R == {p \in Nat \X Nat : p[1] < p[2]}
           Bad == Nat \ N
<1> SUFFICES ASSUME Bad # {} PROVE FALSE
  OBVIOUS
<1>1. IsWellFoundedOn(R, Nat)
  BY NatLessThanWellFounded DEF OpToRel
<1> HIDE DEF R
<1>2. PICK x \in Bad : \A y \in Bad : ~(<<y, x>> \in R)
  BY <1>1, WFMin
<1>3. x - 1 \in Nat /\ <<x - 1, x>> \in R
  BY <1>2 DEF R
<1>4. x - 1 \in N
  BY <1>2, <1>3
<1> QED BY <1>2, <1>3, <1>4

LEMMA FoldExists ==
  ASSUME NEW S, IsFiniteSet(S), NEW f
  PROVE  \E g : IsFold(g, f, SUBSET S)
<1> DEFINE Layer(n) == {s \in SUBSET S : Cardinality(s) <= n}
           N == {n \in Nat : \E g : IsFold(g, f, Layer(n))}
<1>0. \A s \in SUBSET S : IsFiniteSet(s) /\ Cardinality(s) \in Nat
  BY FS_Subset, FS_CardinalityType
<1>1. 0 \in N
  <2>1. \A s \in Layer(0) : s = {}
    BY <1>0, FS_EmptySet
  <2>2. IsFold([s \in Layer(0) |-> 0], f, Layer(0))
    BY <2>1 DEF IsFold
  <2> QED BY <2>2
<1>2. ASSUME NEW n \in Nat, n \in N
      PROVE  n + 1 \in N
  <2>1. PICK g : IsFold(g, f, Layer(n))
    BY <1>2
  <2> DEFINE h == [s \in Layer(n + 1) |->
                     IF s = {} THEN 0 ELSE f[Pick(s)] + g[s \ {Pick(s)}]]
  <2>2. ASSUME NEW s \in Layer(n + 1), s # {}
        PROVE  s \ {Pick(s)} \in Layer(n)
    <3>1. Pick(s) \in s
      BY <2>2 DEF Pick
    <3>2. Cardinality(s \ {Pick(s)}) = Cardinality(s) - 1
      BY <1>0, <3>1, FS_RemoveElement
    <3> QED BY <1>0, <3>2
  <2>3. \A s \in Layer(n) : h[s] = g[s]
    <3> SUFFICES ASSUME NEW s \in Layer(n) PROVE h[s] = g[s]
      OBVIOUS
    <3>1. s \in Layer(n + 1)
      BY <1>0
    <3>2. g[s] = IF s = {} THEN 0 ELSE f[Pick(s)] + g[s \ {Pick(s)}]
      BY <2>1 DEF IsFold
    <3> QED BY <3>1, <3>2
  <2>4. \A s \in Layer(n + 1) : h[s] = IF s = {} THEN 0 ELSE f[Pick(s)] + h[s \ {Pick(s)}]
    <3> SUFFICES ASSUME NEW s \in Layer(n + 1)
                 PROVE  h[s] = IF s = {} THEN 0 ELSE f[Pick(s)] + h[s \ {Pick(s)}]
      OBVIOUS
    <3>1. h[s] = IF s = {} THEN 0 ELSE f[Pick(s)] + g[s \ {Pick(s)}]
      OBVIOUS
    <3> HIDE DEF h, Layer
    <3> QED BY <2>2, <2>3, <3>1
  <2>5. DOMAIN h = Layer(n + 1) /\ h = [s \in Layer(n + 1) |-> h[s]]
    OBVIOUS
  <2> HIDE DEF h, Layer
  <2>6. IsFold(h, f, Layer(n + 1))
    BY <2>4, <2>5 DEF IsFold
  <2> QED BY <2>6
<1> HIDE DEF N
<1>3. Cardinality(S) \in N
  BY <1>0, <1>1, <1>2, NatSetInduction
<1>4. Layer(Cardinality(S)) = SUBSET S
  BY <1>0, FS_Subset
<1> QED BY <1>3, <1>4 DEF N

(***************************************************************************)
(* ... and is determined by f alone.                                       *)
(***************************************************************************)
LEMMA FoldAgrees ==
  ASSUME NEW S, NEW T \in SUBSET S, IsFiniteSet(S), NEW f, NEW g, NEW h,
         IsFold(g, f, SUBSET S), IsFold(h, f, SUBSET T)
  PROVE  g[T] = h[T]
<1> DEFINE C == {U \in SUBSET T : g[U] = h[U]}
<1>1. ASSUME NEW U \in SUBSET T, \A V \in SUBSET U : V # U => V \in C
      PROVE  U \in C
  <2>1. /\ g[U] = IF U = {} THEN 0 ELSE f[Pick(U)] + g[U \ {Pick(U)}]
        /\ h[U] = IF U = {} THEN 0 ELSE f[Pick(U)] + h[U \ {Pick(U)}]
    BY DEF IsFold
  <2>2. U # {} => g[U \ {Pick(U)}] = h[U \ {Pick(U)}]
    <3>1. U # {} => Pick(U) \in U
      BY DEF Pick
    <3> QED BY <1>1, <3>1
  <2> QED BY <2>1, <2>2
<1>2. IsFiniteSet(T)
  BY FS_Subset
<1> HIDE DEF C
<1>3. T \in C
  BY <1>1, <1>2, SubsetInduction
<1> QED BY <1>3 DEF C

\* The sum over a finite set is its value of such a g.
LEMMA SumIsFold ==
  ASSUME NEW S, IsFiniteSet(S), NEW f
  PROVE  \E g : IsFold(g, f, SUBSET S) /\ SumFunctionOnSet(f, S) = g[S]
<1> DEFINE iter == CHOOSE g : IsFold(g, f, SUBSET S)
<1>1. IsFold(iter, f, SUBSET S)
  BY FoldExists
<1>2. SumFunctionOnSet(f, S) = iter[S]
  BY DEF SumFunctionOnSet, FoldFunctionOnSet, MapThenFoldSet, IsFold, Pick
<1> QED BY <1>1, <1>2

\* The sum takes the elements one by one, in the order of CHOOSE.
LEMMA SumStep ==
  ASSUME NEW S, IsFiniteSet(S), NEW f
  PROVE  SumFunctionOnSet(f, S) =
           IF S = {} THEN 0 ELSE f[Pick(S)] + SumFunctionOnSet(f, S \ {Pick(S)})
<1>1. PICK g : IsFold(g, f, SUBSET S) /\ SumFunctionOnSet(f, S) = g[S]
  BY SumIsFold
<1>2. PICK h : /\ IsFold(h, f, SUBSET (S \ {Pick(S)}))
               /\ SumFunctionOnSet(f, S \ {Pick(S)}) = h[S \ {Pick(S)}]
  BY SumIsFold, FS_RemoveElement
<1>3. g[S \ {Pick(S)}] = h[S \ {Pick(S)}]
  BY <1>1, <1>2, FoldAgrees
<1>4. g[S] = IF S = {} THEN 0 ELSE f[Pick(S)] + g[S \ {Pick(S)}]
  BY <1>1 DEF IsFold
<1> QED BY <1>1, <1>2, <1>3, <1>4

(***************************************************************************)
(* The sum of naturals is a natural, whatever element is taken first.      *)
(***************************************************************************)
LEMMA SumRemove ==
  ASSUME NEW S, IsFiniteSet(S), NEW f, \A x \in S : f[x] \in Nat
  PROVE  /\ SumFunctionOnSet(f, S) \in Nat
         /\ \A x \in S : SumFunctionOnSet(f, S) = f[x] + SumFunctionOnSet(f, S \ {x})
<1> DEFINE Sum(T) == SumFunctionOnSet(f, T)
           C == {T \in SUBSET S : Sum(T) \in Nat /\ \A x \in T : Sum(T) = f[x] + Sum(T \ {x})}
<1>1. ASSUME NEW T \in SUBSET S, \A U \in SUBSET T : U # T => U \in C
      PROVE  T \in C
  <2> DEFINE p == Pick(T)
  <2>1. IsFiniteSet(T)
    BY FS_Subset
  <2>2. Sum(T) = IF T = {} THEN 0 ELSE f[p] + Sum(T \ {p})
    BY <2>1, SumStep
  <2>3. T # {} => p \in T
    BY DEF Pick
  <2> HIDE DEF p, Sum
  <2>4. \A x \in T : Sum(T \ {x}) \in Nat
    BY <1>1
  <2>5. Sum(T) \in Nat
    BY <2>2, <2>3, <2>4
  <2>6. ASSUME NEW x \in T
        PROVE  Sum(T) = f[x] + Sum(T \ {x})
    <3>1. CASE x = p
      BY <2>2, <3>1
    <3>2. CASE x # p
      <4>1. Sum(T \ {p}) = f[x] + Sum((T \ {p}) \ {x})
        BY <1>1, <2>3, <3>2
      <4>2. Sum(T \ {x}) = f[p] + Sum((T \ {x}) \ {p})
        BY <1>1, <2>3, <3>2
      <4>3. (T \ {x}) \ {p} = (T \ {p}) \ {x}
        OBVIOUS
      <4>4. Sum((T \ {p}) \ {x}) \in Nat
        BY <1>1, <2>3
      <4>5. f[x] \in Nat /\ f[p] \in Nat
        BY <2>3
      <4>6. Sum(T) = f[p] + Sum(T \ {p})
        BY <2>2
      <4> DEFINE rest == Sum((T \ {p}) \ {x})
      <4>7. Sum(T) = f[p] + (f[x] + rest) /\ Sum(T \ {x}) = f[p] + rest
        BY <4>1, <4>2, <4>3, <4>6
      <4>8. rest \in Nat
        BY <4>4
      <4> HIDE DEF rest
      <4> QED BY <4>5, <4>7, <4>8
    <3> QED BY <3>1, <3>2
  <2> QED BY <2>5, <2>6 DEF Sum
<1> HIDE DEF C
<1>2. S \in C
  BY <1>1, SubsetInduction
<1> QED BY <1>2 DEF C

\* The sum over no elements.
LEMMA SumEmpty ==
  ASSUME NEW f
  PROVE  SumFunctionOnSet(f, {}) = 0
BY SumStep, FS_EmptySet

\* The sum over one element more.
LEMMA SumAdd ==
  ASSUME NEW S, IsFiniteSet(S), NEW x, x \notin S,
         NEW f, \A y \in S \cup {x} : f[y] \in Nat
  PROVE  SumFunctionOnSet(f, S \cup {x}) = f[x] + SumFunctionOnSet(f, S)
<1>1. IsFiniteSet(S \cup {x}) /\ (S \cup {x}) \ {x} = S
  BY FS_AddElement
<1>2. \A z \in S \cup {x} :
        SumFunctionOnSet(f, S \cup {x}) = f[z] + SumFunctionOnSet(f, (S \cup {x}) \ {z})
  BY <1>1, SumRemove
<1> QED BY <1>1, <1>2

(***************************************************************************)
(* The sum depends on the values at S alone.                               *)
(***************************************************************************)
LEMMA SumSame ==
  ASSUME NEW S, IsFiniteSet(S), NEW f, NEW g, \A x \in S : f[x] = g[x]
  PROVE  SumFunctionOnSet(f, S) = SumFunctionOnSet(g, S)
<1> DEFINE C == {T \in SUBSET S : SumFunctionOnSet(f, T) = SumFunctionOnSet(g, T)}
<1>1. ASSUME NEW T \in SUBSET S, \A U \in SUBSET T : U # T => U \in C
      PROVE  T \in C
  <2>1. IsFiniteSet(T)
    BY FS_Subset
  <2>2. CASE T = {}
    BY <2>2, SumEmpty
  <2>3. CASE T # {}
    <3>1. Pick(T) \in T
      BY <2>3 DEF Pick
    <3>2. T \ {Pick(T)} \in C
      BY <1>1, <3>1
    <3>3. /\ SumFunctionOnSet(f, T) = f[Pick(T)] + SumFunctionOnSet(f, T \ {Pick(T)})
          /\ SumFunctionOnSet(g, T) = g[Pick(T)] + SumFunctionOnSet(g, T \ {Pick(T)})
      BY <2>1, <2>3, SumStep
    <3> QED BY <3>1, <3>2, <3>3
  <2> QED BY <2>2, <2>3
<1> HIDE DEF C
<1>2. S \in C
  BY <1>1, SubsetInduction
<1> QED BY <1>2 DEF C

\* The sum over two disjoint sets.
LEMMA SumUnion ==
  ASSUME NEW S, IsFiniteSet(S), NEW R, IsFiniteSet(R), R \cap S = {},
         NEW f, \A x \in R \cup S : f[x] \in Nat
  PROVE  SumFunctionOnSet(f, R \cup S) = SumFunctionOnSet(f, R) + SumFunctionOnSet(f, S)
<1> DEFINE Sum(T) == SumFunctionOnSet(f, T)
           C == {T \in SUBSET S : Sum(R \cup T) = Sum(R) + Sum(T)}
<1>1. Sum(R) \in Nat
  BY SumRemove
<1>2. {} \in C
  <2>1. Sum({}) = 0 /\ R \cup {} = R
    BY SumEmpty
  <2> HIDE DEF Sum
  <2> QED BY <1>1, <2>1
<1>3. ASSUME NEW T \in SUBSET S, T \in C, NEW x \in S \ T
      PROVE  T \cup {x} \in C
  <2>1. IsFiniteSet(T) /\ IsFiniteSet(R \cup T)
    BY FS_Subset, FS_Union
  <2>2. Sum(T \cup {x}) = f[x] + Sum(T)
    BY <2>1, SumAdd
  <2>3. Sum((R \cup T) \cup {x}) = f[x] + Sum(R \cup T)
    <3>1. x \notin R \cup T /\ \A y \in (R \cup T) \cup {x} : f[y] \in Nat
      OBVIOUS
    <3> QED BY <2>1, <3>1, SumAdd
  <2>4. Sum(T) \in Nat /\ f[x] \in Nat
    BY <2>1, SumRemove
  <2>5. (R \cup T) \cup {x} = R \cup (T \cup {x})
    OBVIOUS
  <2>6. Sum(R \cup T) = Sum(R) + Sum(T)
    BY <1>3
  <2> HIDE DEF Sum
  <2>7. Sum((R \cup T) \cup {x}) = Sum(R) + Sum(T \cup {x})
    BY <1>1, <2>2, <2>3, <2>4, <2>6
  <2>8. Sum(R \cup (T \cup {x})) = Sum(R) + Sum(T \cup {x})
    BY <2>5, <2>7
  <2> QED BY <2>8
<1> HIDE DEF C
<1>4. S \in C
  BY <1>2, <1>3, SetInduction
<1> QED BY <1>4 DEF C

(***************************************************************************)
(* Two sums compare as their terms do.                                     *)
(***************************************************************************)
LEMMA SumLess ==
  ASSUME NEW S, IsFiniteSet(S), NEW f, NEW g,
         \A x \in S : f[x] \in Nat /\ g[x] \in Nat /\ f[x] <= g[x]
  PROVE  SumFunctionOnSet(f, S) <= SumFunctionOnSet(g, S)
<1> DEFINE F(T) == SumFunctionOnSet(f, T)
           G(T) == SumFunctionOnSet(g, T)
           C == {T \in SUBSET S : F(T) <= G(T)}
<1>1. {} \in C
  BY SumEmpty
<1>2. ASSUME NEW T \in SUBSET S, T \in C, NEW x \in S \ T
      PROVE  T \cup {x} \in C
  <2>1. IsFiniteSet(T)
    BY FS_Subset
  <2>2. F(T \cup {x}) = f[x] + F(T) /\ G(T \cup {x}) = g[x] + G(T)
    BY <2>1, SumAdd
  <2>3. F(T) \in Nat /\ G(T) \in Nat
    BY <2>1, SumRemove
  <2>4. F(T) <= G(T) /\ f[x] \in Nat /\ g[x] \in Nat /\ f[x] <= g[x]
    BY <1>2
  <2> HIDE DEF F, G
  <2>5. F(T \cup {x}) <= G(T \cup {x})
    BY <2>2, <2>3, <2>4
  <2> QED BY <2>5
<1> HIDE DEF C
<1>3. S \in C
  BY <1>1, <1>2, SetInduction
<1> QED BY <1>3 DEF C

(***************************************************************************)
(* Terms that are sums of two.                                             *)
(***************************************************************************)
LEMMA SumSplit ==
  ASSUME NEW S, IsFiniteSet(S), NEW f, NEW g, NEW h,
         \A x \in S : g[x] \in Nat /\ h[x] \in Nat /\ f[x] = g[x] + h[x]
  PROVE  SumFunctionOnSet(f, S) = SumFunctionOnSet(g, S) + SumFunctionOnSet(h, S)
<1> DEFINE F(T) == SumFunctionOnSet(f, T)
           G(T) == SumFunctionOnSet(g, T)
           H(T) == SumFunctionOnSet(h, T)
           C == {T \in SUBSET S : F(T) = G(T) + H(T)}
<1>1. {} \in C
  BY SumEmpty
<1>2. ASSUME NEW T \in SUBSET S, T \in C, NEW x \in S \ T
      PROVE  T \cup {x} \in C
  <2>1. IsFiniteSet(T)
    BY FS_Subset
  <2>2. \A y \in S : f[y] \in Nat
    OBVIOUS
  <2>3. /\ F(T \cup {x}) = f[x] + F(T) /\ G(T \cup {x}) = g[x] + G(T)
        /\ H(T \cup {x}) = h[x] + H(T)
    BY <2>1, <2>2, SumAdd
  <2>4. G(T) \in Nat /\ H(T) \in Nat
    BY <2>1, SumRemove
  <2>5. F(T) = G(T) + H(T) /\ g[x] \in Nat /\ h[x] \in Nat /\ f[x] = g[x] + h[x]
    BY <1>2
  <2> HIDE DEF F, G, H
  <2>6. F(T \cup {x}) = G(T \cup {x}) + H(T \cup {x})
    BY <2>3, <2>4, <2>5
  <2> QED BY <2>6
<1> HIDE DEF C
<1>3. S \in C
  BY <1>1, <1>2, SetInduction
<1> QED BY <1>3 DEF C

(***************************************************************************)
(* A family of sums: what each member a of A holds in l and in the part of *)
(* K that is its own, all of them hold together.  The rest of K is not     *)
(* anyone's.                                                               *)
(***************************************************************************)
LEMMA SumFamily ==
  ASSUME NEW K, IsFiniteSet(K), NEW A, IsFiniteSet(A), NEW of,
         NEW n1, NEW n2, NEW l1, NEW l2,
         \A k \in K : n1[k] \in Nat /\ n2[k] \in Nat /\ n2[k] <= n1[k],
         \A a \in A : l1[a] \in Nat /\ l2[a] \in Nat,
         \A a \in A : l2[a] + SumFunctionOnSet(n2, {k \in K : of[k] = a})
                        <= l1[a] + SumFunctionOnSet(n1, {k \in K : of[k] = a})
  PROVE  SumFunctionOnSet(n2, K) + SumFunctionOnSet(l2, A)
           <= SumFunctionOnSet(n1, K) + SumFunctionOnSet(l1, A)
<1> DEFINE Own(T) == {k \in K : of[k] \in T}
           N1(T) == SumFunctionOnSet(n1, T)
           N2(T) == SumFunctionOnSet(n2, T)
           L1(T) == SumFunctionOnSet(l1, T)
           L2(T) == SumFunctionOnSet(l2, T)
           C == {T \in SUBSET A : N2(Own(T)) + L2(T) <= N1(Own(T)) + L1(T)}
<1>0. ASSUME NEW T \in SUBSET K
      PROVE  IsFiniteSet(T) /\ N1(T) \in Nat /\ N2(T) \in Nat
  BY FS_Subset, SumRemove
<1>1. {} \in C
  <2>1. Own({}) = {}
    OBVIOUS
  <2> HIDE DEF Own
  <2> QED BY <2>1, SumEmpty
<1>2. ASSUME NEW T \in SUBSET A, T \in C, NEW a \in A \ T
      PROVE  T \cup {a} \in C
  <2> DEFINE own == {k \in K : of[k] = a}
  <2>1. /\ IsFiniteSet(T)
        /\ Own(T \cup {a}) = Own(T) \cup own /\ Own(T) \cap own = {}
        /\ Own(T) \in SUBSET K /\ own \in SUBSET K
    BY FS_Subset
  <2>2. /\ N1(Own(T)) \in Nat /\ N2(Own(T)) \in Nat
        /\ N1(own) \in Nat /\ N2(own) \in Nat
    BY <1>0, <2>1
  <2>3. /\ N1(Own(T) \cup own) = N1(Own(T)) + N1(own)
        /\ N2(Own(T) \cup own) = N2(Own(T)) + N2(own)
    <3>1. \A k \in Own(T) \cup own : n1[k] \in Nat /\ n2[k] \in Nat
      OBVIOUS
    <3> HIDE DEF Own, own
    <3> QED BY <1>0, <2>1, <3>1, SumUnion
  <2>4. L1(T \cup {a}) = l1[a] + L1(T) /\ L2(T \cup {a}) = l2[a] + L2(T)
    BY <2>1, SumAdd
  <2>5. L1(T) \in Nat /\ L2(T) \in Nat
    BY <2>1, SumRemove
  <2>6. /\ l1[a] \in Nat /\ l2[a] \in Nat
        /\ l2[a] + N2(own) <= l1[a] + N1(own)
        /\ N2(Own(T)) + L2(T) <= N1(Own(T)) + L1(T)
    BY <1>2
  <2> HIDE DEF Own, own, N1, N2, L1, L2
  <2>7. N2(Own(T) \cup own) + L2(T \cup {a}) <= N1(Own(T) \cup own) + L1(T \cup {a})
    BY <2>2, <2>3, <2>4, <2>5, <2>6
  <2>8. N2(Own(T \cup {a})) + L2(T \cup {a}) <= N1(Own(T \cup {a})) + L1(T \cup {a})
    BY <2>1, <2>7
  <2> QED BY <2>8
<1> HIDE DEF C
<1>3. A \in C
  BY <1>1, <1>2, SetInduction
<1>4. N2(Own(A)) + L2(A) <= N1(Own(A)) + L1(A)
  BY <1>3 DEF C
<1> DEFINE rest == K \ Own(A)
<1>5. N2(rest) <= N1(rest)
  BY <1>0, SumLess
<1>6. /\ Own(A) \in SUBSET K /\ rest \in SUBSET K
      /\ Own(A) \cap rest = {} /\ Own(A) \cup rest = K
  OBVIOUS
<1>7. /\ N1(Own(A)) \in Nat /\ N2(Own(A)) \in Nat
      /\ N1(rest) \in Nat /\ N2(rest) \in Nat
      /\ L1(A) \in Nat /\ L2(A) \in Nat
  BY <1>0, <1>6, SumRemove
<1>8. N1(K) = N1(Own(A)) + N1(rest) /\ N2(K) = N2(Own(A)) + N2(rest)
  <2>1. \A k \in Own(A) \cup rest : n1[k] \in Nat /\ n2[k] \in Nat
    OBVIOUS
  <2> HIDE DEF Own, rest
  <2> QED BY <1>0, <1>6, <2>1, SumUnion
<1>9. N2(K) + L2(A) <= N1(K) + L1(A)
  <2> HIDE DEF Own, rest, N1, N2, L1, L2
  <2> QED BY <1>4, <1>5, <1>7, <1>8
<1> QED BY <1>9

(***************************************************************************)
(* Pairing every element with the same first component changes no sum.     *)
(***************************************************************************)
Paired(g, M) == {<<g, m>> : m \in M}

LEMMA SumOfPairs ==
  ASSUME NEW M, IsFiniteSet(M), NEW g, NEW f, NEW h,
         \A m \in M : f[m] \in Nat, \A m \in M : h[<<g, m>>] = f[m]
  PROVE  /\ IsFiniteSet(Paired(g, M))
         /\ SumFunctionOnSet(h, Paired(g, M)) = SumFunctionOnSet(f, M)
<1> DEFINE Pairs(T) == Paired(g, T)
           F(T) == SumFunctionOnSet(f, T)
           H(T) == SumFunctionOnSet(h, T)
           C == {T \in SUBSET M : IsFiniteSet(Pairs(T)) /\ H(Pairs(T)) = F(T)}
<1>1. {} \in C
  <2>1. Pairs({}) = {}
    BY DEF Paired
  <2> HIDE DEF Pairs
  <2> QED BY <2>1, SumEmpty, FS_EmptySet
<1>2. ASSUME NEW T \in SUBSET M, T \in C, NEW m \in M \ T
      PROVE  T \cup {m} \in C
  <2>1. /\ Pairs(T \cup {m}) = Pairs(T) \cup {<<g, m>>} /\ <<g, m>> \notin Pairs(T)
        /\ \A y \in Pairs(T) \cup {<<g, m>>} : h[y] \in Nat
    BY DEF Paired
  <2>2. IsFiniteSet(T) /\ IsFiniteSet(Pairs(T)) /\ H(Pairs(T)) = F(T)
    BY <1>2, FS_Subset
  <2>3. F(T \cup {m}) = f[m] + F(T)
    BY <2>2, SumAdd
  <2>4. h[<<g, m>>] = f[m]
    OBVIOUS
  <2> HIDE DEF Pairs
  <2>5. H(Pairs(T \cup {m})) = h[<<g, m>>] + H(Pairs(T))
    BY <2>1, <2>2, SumAdd
  <2>6. IsFiniteSet(Pairs(T \cup {m}))
    <3>1. \A x : IsFiniteSet(Pairs(T) \cup {x})
      BY <2>2, FS_AddElement
    <3> QED BY <2>1, <3>1
  <2> HIDE DEF F, H
  <2> QED BY <2>2, <2>3, <2>4, <2>5, <2>6
<1> HIDE DEF C
<1>3. M \in C
  BY <1>1, <1>2, SetInduction
<1> QED BY <1>3 DEF C

-----------------------------------------------------------------------------
(* What a journal says, in sums over its requests and its arms.  The part  *)
(* of a charge that its reservation covers is its net charge; the rest is  *)
(* the overrun.                                                            *)

Charges(j) == [k \in Keys |-> Charge(j, k)]
Nets(j) == [k \in Keys |-> IF j.settled[k] # None /\ j.settled[k] < j.reserved[k].cost
                           THEN j.settled[k] ELSE j.reserved[k].cost]
Overs(j) == [k \in Keys |-> IF j.settled[k] = None THEN 0
                            ELSE Monus(j.settled[k], j.reserved[k].cost)]
NetSpend(j, ks) == SumFunctionOnSet(Nets(j), ks)
OverSpend(j, ks) == SumFunctionOnSet(Overs(j), ks)

CostsLeft(j) == [a \in Groups \X Members |-> CostLeft(j, a)]
AllRequestsLeft(j) == [a \in Groups \X Members |-> RequestsLeft(j, a)]

Finite(j) == j \in Journals /\ IsFiniteSet(Requests(j)) /\ IsFiniteSet(Arms(j))

\* What is left of a natural is a natural.
LEMMA MonusType == \A a, b \in Nat : Monus(a, b) \in Nat
BY DEF Monus

\* A charge is its part within the reservation and its overrun (_summary).
LEMMA ChargeTypes ==
  ASSUME NEW j \in Journals, NEW k \in Requests(j)
  PROVE  /\ k \in Keys /\ j.reserved[k] \in Reservations
         /\ Charges(j)[k] \in Nat /\ Nets(j)[k] \in Nat /\ Overs(j)[k] \in Nat
         /\ Charges(j)[k] = Nets(j)[k] + Overs(j)[k]
<1>1. k \in Keys /\ j.reserved[k] \in Reservations /\ j.settled[k] \in Nat \cup {None}
  BY DEF Requests, Journals
<1>2. j.reserved[k].cost \in Nat /\ None \notin Nat
  BY <1>1, BudgetAssumption DEF Reservations
<1> QED BY <1>1, <1>2 DEF Charges, Charge, Nets, Overs, Monus

\* Spend is a sum of charges, and that of their two parts.
LEMMA SpendIsSum ==
  ASSUME NEW j, Finite(j), NEW ks \in SUBSET Requests(j)
  PROVE  /\ IsFiniteSet(ks)
         /\ Spend(j, ks) = SumFunctionOnSet(Charges(j), ks)
         /\ Spend(j, ks) \in Nat /\ NetSpend(j, ks) \in Nat /\ OverSpend(j, ks) \in Nat
         /\ Spend(j, ks) = NetSpend(j, ks) + OverSpend(j, ks)
<1>0. j \in Journals /\ IsFiniteSet(ks)
  BY FS_Subset DEF Finite
<1>1. \A k \in ks : /\ k \in Keys
                    /\ Charges(j)[k] \in Nat /\ Nets(j)[k] \in Nat /\ Overs(j)[k] \in Nat
                    /\ Charges(j)[k] = Nets(j)[k] + Overs(j)[k]
  BY <1>0, ChargeTypes
<1> DEFINE f == [k \in ks |-> Charge(j, k)]
<1>2. Spend(j, ks) = SumFunctionOnSet(f, ks)
  BY DEF Spend, SumFunction
<1>3. \A k \in ks : f[k] = Charges(j)[k]
  BY <1>1 DEF Charges
<1> HIDE DEF f
<1>4. Spend(j, ks) = SumFunctionOnSet(Charges(j), ks)
  BY <1>0, <1>2, <1>3, SumSame
<1>5. SumFunctionOnSet(Charges(j), ks) = NetSpend(j, ks) + OverSpend(j, ks)
  BY <1>0, <1>1, SumSplit DEF NetSpend, OverSpend
<1>6. NetSpend(j, ks) \in Nat /\ OverSpend(j, ks) \in Nat
  BY <1>0, <1>1, SumRemove DEF NetSpend, OverSpend
<1> QED BY <1>0, <1>4, <1>5, <1>6

\* What is known of an arm of an admitted group.
LEMMA LeftTypes ==
  ASSUME NEW j, Finite(j), NEW a \in Arms(j)
  PROVE  /\ a \in Groups \X Members /\ a = <<a[1], a[2]>>
         /\ a[1] \in Groups /\ a[2] \in Members
         /\ j.groups[a[1]] \in Admissions /\ ScopeOf(j, a) \in Scopes
         /\ Ceiling(j, a) \in Ceilings
         /\ ArmRequests(j, a) \in SUBSET Requests(j)
         /\ Cardinality(ArmRequests(j, a)) \in Nat
         /\ CostsLeft(j)[a] = CostLeft(j, a) /\ CostLeft(j, a) \in Nat
         /\ AllRequestsLeft(j)[a] = RequestsLeft(j, a) /\ RequestsLeft(j, a) \in Nat
<1>0. j \in Journals
  BY DEF Finite
<1>1. a \in Groups \X Members
  BY <1>0, ArmTypes
<1>2. PICK g \in {h \in Groups : j.groups[h] # None} :
        a \in {<<g, m>> : m \in DOMAIN j.groups[g].plan}
  BY DEF Arms
<1>3. g = a[1] /\ a[2] \in DOMAIN j.groups[g].plan /\ j.groups[g] \in Admissions
  BY <1>0, <1>2 DEF Journals
<1>4. Ceiling(j, a) \in Ceilings
  BY <1>3, PlansAssumption DEF Ceiling, Admissions
<1>5. ArmRequests(j, a) \in SUBSET Requests(j)
  BY DEF ArmRequests
<1>6. Cardinality(ArmRequests(j, a)) \in Nat /\ Spend(j, ArmRequests(j, a)) \in Nat
  BY <1>5, SpendIsSum, FS_CardinalityType
<1>7. CostLeft(j, a) \in Nat /\ RequestsLeft(j, a) \in Nat
  BY <1>4, <1>6, MonusType DEF CostLeft, RequestsLeft, Ceilings
<1>8. ScopeOf(j, a) \in Scopes
  BY <1>3 DEF ScopeOf, Admissions
<1> QED BY <1>1, <1>3, <1>4, <1>5, <1>6, <1>7, <1>8 DEF CostsLeft, AllRequestsLeft

\* The held allowances are sums of what the arms have left.
LEMMA HeldIsSum ==
  ASSUME NEW j, Finite(j), NEW arms \in SUBSET Arms(j)
  PROVE  /\ IsFiniteSet(arms)
         /\ HeldCost(j, arms) = SumFunctionOnSet(CostsLeft(j), arms)
         /\ HeldRequests(j, arms) = SumFunctionOnSet(AllRequestsLeft(j), arms)
         /\ HeldCost(j, arms) \in Nat /\ HeldRequests(j, arms) \in Nat
<1>0. IsFiniteSet(arms)
  BY FS_Subset DEF Finite
<1> DEFINE f == [a \in arms |-> CostLeft(j, a)]
           g == [a \in arms |-> RequestsLeft(j, a)]
<1>1. \A a \in arms : /\ f[a] = CostsLeft(j)[a] /\ f[a] \in Nat
                      /\ g[a] = AllRequestsLeft(j)[a] /\ g[a] \in Nat
  BY LeftTypes
<1>2. HeldCost(j, arms) = SumFunctionOnSet(f, arms)
  BY DEF HeldCost, SumFunction
<1>3. HeldRequests(j, arms) = SumFunctionOnSet(g, arms)
  BY DEF HeldRequests, SumFunction
<1> HIDE DEF f, g
<1> QED BY <1>0, <1>1, <1>2, <1>3, SumSame, SumRemove

\* A held allowance is what an arm of the set holds, and what the others do.
LEMMA HeldSplit ==
  ASSUME NEW j, Finite(j), NEW arms \in SUBSET Arms(j), NEW a \in arms
  PROVE  /\ HeldCost(j, arms) = CostLeft(j, a) + HeldCost(j, arms \ {a})
         /\ HeldRequests(j, arms) = RequestsLeft(j, a) + HeldRequests(j, arms \ {a})
<1>1. arms \ {a} \in SUBSET Arms(j) /\ a \in Arms(j)
  OBVIOUS
<1>2. /\ IsFiniteSet(arms)
      /\ HeldCost(j, arms) = SumFunctionOnSet(CostsLeft(j), arms)
      /\ HeldRequests(j, arms) = SumFunctionOnSet(AllRequestsLeft(j), arms)
  BY HeldIsSum
<1>3. /\ HeldCost(j, arms \ {a}) = SumFunctionOnSet(CostsLeft(j), arms \ {a})
      /\ HeldRequests(j, arms \ {a}) = SumFunctionOnSet(AllRequestsLeft(j), arms \ {a})
  BY <1>1, HeldIsSum
<1>4. \A b \in arms : /\ CostsLeft(j)[b] = CostLeft(j, b) /\ CostsLeft(j)[b] \in Nat
                      /\ AllRequestsLeft(j)[b] = RequestsLeft(j, b)
                      /\ AllRequestsLeft(j)[b] \in Nat
  BY LeftTypes
<1> QED BY <1>2, <1>3, <1>4, SumRemove

-----------------------------------------------------------------------------
(* More responses become known. *)

\* A reservation drawn on an arm is drawn in the stage the arm's group was admitted for.
Sound(j) ==
  /\ Finite(j)
  /\ \A k \in Requests(j) :
       j.reserved[k].group # None =>
         Arm(j.reserved[k]) \in InScope(j, Arms(j), j.reserved[k].scope)

\* j is i with more responses.
Later(i, j) ==
  /\ j.reserved = i.reserved /\ j.groups = i.groups
  /\ \A k \in Keys : i.settled[k] # None => j.settled[k] = i.settled[k]

\* More responses change neither reservations nor groups.
LEMMA LaterSame ==
  ASSUME NEW i, NEW j, Sound(i), j \in Journals, Later(i, j)
  PROVE  /\ Sound(j) /\ Requests(j) = Requests(i) /\ Arms(j) = Arms(i)
         /\ \A s : ScopeRequests(j, s) = ScopeRequests(i, s)
         /\ \A arms, s : InScope(j, arms, s) = InScope(i, arms, s)
         /\ \A a : ArmRequests(j, a) = ArmRequests(i, a) /\ Ceiling(j, a) = Ceiling(i, a)
<1>1. j.reserved = i.reserved /\ j.groups = i.groups
  BY DEF Later
<1>2. Requests(j) = Requests(i)
  BY <1>1 DEF Requests
<1>3. Arms(j) = Arms(i)
  BY <1>1 DEF Arms
<1>4. \A s : ScopeRequests(j, s) = ScopeRequests(i, s)
  BY <1>1, <1>2 DEF ScopeRequests
<1>5. \A arms, s : InScope(j, arms, s) = InScope(i, arms, s)
  BY <1>1 DEF InScope, ScopeOf
<1>6. \A a : ArmRequests(j, a) = ArmRequests(i, a) /\ Ceiling(j, a) = Ceiling(i, a)
  BY <1>1, <1>2 DEF ArmRequests, Ceiling
<1>7. Sound(j)
  BY <1>1, <1>2, <1>3, <1>5 DEF Sound, Finite
<1> QED BY <1>2, <1>3, <1>4, <1>5, <1>6, <1>7

\* What a request may cost within its reservation never grows, its overrun never shrinks.
LEMMA LaterCharges ==
  ASSUME NEW i, NEW j, Sound(i), j \in Journals, Later(i, j), NEW k \in Requests(i)
  PROVE  /\ Nets(i)[k] \in Nat /\ Nets(j)[k] \in Nat /\ Nets(j)[k] <= Nets(i)[k]
         /\ Overs(i)[k] \in Nat /\ Overs(j)[k] \in Nat /\ Overs(i)[k] <= Overs(j)[k]
<1>1. i \in Journals /\ k \in Requests(j)
  BY LaterSame DEF Sound, Finite
<1>2. /\ k \in Keys /\ i.reserved[k] \in Reservations
      /\ Nets(i)[k] \in Nat /\ Nets(j)[k] \in Nat
      /\ Overs(i)[k] \in Nat /\ Overs(j)[k] \in Nat
  BY <1>1, ChargeTypes
<1>3. /\ j.reserved[k] = i.reserved[k] /\ i.settled[k] \in Nat \cup {None}
      /\ i.settled[k] # None => j.settled[k] = i.settled[k]
      /\ j.settled[k] \in Nat \cup {None}
  BY <1>1, <1>2 DEF Later, Journals
<1>4. i.reserved[k].cost \in Nat /\ None \notin Nat
  BY <1>2, BudgetAssumption DEF Reservations
<1>5. CASE i.settled[k] # None
  BY <1>2, <1>3, <1>5 DEF Nets, Overs
<1>6. CASE i.settled[k] = None
  BY <1>2, <1>3, <1>4, <1>6 DEF Nets, Overs
<1> QED BY <1>5, <1>6

\* What an arm spends within its reservations and what it has left, together, never grow.
LEMMA LaterArm ==
  ASSUME NEW i, NEW j, Sound(i), j \in Journals, Later(i, j), NEW a \in Arms(i)
  PROVE  /\ CostLeft(i, a) \in Nat /\ CostLeft(j, a) \in Nat
         /\ CostLeft(j, a) + NetSpend(j, ArmRequests(i, a))
              <= CostLeft(i, a) + NetSpend(i, ArmRequests(i, a))
<1> DEFINE own == ArmRequests(i, a)
<1>1. /\ Sound(j) /\ Finite(i) /\ Finite(j) /\ Requests(j) = Requests(i)
      /\ a \in Arms(j) /\ ArmRequests(j, a) = own /\ Ceiling(j, a) = Ceiling(i, a)
  BY LaterSame DEF Sound
<1>2. own \in SUBSET Requests(i) /\ Ceiling(i, a) \in Ceilings
  BY <1>1, LeftTypes
<1>3. /\ IsFiniteSet(own)
      /\ Spend(i, own) = NetSpend(i, own) + OverSpend(i, own)
      /\ NetSpend(i, own) \in Nat /\ OverSpend(i, own) \in Nat
      /\ Spend(j, own) = NetSpend(j, own) + OverSpend(j, own)
      /\ NetSpend(j, own) \in Nat /\ OverSpend(j, own) \in Nat
  BY <1>1, <1>2, SpendIsSum
<1>4. \A k \in own :
        /\ Nets(i)[k] \in Nat /\ Nets(j)[k] \in Nat /\ Nets(j)[k] <= Nets(i)[k]
        /\ Overs(i)[k] \in Nat /\ Overs(j)[k] \in Nat /\ Overs(i)[k] <= Overs(j)[k]
  BY <1>2, LaterCharges
<1>5. NetSpend(j, own) <= NetSpend(i, own)
  BY <1>3, <1>4, SumLess DEF NetSpend
<1>6. OverSpend(i, own) <= OverSpend(j, own)
  BY <1>3, <1>4, SumLess DEF OverSpend
<1>7. /\ CostLeft(i, a) = Monus(Ceiling(i, a).cost, Spend(i, own))
      /\ CostLeft(j, a) = Monus(Ceiling(i, a).cost, Spend(j, own))
      /\ Ceiling(i, a).cost \in Nat
  BY <1>1, <1>2 DEF CostLeft, Ceilings
<1> HIDE DEF own
<1>8. CostLeft(j, a) + NetSpend(j, own) <= CostLeft(i, a) + NetSpend(i, own)
  BY <1>3, <1>5, <1>6, <1>7 DEF Monus
<1>9. CostLeft(i, a) \in Nat /\ CostLeft(j, a) \in Nat
  BY <1>1, LeftTypes
<1> QED BY <1>8, <1>9 DEF own

\* Of any requests that include those of the arms.
LEMMA LaterFits ==
  ASSUME NEW i, NEW j, Sound(i), j \in Journals, Later(i, j),
         NEW ks \in SUBSET Requests(i), NEW arms \in SUBSET Arms(i),
         \A a \in arms : ArmRequests(i, a) \subseteq ks
  PROVE  NetSpend(j, ks) + HeldCost(j, arms) <= NetSpend(i, ks) + HeldCost(i, arms)
<1>1. /\ Sound(j) /\ Finite(i) /\ Finite(j) /\ Requests(j) = Requests(i) /\ Arms(j) = Arms(i)
  BY LaterSame DEF Sound
<1> DEFINE of == [k \in ks |-> <<i.reserved[k].group, i.reserved[k].member>>]
<1>2. ASSUME NEW a \in arms
      PROVE  {k \in ks : of[k] = a} = ArmRequests(i, a)
  BY <1>2 DEF ArmRequests
<1>3. IsFiniteSet(ks) /\ IsFiniteSet(arms)
  BY <1>1, FS_Subset DEF Finite
<1>4. \A k \in ks : Nets(i)[k] \in Nat /\ Nets(j)[k] \in Nat /\ Nets(j)[k] <= Nets(i)[k]
  BY LaterCharges
<1>5. ASSUME NEW a \in arms
      PROVE  /\ CostsLeft(i)[a] = CostLeft(i, a) /\ CostsLeft(j)[a] = CostLeft(j, a)
             /\ CostLeft(i, a) \in Nat /\ CostLeft(j, a) \in Nat
  BY <1>1, LeftTypes
<1>6. ASSUME NEW a \in arms
      PROVE  CostsLeft(j)[a] + SumFunctionOnSet(Nets(j), {k \in ks : of[k] = a})
               <= CostsLeft(i)[a] + SumFunctionOnSet(Nets(i), {k \in ks : of[k] = a})
  BY <1>2, <1>5, LaterArm DEF NetSpend
<1>7. /\ HeldCost(i, arms) = SumFunctionOnSet(CostsLeft(i), arms)
      /\ HeldCost(j, arms) = SumFunctionOnSet(CostsLeft(j), arms)
  BY <1>1, HeldIsSum
<1> HIDE DEF of
<1>8. SumFunctionOnSet(Nets(j), ks) + SumFunctionOnSet(CostsLeft(j), arms)
        <= SumFunctionOnSet(Nets(i), ks) + SumFunctionOnSet(CostsLeft(i), arms)
  BY <1>3, <1>4, <1>5, <1>6, SumFamily
<1> QED BY <1>7, <1>8 DEF NetSpend

\* The arms of a stage draw on requests of that stage.
LEMMA ArmsOfScope ==
  ASSUME NEW j, Sound(j)
  PROVE  /\ \A a \in Arms(j) : ArmRequests(j, a) \subseteq Requests(j)
         /\ \A s \in Scopes, a \in Arms(j) :
              ScopeOf(j, a) = s => ArmRequests(j, a) \subseteq ScopeRequests(j, s)
<1> SUFFICES ASSUME NEW s \in Scopes, NEW a \in Arms(j), ScopeOf(j, a) = s,
                    NEW k \in ArmRequests(j, a)
             PROVE  k \in ScopeRequests(j, s)
  BY DEF ArmRequests
<1>1. k \in Requests(j) /\ <<j.reserved[k].group, j.reserved[k].member>> = a
  BY DEF ArmRequests
<1>2. a[1] \in Groups /\ a = <<a[1], a[2]>>
  BY LeftTypes DEF Sound
<1>3. j.reserved[k].group # None
  BY <1>1, <1>2, BudgetAssumption
<1>4. a \in InScope(j, Arms(j), j.reserved[k].scope)
  BY <1>1, <1>3 DEF Sound, Arm
<1> QED BY <1>1, <1>4 DEF InScope, ScopeRequests

-----------------------------------------------------------------------------
(* A reservation is appended. *)

\* jj is j with a reservation of its own for the key.
Reserved(j, jj, key, charge) ==
  /\ key \in Keys /\ charge \in Reservations
  /\ j.reserved[key] = None /\ j.settled[key] = None
  /\ jj = [j EXCEPT !.reserved = [@ EXCEPT ![key] = charge]]
  /\ charge.group # None => Arm(charge) \in InScope(j, Arms(j), charge.scope)

\* The fields of the journal with the new reservation.
LEMMA ReservedFields ==
  ASSUME NEW j, Sound(j), NEW jj, NEW key, NEW charge, Reserved(j, jj, key, charge)
  PROVE  /\ j \in Journals /\ jj \in Journals
         /\ jj.reserved = [j.reserved EXCEPT ![key] = charge]
         /\ jj.settled = j.settled /\ jj.groups = j.groups
         /\ jj.reserved[key] = charge /\ jj.settled[key] = None
         /\ \A k \in Requests(j) : jj.reserved[k] = j.reserved[k]
         /\ key \notin Requests(j) /\ Requests(jj) = Requests(j) \cup {key}
         /\ charge # None /\ charge.cost \in Nat /\ charge.scope \in Scopes
<1>1. j \in Journals
  BY DEF Sound, Finite
<1>2. jj = [reserved |-> [j.reserved EXCEPT ![key] = charge],
            settled |-> j.settled, groups |-> j.groups]
  BY <1>1 DEF Reserved, Journals
<1>3. key \in Keys /\ charge \in Reservations /\ charge # None /\ j.reserved[key] = None
  BY NoneAssumption DEF Reserved
<1>4. jj \in Journals
  BY <1>1, <1>2, <1>3 DEF Journals
<1>5. /\ jj.reserved = [j.reserved EXCEPT ![key] = charge]
      /\ jj.settled = j.settled /\ jj.groups = j.groups
  BY <1>2
<1>6. j.reserved \in [Keys -> Reservations \cup {None}]
  BY <1>1 DEF Journals
<1>7. /\ jj.reserved[key] = charge
      /\ \A k \in Keys : k # key => jj.reserved[k] = j.reserved[k]
  BY <1>3, <1>5, <1>6
<1>8. key \notin Requests(j) /\ Requests(jj) = Requests(j) \cup {key}
  BY <1>3, <1>7 DEF Requests
<1>9. jj.settled[key] = None
  BY <1>5 DEF Reserved
<1>10. charge.cost \in Nat /\ charge.scope \in Scopes
  BY <1>3 DEF Reservations
<1>11. \A k \in Requests(j) : jj.reserved[k] = j.reserved[k]
  BY <1>7, <1>8 DEF Requests
<1> QED BY <1>1, <1>3, <1>4, <1>5, <1>7, <1>8, <1>9, <1>10, <1>11

\* The requests of each stage and each arm, with the new one.
LEMMA ReservedSound ==
  ASSUME NEW j, Sound(j), NEW jj, NEW key, NEW charge, Reserved(j, jj, key, charge)
  PROVE  /\ Sound(jj) /\ Arms(jj) = Arms(j)
         /\ \A a : ScopeOf(jj, a) = ScopeOf(j, a) /\ Ceiling(jj, a) = Ceiling(j, a)
         /\ \A arms, s : InScope(jj, arms, s) = InScope(j, arms, s)
         /\ \A s : ScopeRequests(jj, s) = ScopeRequests(j, s)
                     \cup (IF charge.scope = s THEN {key} ELSE {})
         /\ \A a : ArmRequests(jj, a) = ArmRequests(j, a)
                     \cup (IF Arm(charge) = a THEN {key} ELSE {})
<1>1. /\ jj \in Journals /\ jj.groups = j.groups /\ jj.reserved[key] = charge
      /\ \A k \in Requests(j) : jj.reserved[k] = j.reserved[k]
      /\ Requests(jj) = Requests(j) \cup {key}
  BY ReservedFields
<1>2. Arms(jj) = Arms(j)
  BY <1>1 DEF Arms
<1>3. \A a : ScopeOf(jj, a) = ScopeOf(j, a) /\ Ceiling(jj, a) = Ceiling(j, a)
  BY <1>1 DEF ScopeOf, Ceiling
<1>4. \A arms, s : InScope(jj, arms, s) = InScope(j, arms, s)
  BY <1>3 DEF InScope
<1>5. IsFiniteSet(Requests(jj)) /\ IsFiniteSet(Arms(jj))
  BY <1>1, <1>2, FS_AddElement DEF Sound, Finite
<1>6. ASSUME NEW k \in Requests(jj), jj.reserved[k].group # None
      PROVE  Arm(jj.reserved[k]) \in InScope(jj, Arms(jj), jj.reserved[k].scope)
  <2>1. CASE k = key
    BY <1>1, <1>2, <1>4, <1>6, <2>1 DEF Reserved
  <2>2. CASE k \in Requests(j)
    BY <1>1, <1>2, <1>4, <1>6, <2>2 DEF Sound
  <2> QED BY <1>1, <2>1, <2>2
<1>7. Sound(jj)
  BY <1>1, <1>5, <1>6 DEF Sound, Finite
<1>8. \A s : ScopeRequests(jj, s) = ScopeRequests(j, s)
               \cup (IF charge.scope = s THEN {key} ELSE {})
  BY <1>1 DEF ScopeRequests
<1>9. \A a : ArmRequests(jj, a) = ArmRequests(j, a)
               \cup (IF Arm(charge) = a THEN {key} ELSE {})
  BY <1>1 DEF ArmRequests, Arm
<1> QED BY <1>2, <1>3, <1>4, <1>7, <1>8, <1>9

\* What was charged stays charged, and the new request is charged what it reserves.
LEMMA ReservedSpend ==
  ASSUME NEW j, Sound(j), NEW jj, NEW key, NEW charge, Reserved(j, jj, key, charge),
         NEW ks \in SUBSET Requests(j)
  PROVE  /\ NetSpend(j, ks) \in Nat /\ Spend(j, ks) \in Nat
         /\ NetSpend(jj, ks) = NetSpend(j, ks) /\ Spend(jj, ks) = Spend(j, ks)
         /\ NetSpend(jj, ks \cup {key}) = NetSpend(j, ks) + charge.cost
         /\ Spend(jj, ks \cup {key}) = Spend(j, ks) + charge.cost
<1>1. /\ jj \in Journals /\ jj.settled = j.settled
      /\ jj.reserved[key] = charge /\ jj.settled[key] = None
      /\ \A k \in Requests(j) : jj.reserved[k] = j.reserved[k]
      /\ key \notin Requests(j) /\ Requests(jj) = Requests(j) \cup {key}
      /\ charge.cost \in Nat
  BY ReservedFields
<1>0. key \in Keys
  BY DEF Reserved
<1>2. Finite(j) /\ Finite(jj)
  BY ReservedSound DEF Sound
<1>3. /\ IsFiniteSet(ks) /\ ks \cup {key} \in SUBSET Requests(jj) /\ key \notin ks
      /\ ks \in SUBSET Requests(jj)
  BY <1>1, <1>2, SpendIsSum
<1>4. \A k \in ks : Nets(jj)[k] = Nets(j)[k] /\ Charges(jj)[k] = Charges(j)[k]
  BY <1>1 DEF Nets, Charges, Charge, Requests
<1>5. Nets(jj)[key] = charge.cost /\ Charges(jj)[key] = charge.cost
  BY <1>0, <1>1 DEF Nets, Charges, Charge
<1>6. \A k \in ks \cup {key} : Nets(jj)[k] \in Nat /\ Charges(jj)[k] \in Nat
  BY <1>1, <1>3, ChargeTypes
<1>7. /\ SumFunctionOnSet(Nets(jj), ks) = SumFunctionOnSet(Nets(j), ks)
      /\ SumFunctionOnSet(Charges(jj), ks) = SumFunctionOnSet(Charges(j), ks)
  BY <1>3, <1>4, SumSame
<1>8. /\ SumFunctionOnSet(Nets(jj), ks \cup {key})
           = Nets(jj)[key] + SumFunctionOnSet(Nets(jj), ks)
      /\ SumFunctionOnSet(Charges(jj), ks \cup {key})
           = Charges(jj)[key] + SumFunctionOnSet(Charges(jj), ks)
  BY <1>3, <1>6, SumAdd
<1>9. /\ Spend(j, ks) = SumFunctionOnSet(Charges(j), ks)
      /\ Spend(jj, ks) = SumFunctionOnSet(Charges(jj), ks)
      /\ Spend(jj, ks \cup {key}) = SumFunctionOnSet(Charges(jj), ks \cup {key})
      /\ NetSpend(j, ks) \in Nat /\ Spend(j, ks) \in Nat
  BY <1>2, <1>3, SpendIsSum
<1> QED BY <1>1, <1>5, <1>7, <1>8, <1>9 DEF NetSpend

\* The arm that is drawn on has that much less left, if it had as much.
LEMMA ReservedArms ==
  ASSUME NEW j, Sound(j), NEW jj, NEW key, NEW charge, Reserved(j, jj, key, charge),
         NEW a \in Arms(j)
  PROVE  /\ CostLeft(j, a) \in Nat /\ RequestsLeft(j, a) \in Nat
         /\ a # Arm(charge) => /\ CostLeft(jj, a) = CostLeft(j, a)
                               /\ RequestsLeft(jj, a) = RequestsLeft(j, a)
         /\ a = Arm(charge) => /\ CostLeft(jj, a) = Monus(CostLeft(j, a), charge.cost)
                               /\ RequestsLeft(jj, a) = Monus(RequestsLeft(j, a), 1)
<1> DEFINE own == ArmRequests(j, a)
<1>1. /\ Finite(j) /\ Finite(jj) /\ Ceiling(jj, a) = Ceiling(j, a)
      /\ ArmRequests(jj, a) = own \cup (IF Arm(charge) = a THEN {key} ELSE {})
  BY ReservedSound DEF Sound
<1>2. /\ own \in SUBSET Requests(j) /\ Ceiling(j, a) \in Ceilings
      /\ CostLeft(j, a) \in Nat /\ RequestsLeft(j, a) \in Nat
      /\ Cardinality(own) \in Nat
  BY <1>1, LeftTypes
<1>3. charge.cost \in Nat /\ key \notin own
  BY <1>2, ReservedFields
<1>4. Ceiling(j, a).cost \in Nat /\ Ceiling(j, a).requests \in Nat
  BY <1>2 DEF Ceilings
<1>5. /\ Spend(j, own) \in Nat /\ Spend(jj, own) = Spend(j, own)
      /\ Spend(jj, own \cup {key}) = Spend(j, own) + charge.cost
  BY <1>2, ReservedSpend
<1>6. Cardinality(own \cup {key}) = Cardinality(own) + 1
  BY <1>1, <1>2, <1>3, SpendIsSum, FS_AddElement
<1>7. CASE a # Arm(charge)
  <2>1. ArmRequests(jj, a) = own
    BY <1>1, <1>7
  <2> QED BY <1>1, <1>2, <1>5, <1>7, <2>1 DEF CostLeft, RequestsLeft
<1>8. CASE a = Arm(charge)
  <2>1. ArmRequests(jj, a) = own \cup {key}
    BY <1>1, <1>8
  <2>2. /\ CostLeft(jj, a) = Monus(Ceiling(j, a).cost, Spend(j, own) + charge.cost)
        /\ CostLeft(j, a) = Monus(Ceiling(j, a).cost, Spend(j, own))
        /\ RequestsLeft(jj, a) = Monus(Ceiling(j, a).requests, Cardinality(own) + 1)
        /\ RequestsLeft(j, a) = Monus(Ceiling(j, a).requests, Cardinality(own))
    BY <1>1, <1>5, <1>6, <2>1 DEF CostLeft, RequestsLeft
  <2> HIDE DEF own
  <2>3. CostLeft(jj, a) = Monus(CostLeft(j, a), charge.cost)
    BY <1>3, <1>4, <1>5, <2>2 DEF Monus
  <2>4. RequestsLeft(jj, a) = Monus(RequestsLeft(j, a), 1)
    BY <1>2, <1>4, <2>2 DEF Monus
  <2> QED BY <1>2, <1>8, <2>3, <2>4
<1> QED BY <1>7, <1>8

\* Arms that are not drawn on keep what they had.
LEMMA ReservedHeld ==
  ASSUME NEW j, Sound(j), NEW jj, NEW key, NEW charge, Reserved(j, jj, key, charge),
         NEW arms \in SUBSET Arms(j), Arm(charge) \notin arms
  PROVE  /\ HeldCost(jj, arms) = HeldCost(j, arms)
         /\ HeldRequests(jj, arms) = HeldRequests(j, arms)
<1>1. Finite(j) /\ Finite(jj) /\ Arms(jj) = Arms(j)
  BY ReservedSound DEF Sound
<1>2. /\ IsFiniteSet(arms)
      /\ HeldCost(j, arms) = SumFunctionOnSet(CostsLeft(j), arms)
      /\ HeldRequests(j, arms) = SumFunctionOnSet(AllRequestsLeft(j), arms)
      /\ HeldCost(jj, arms) = SumFunctionOnSet(CostsLeft(jj), arms)
      /\ HeldRequests(jj, arms) = SumFunctionOnSet(AllRequestsLeft(jj), arms)
  BY <1>1, HeldIsSum
<1>3. \A a \in arms : /\ CostLeft(jj, a) = CostLeft(j, a)
                      /\ RequestsLeft(jj, a) = RequestsLeft(j, a)
  BY ReservedArms
<1>4. \A a \in arms : /\ CostsLeft(jj)[a] = CostsLeft(j)[a]
                      /\ AllRequestsLeft(jj)[a] = AllRequestsLeft(j)[a]
  BY <1>1, <1>3, LeftTypes
<1> QED BY <1>2, <1>4, SumSame

\* What was held for the arm, or the check of the budget, covers the new request.
LEMMA ReservedFits ==
  ASSUME NEW j, Sound(j), NEW jj, NEW key, NEW charge, Reserved(j, jj, key, charge),
         NEW ks \in SUBSET Requests(j), NEW arms \in SUBSET Arms(j)
  PROVE  LET others == arms \ {Arm(charge)}
         IN  /\ NetSpend(j, ks) \in Nat /\ NetSpend(jj, ks \cup {key}) \in Nat
             /\ HeldCost(j, arms) \in Nat /\ HeldCost(jj, arms) \in Nat
             /\ HeldCost(j, others) \in Nat /\ charge.cost \in Nat
             /\ \/ NetSpend(jj, ks \cup {key}) + HeldCost(jj, arms)
                     <= NetSpend(j, ks) + HeldCost(j, arms)
                \/ NetSpend(jj, ks \cup {key}) + HeldCost(jj, arms)
                     <= NetSpend(j, ks) + HeldCost(j, others) + charge.cost
             /\ Cardinality(ks) \in Nat /\ Cardinality(ks \cup {key}) \in Nat
             /\ HeldRequests(j, arms) \in Nat /\ HeldRequests(jj, arms) \in Nat
             /\ HeldRequests(j, others) \in Nat
             /\ \/ Cardinality(ks \cup {key}) + HeldRequests(jj, arms)
                     <= Cardinality(ks) + HeldRequests(j, arms)
                \/ Cardinality(ks \cup {key}) + HeldRequests(jj, arms)
                     <= Cardinality(ks) + HeldRequests(j, others) + 1
<1> DEFINE others == arms \ {Arm(charge)}
<1>1. Finite(j) /\ Finite(jj) /\ Arms(jj) = Arms(j)
  BY ReservedSound DEF Sound
<1>2. /\ others \in SUBSET Arms(j)
      /\ HeldCost(jj, others) = HeldCost(j, others)
      /\ HeldRequests(jj, others) = HeldRequests(j, others)
  BY ReservedHeld
<1>3. /\ HeldCost(j, others) \in Nat /\ HeldRequests(j, others) \in Nat
  BY <1>1, <1>2, HeldIsSum
<1>4. NetSpend(jj, ks \cup {key}) = NetSpend(j, ks) + charge.cost /\ NetSpend(j, ks) \in Nat
  BY ReservedSpend
<1>5. charge.cost \in Nat /\ key \notin ks
  BY ReservedFields
<1>6. Cardinality(ks \cup {key}) = Cardinality(ks) + 1 /\ Cardinality(ks) \in Nat
  BY <1>1, <1>5, SpendIsSum, FS_AddElement, FS_CardinalityType
<1>7. /\ HeldCost(j, arms) \in Nat /\ HeldCost(jj, arms) \in Nat
      /\ HeldRequests(j, arms) \in Nat /\ HeldRequests(jj, arms) \in Nat
  BY <1>1, HeldIsSum
<1> DEFINE Fits ==
      /\ \/ NetSpend(jj, ks \cup {key}) + HeldCost(jj, arms)
              <= NetSpend(j, ks) + HeldCost(j, arms)
         \/ NetSpend(jj, ks \cup {key}) + HeldCost(jj, arms)
              <= NetSpend(j, ks) + HeldCost(j, others) + charge.cost
      /\ \/ Cardinality(ks \cup {key}) + HeldRequests(jj, arms)
              <= Cardinality(ks) + HeldRequests(j, arms)
         \/ Cardinality(ks \cup {key}) + HeldRequests(jj, arms)
              <= Cardinality(ks) + HeldRequests(j, others) + 1
<1>8. CASE Arm(charge) \notin arms
  <2>1. others = arms
    BY <1>8
  <2>2. HeldCost(jj, arms) = HeldCost(j, others) /\ HeldRequests(jj, arms) = HeldRequests(j, others)
    BY <1>2, <2>1
  <2> HIDE DEF others
  <2>3. Fits
    BY <1>3, <1>4, <1>5, <1>6, <2>2
  <2> QED BY <1>3, <1>4, <1>5, <1>6, <1>7, <2>3 DEF others
<1>9. CASE Arm(charge) \in arms
  <2> DEFINE a == Arm(charge)
  <2>1. /\ HeldCost(j, arms) = CostLeft(j, a) + HeldCost(j, others)
        /\ HeldRequests(j, arms) = RequestsLeft(j, a) + HeldRequests(j, others)
        /\ HeldCost(jj, arms) = CostLeft(jj, a) + HeldCost(jj, others)
        /\ HeldRequests(jj, arms) = RequestsLeft(jj, a) + HeldRequests(jj, others)
    BY <1>1, <1>9, HeldSplit
  <2>2. /\ CostLeft(j, a) \in Nat /\ RequestsLeft(j, a) \in Nat
        /\ CostLeft(jj, a) = Monus(CostLeft(j, a), charge.cost)
        /\ RequestsLeft(jj, a) = Monus(RequestsLeft(j, a), 1)
    BY <1>9, ReservedArms
  <2> HIDE DEF others, a
  <2>3. \/ NetSpend(jj, ks \cup {key}) + HeldCost(jj, arms)
              <= NetSpend(j, ks) + HeldCost(j, arms)
        \/ NetSpend(jj, ks \cup {key}) + HeldCost(jj, arms)
              <= NetSpend(j, ks) + HeldCost(j, others) + charge.cost
    BY <1>2, <1>3, <1>4, <1>5, <2>1, <2>2 DEF Monus
  <2>4. \/ Cardinality(ks \cup {key}) + HeldRequests(jj, arms)
              <= Cardinality(ks) + HeldRequests(j, arms)
        \/ Cardinality(ks \cup {key}) + HeldRequests(jj, arms)
              <= Cardinality(ks) + HeldRequests(j, others) + 1
    BY <1>2, <1>3, <1>6, <2>1, <2>2 DEF Monus
  <2>5. Fits
    BY <2>3, <2>4
  <2> QED BY <1>3, <1>4, <1>5, <1>6, <1>7, <2>5 DEF others
<1> QED BY <1>8, <1>9

-----------------------------------------------------------------------------
(* A group is appended. *)

\* jj is j with the admission of the group.
Grouped(j, jj, g, admission) ==
  /\ g \in Groups /\ admission \in Admissions /\ j.groups[g] = None
  /\ jj = [j EXCEPT !.groups = [@ EXCEPT ![g] = admission]]

NewArms(g, admission) == Paired(g, DOMAIN admission.plan)

\* The fields of the journal with the new group.
LEMMA GroupedFields ==
  ASSUME NEW j, Sound(j), NEW jj, NEW g, NEW admission, Grouped(j, jj, g, admission)
  PROVE  /\ j \in Journals /\ jj \in Journals
         /\ jj.reserved = j.reserved /\ jj.settled = j.settled
         /\ jj.groups[g] = admission
         /\ \A h \in Groups : h # g => jj.groups[h] = j.groups[h]
         /\ Requests(jj) = Requests(j)
         /\ \A s : ScopeRequests(jj, s) = ScopeRequests(j, s)
         /\ \A a : ArmRequests(jj, a) = ArmRequests(j, a)
         /\ admission.scope \in Scopes /\ admission.plan \in Plans
<1>1. j \in Journals
  BY DEF Sound, Finite
<1>2. jj = [reserved |-> j.reserved, settled |-> j.settled,
            groups |-> [j.groups EXCEPT ![g] = admission]]
  BY <1>1 DEF Grouped, Journals
<1>3. g \in Groups /\ admission \in Admissions
  BY DEF Grouped
<1>4. jj \in Journals
  BY <1>1, <1>2, <1>3 DEF Journals
<1>5. jj.reserved = j.reserved /\ jj.settled = j.settled
  BY <1>2
<1>6. jj.groups[g] = admission /\ \A h \in Groups : h # g => jj.groups[h] = j.groups[h]
  BY <1>1, <1>2, <1>3 DEF Journals
<1>7. Requests(jj) = Requests(j)
  BY <1>5 DEF Requests
<1>8. \A s : ScopeRequests(jj, s) = ScopeRequests(j, s)
  BY <1>5, <1>7 DEF ScopeRequests
<1>9. \A a : ArmRequests(jj, a) = ArmRequests(j, a)
  BY <1>5, <1>7 DEF ArmRequests
<1>10. admission.scope \in Scopes /\ admission.plan \in Plans
  BY <1>3 DEF Admissions
<1> QED BY <1>1, <1>4, <1>5, <1>6, <1>7, <1>8, <1>9, <1>10

\* The arms are the members of the plans of the admitted groups.
LEMMA ArmOfGroup ==
  ASSUME NEW j, Finite(j), NEW a \in Groups \X Members
  PROVE  a \in Arms(j) <=> j.groups[a[1]] # None /\ a[2] \in DOMAIN j.groups[a[1]].plan
BY DEF Arms

\* The arms of each stage, with those of the new group.
LEMMA GroupedArms ==
  ASSUME NEW j, Sound(j), NEW jj, NEW g, NEW admission, Grouped(j, jj, g, admission)
  PROVE  /\ Sound(jj)
         /\ Arms(jj) = Arms(j) \cup NewArms(g, admission)
         /\ Arms(j) \cap NewArms(g, admission) = {}
         /\ IsFiniteSet(NewArms(g, admission))
         /\ \A s : InScope(jj, Arms(jj), s) = InScope(j, Arms(j), s)
                     \cup (IF admission.scope = s THEN NewArms(g, admission) ELSE {})
<1> DEFINE new == NewArms(g, admission)
<1>0. /\ Finite(j) /\ j \in Journals /\ g \in Groups /\ admission \in Admissions
      /\ admission # None /\ j.groups[g] = None
  BY NoneAssumption DEF Sound, Finite, Grouped
<1>1. /\ jj \in Journals /\ jj.reserved = j.reserved
      /\ jj.groups[g] = admission
      /\ \A h \in Groups : h # g => jj.groups[h] = j.groups[h]
      /\ Requests(jj) = Requests(j)
      /\ admission.scope \in Scopes /\ admission.plan \in Plans
  BY GroupedFields
<1>2. DOMAIN admission.plan \subseteq Members /\ IsFiniteSet(DOMAIN admission.plan)
  BY <1>1, PlansAssumption
<1>3. ASSUME NEW a \in Groups \X Members
      PROVE  a \in Arms(jj) <=> a \in Arms(j) \/ a \in new
  <2>1. a[1] \in Groups /\ a = <<a[1], a[2]>>
    OBVIOUS
  <2>2. a \in Arms(jj) <=> jj.groups[a[1]] # None /\ a[2] \in DOMAIN jj.groups[a[1]].plan
    BY <1>1 DEF Arms
  <2>3. a \in Arms(j) <=> j.groups[a[1]] # None /\ a[2] \in DOMAIN j.groups[a[1]].plan
    BY DEF Arms
  <2>4. a \in new <=> a[1] = g /\ a[2] \in DOMAIN admission.plan
    BY <2>1 DEF NewArms, Paired
  <2> QED BY <1>0, <1>1, <2>1, <2>2, <2>3, <2>4
<1>4. Arms(jj) \subseteq Groups \X Members /\ Arms(j) \subseteq Groups \X Members
  BY <1>0, <1>1, ArmTypes
<1>5. new \subseteq Groups \X Members
  BY <1>0, <1>2 DEF NewArms, Paired
<1>6. Arms(jj) = Arms(j) \cup new
  BY <1>3, <1>4, <1>5
<1>7. \A a \in Arms(j) : a[1] # g
  BY <1>0, <1>4, ArmOfGroup
<1>8. \A a \in new : a[1] = g
  BY DEF NewArms, Paired
<1>9. IsFiniteSet(new)
  <2> DEFINE zero == [m \in DOMAIN admission.plan |-> 0]
             zeros == [a \in new |-> 0]
  <2>1. /\ \A m \in DOMAIN admission.plan : zero[m] \in Nat
        /\ \A m \in DOMAIN admission.plan : zeros[<<g, m>>] = zero[m]
    BY DEF NewArms, Paired
  <2> HIDE DEF zero, zeros
  <2> QED BY <1>2, <2>1, SumOfPairs DEF NewArms
<1>10. \A a \in Arms(j) : ScopeOf(jj, a) = ScopeOf(j, a)
  BY <1>1, <1>4, <1>7 DEF ScopeOf
<1>11. \A a \in new : ScopeOf(jj, a) = admission.scope
  BY <1>1, <1>8 DEF ScopeOf
<1>12. Arms(j) \cap new = {}
  BY <1>7, <1>8
<1>13. ASSUME NEW s
       PROVE  InScope(jj, Arms(jj), s) = InScope(j, Arms(j), s)
                \cup (IF admission.scope = s THEN new ELSE {})
  BY <1>6, <1>10, <1>11 DEF InScope
<1>14. IsFiniteSet(Arms(jj)) /\ IsFiniteSet(Requests(jj))
  BY <1>0, <1>1, <1>6, <1>9, FS_Union DEF Finite
<1>15. \A k \in Requests(jj) :
         jj.reserved[k].group # None =>
           Arm(jj.reserved[k]) \in InScope(jj, Arms(jj), jj.reserved[k].scope)
  BY <1>1, <1>13 DEF Sound
<1>16. Sound(jj)
  BY <1>1, <1>14, <1>15 DEF Sound, Finite
<1> QED BY <1>6, <1>9, <1>12, <1>13, <1>16

\* The group brings what its plan promises, and leaves the others what they had.
LEMMA GroupedHeld ==
  ASSUME NEW j, Sound(j), NEW jj, NEW g, NEW admission, Grouped(j, jj, g, admission),
         NEW arms \in SUBSET Arms(j)
  PROVE  LET new  == NewArms(g, admission)
             plan == admission.plan
         IN  /\ PlanCost(plan) \in Nat /\ PlanRequests(plan) \in Nat
             /\ HeldCost(jj, arms) = HeldCost(j, arms)
             /\ HeldRequests(jj, arms) = HeldRequests(j, arms)
             /\ HeldCost(jj, arms \cup new) = HeldCost(j, arms) + PlanCost(plan)
             /\ HeldRequests(jj, arms \cup new) = HeldRequests(j, arms) + PlanRequests(plan)
<1> DEFINE new == NewArms(g, admission)
           plan == admission.plan
           cost == [m \in DOMAIN plan |-> plan[m].cost]
           reqs == [m \in DOMAIN plan |-> plan[m].requests]
<1>1. /\ Finite(j) /\ Finite(jj) /\ Arms(jj) = Arms(j) \cup new
      /\ Arms(j) \cap new = {} /\ IsFiniteSet(new)
  BY GroupedArms DEF Sound
<1>2. /\ j \in Journals /\ jj \in Journals
      /\ jj.reserved = j.reserved /\ jj.settled = j.settled
      /\ jj.groups[g] = admission
      /\ \A h \in Groups : h # g => jj.groups[h] = j.groups[h]
      /\ Requests(jj) = Requests(j) /\ \A a : ArmRequests(jj, a) = ArmRequests(j, a)
      /\ plan \in Plans
  BY GroupedFields
<1>0. g \in Groups /\ j.groups[g] = None
  BY DEF Grouped
<1>3. \A ks : Spend(jj, ks) = Spend(j, ks)
  BY <1>2 DEF Spend, Charge
<1>4. /\ IsFiniteSet(DOMAIN plan)
      /\ \A m \in DOMAIN plan : /\ plan[m] \in Ceilings
                                /\ cost[m] = plan[m].cost /\ cost[m] \in Nat
                                /\ reqs[m] = plan[m].requests /\ reqs[m] \in Nat
  BY <1>2, PlansAssumption DEF Ceilings
<1>5. ASSUME NEW a \in Arms(j)
      PROVE  CostLeft(jj, a) = CostLeft(j, a) /\ RequestsLeft(jj, a) = RequestsLeft(j, a)
  <2>1. a[1] \in Groups /\ a[1] # g
    BY <1>0, <1>1, <1>2, ArmOfGroup, LeftTypes
  <2>2. Ceiling(jj, a) = Ceiling(j, a)
    BY <1>2, <2>1 DEF Ceiling
  <2> QED BY <1>2, <1>3, <2>2 DEF CostLeft, RequestsLeft
<1>6. ASSUME NEW m \in DOMAIN plan
      PROVE  CostLeft(jj, <<g, m>>) = cost[m] /\ RequestsLeft(jj, <<g, m>>) = reqs[m]
  <2>1. Ceiling(jj, <<g, m>>) = plan[m]
    BY <1>2 DEF Ceiling
  <2>2. ArmRequests(jj, <<g, m>>) = {}
    <3> SUFFICES ASSUME NEW k \in ArmRequests(j, <<g, m>>) PROVE FALSE
      BY <1>2
    <3>1. k \in Requests(j) /\ j.reserved[k].group = g /\ j.reserved[k].member = m
      BY DEF ArmRequests
    <3>2. g # None
      BY <1>0, BudgetAssumption
    <3>3. <<g, m>> \in Arms(j)
      BY <3>1, <3>2 DEF Sound, InScope, Arm
    <3>4. j.groups[<<g, m>>[1]] # None
      BY <1>1, <3>3, ArmOfGroup, LeftTypes
    <3> QED BY <1>0, <3>4
  <2>3. Spend(jj, {}) = 0 /\ Cardinality({}) = 0
    BY SumEmpty, FS_EmptySet DEF Spend, SumFunction
  <2>4. /\ CostLeft(jj, <<g, m>>) = Monus(plan[m].cost, 0)
        /\ RequestsLeft(jj, <<g, m>>) = Monus(plan[m].requests, 0)
    BY <2>1, <2>2, <2>3 DEF CostLeft, RequestsLeft
  <2>5. plan[m].cost \in Nat /\ plan[m].requests \in Nat
    BY <1>4 DEF Ceilings
  <2>6. \A n \in Nat : Monus(n, 0) = n
    BY DEF Monus
  <2> QED BY <1>4, <2>4, <2>5, <2>6
<1>7. arms \in SUBSET Arms(jj) /\ arms \cup new \in SUBSET Arms(jj) /\ new \in SUBSET Arms(jj)
  BY <1>1
<1>8. /\ IsFiniteSet(arms)
      /\ HeldCost(j, arms) = SumFunctionOnSet(CostsLeft(j), arms)
      /\ HeldRequests(j, arms) = SumFunctionOnSet(AllRequestsLeft(j), arms)
      /\ HeldCost(jj, arms) = SumFunctionOnSet(CostsLeft(jj), arms)
      /\ HeldRequests(jj, arms) = SumFunctionOnSet(AllRequestsLeft(jj), arms)
      /\ HeldCost(jj, arms \cup new) = SumFunctionOnSet(CostsLeft(jj), arms \cup new)
      /\ HeldRequests(jj, arms \cup new) = SumFunctionOnSet(AllRequestsLeft(jj), arms \cup new)
  BY <1>1, <1>7, HeldIsSum
<1>9. \A a \in Arms(jj) :
        /\ CostsLeft(jj)[a] = CostLeft(jj, a) /\ CostsLeft(jj)[a] \in Nat
        /\ AllRequestsLeft(jj)[a] = RequestsLeft(jj, a) /\ AllRequestsLeft(jj)[a] \in Nat
  BY <1>1, LeftTypes
<1>10. \A a \in arms : /\ CostsLeft(jj)[a] = CostsLeft(j)[a]
                       /\ AllRequestsLeft(jj)[a] = AllRequestsLeft(j)[a]
  BY <1>1, <1>5, <1>7, <1>9, LeftTypes
<1>11. HeldCost(jj, arms) = HeldCost(j, arms) /\ HeldRequests(jj, arms) = HeldRequests(j, arms)
  BY <1>8, <1>10, SumSame
<1>12. \A m \in DOMAIN plan : /\ CostsLeft(jj)[<<g, m>>] = cost[m]
                              /\ AllRequestsLeft(jj)[<<g, m>>] = reqs[m]
  <2> TAKE m \in DOMAIN plan
  <2>1. <<g, m>> \in Arms(jj)
    BY <1>7 DEF NewArms, Paired
  <2> QED BY <1>6, <1>9, <2>1
<1>13. /\ PlanCost(plan) = SumFunctionOnSet(cost, DOMAIN plan)
       /\ PlanRequests(plan) = SumFunctionOnSet(reqs, DOMAIN plan)
  BY DEF PlanCost, PlanRequests, SumFunction
<1> HIDE DEF cost, reqs
<1>14. /\ SumFunctionOnSet(CostsLeft(jj), new) = PlanCost(plan)
       /\ SumFunctionOnSet(AllRequestsLeft(jj), new) = PlanRequests(plan)
  <2> HIDE DEF plan
  <2>1. new = Paired(g, DOMAIN plan)
    BY DEF NewArms, plan
  <2> HIDE DEF new
  <2>2. SumFunctionOnSet(CostsLeft(jj), new) = SumFunctionOnSet(cost, DOMAIN plan)
    <3>1. /\ IsFiniteSet(DOMAIN plan) /\ \A m \in DOMAIN plan : cost[m] \in Nat
          /\ \A m \in DOMAIN plan : CostsLeft(jj)[<<g, m>>] = cost[m]
      BY <1>4, <1>12 DEF plan
    <3> QED BY <2>1, <3>1, SumOfPairs
  <2>3. SumFunctionOnSet(AllRequestsLeft(jj), new) = SumFunctionOnSet(reqs, DOMAIN plan)
    <3>1. /\ IsFiniteSet(DOMAIN plan) /\ \A m \in DOMAIN plan : reqs[m] \in Nat
          /\ \A m \in DOMAIN plan : AllRequestsLeft(jj)[<<g, m>>] = reqs[m]
      BY <1>4, <1>12 DEF plan
    <3> QED BY <2>1, <3>1, SumOfPairs
  <2> QED BY <1>13, <2>2, <2>3
<1>15. PlanCost(plan) \in Nat /\ PlanRequests(plan) \in Nat
  BY <1>4, <1>13, SumRemove
<1>16. arms \cap new = {}
  BY <1>1
<1> HIDE DEF new, plan
<1>17. /\ SumFunctionOnSet(CostsLeft(jj), arms \cup new)
            = SumFunctionOnSet(CostsLeft(jj), arms) + SumFunctionOnSet(CostsLeft(jj), new)
       /\ SumFunctionOnSet(AllRequestsLeft(jj), arms \cup new)
            = SumFunctionOnSet(AllRequestsLeft(jj), arms)
                + SumFunctionOnSet(AllRequestsLeft(jj), new)
  BY <1>1, <1>7, <1>8, <1>9, <1>16, SumUnion
<1>18. /\ HeldCost(jj, arms \cup new) = HeldCost(j, arms) + PlanCost(plan)
       /\ HeldRequests(jj, arms \cup new) = HeldRequests(j, arms) + PlanRequests(plan)
  BY <1>8, <1>11, <1>14, <1>17
<1> QED BY <1>11, <1>15, <1>18 DEF new, plan

-----------------------------------------------------------------------------
(* The limits. *)

\* What is spent within the reservations and what is held for the arms fits the
\* parent and each stage.
Within(j) ==
  /\ PriorRequests + Cardinality(Requests(j)) + HeldRequests(j, Arms(j)) <= MaxRequests
  /\ PriorTotal + NetSpend(j, Requests(j)) + HeldCost(j, Arms(j)) <= MaxCost
  /\ \A s \in Scopes :
       PriorSpend[s] + NetSpend(j, ScopeRequests(j, s)) + HeldCost(j, InScope(j, Arms(j), s))
         <= ScopeLimit[s]

\* What earlier runs spent fits the limits (__post_init__).
LEMMA LimitTypes ==
  /\ MaxRequests \in Nat /\ PriorRequests \in Nat /\ PriorRequests <= MaxRequests
  /\ MaxCost \in Nat /\ PriorTotal \in Nat /\ PriorTotal <= MaxCost
  /\ \A s \in Scopes : /\ PriorSpend[s] \in Nat /\ ScopeLimit[s] \in Nat
                       /\ PriorSpend[s] <= ScopeLimit[s]
<1>1. /\ MaxRequests \in Nat /\ PriorRequests \in Nat /\ PriorRequests <= MaxRequests
      /\ MaxCost \in Nat /\ IsFiniteSet(Scopes)
      /\ \A s \in Scopes : /\ PriorSpend[s] \in Nat /\ ScopeLimit[s] \in Nat
                           /\ PriorSpend[s] <= ScopeLimit[s]
  BY BudgetAssumption
<1>2. /\ PriorTotal = SumFunctionOnSet(PriorSpend, Scopes)
      /\ SumFunctionOnSet(ScopeLimit, Scopes) <= MaxCost
  BY BudgetAssumption DEF PriorTotal, SumFunction
<1>3. /\ SumFunctionOnSet(PriorSpend, Scopes) \in Nat
      /\ SumFunctionOnSet(ScopeLimit, Scopes) \in Nat
  BY <1>1, SumRemove
<1>4. SumFunctionOnSet(PriorSpend, Scopes) <= SumFunctionOnSet(ScopeLimit, Scopes)
  BY <1>1, SumLess
<1>5. PriorTotal \in Nat /\ PriorTotal <= MaxCost
  BY <1>1, <1>2, <1>3, <1>4
<1> QED BY <1>1, <1>5

\* The requests and the arms that a limit is about.
LEMMA LimitSets ==
  ASSUME NEW j, Sound(j)
  PROVE  /\ Arms(j) \in SUBSET Arms(j) /\ Requests(j) \in SUBSET Requests(j)
         /\ \A a \in Arms(j) : ArmRequests(j, a) \subseteq Requests(j)
         /\ \A s \in Scopes :
              /\ ScopeRequests(j, s) \in SUBSET Requests(j)
              /\ InScope(j, Arms(j), s) \in SUBSET Arms(j)
              /\ \A a \in InScope(j, Arms(j), s) : ArmRequests(j, a) \subseteq ScopeRequests(j, s)
BY ArmsOfScope DEF ScopeRequests, InScope

\* More responses leave the limits kept.
LEMMA LaterWithin ==
  ASSUME NEW i, NEW j, Sound(i), j \in Journals, Later(i, j), Within(i)
  PROVE  Sound(j) /\ Within(j)
<1>1. /\ Sound(j) /\ Requests(j) = Requests(i) /\ Arms(j) = Arms(i)
      /\ \A s : ScopeRequests(j, s) = ScopeRequests(i, s)
      /\ \A arms, s : InScope(j, arms, s) = InScope(i, arms, s)
      /\ \A a : ArmRequests(j, a) = ArmRequests(i, a) /\ Ceiling(j, a) = Ceiling(i, a)
  BY LaterSame
<1>2. \A arms : HeldRequests(j, arms) = HeldRequests(i, arms)
  BY <1>1 DEF HeldRequests, RequestsLeft
<1>3. Finite(i) /\ Finite(j)
  BY <1>1 DEF Sound
<1>4. ASSUME NEW ks \in SUBSET Requests(i), NEW arms \in SUBSET Arms(i),
             \A a \in arms : ArmRequests(i, a) \subseteq ks
      PROVE  /\ NetSpend(i, ks) \in Nat /\ NetSpend(j, ks) \in Nat
             /\ HeldCost(i, arms) \in Nat /\ HeldCost(j, arms) \in Nat
             /\ NetSpend(j, ks) + HeldCost(j, arms) <= NetSpend(i, ks) + HeldCost(i, arms)
  <2>1. /\ NetSpend(i, ks) \in Nat /\ NetSpend(j, ks) \in Nat
        /\ HeldCost(i, arms) \in Nat /\ HeldCost(j, arms) \in Nat
    BY <1>1, <1>3, SpendIsSum, HeldIsSum
  <2> QED BY <1>4, <2>1, LaterFits
<1>5. PriorRequests + Cardinality(Requests(j)) + HeldRequests(j, Arms(j)) <= MaxRequests
  BY <1>1, <1>2 DEF Within
<1>6. PriorTotal + NetSpend(j, Requests(j)) + HeldCost(j, Arms(j)) <= MaxCost
  <2> DEFINE ks == Requests(i)
             arms == Arms(i)
  <2>1. /\ NetSpend(i, ks) \in Nat /\ NetSpend(j, ks) \in Nat
        /\ HeldCost(i, arms) \in Nat /\ HeldCost(j, arms) \in Nat
        /\ NetSpend(j, ks) + HeldCost(j, arms) <= NetSpend(i, ks) + HeldCost(i, arms)
    BY <1>4, LimitSets
  <2>2. PriorTotal + NetSpend(i, ks) + HeldCost(i, arms) <= MaxCost
    BY DEF Within
  <2> QED BY <1>1, <2>1, <2>2, LimitTypes
<1>7. ASSUME NEW s \in Scopes
      PROVE  PriorSpend[s] + NetSpend(j, ScopeRequests(j, s))
               + HeldCost(j, InScope(j, Arms(j), s)) <= ScopeLimit[s]
  <2> DEFINE ks == ScopeRequests(i, s)
             arms == InScope(i, Arms(i), s)
  <2>1. /\ NetSpend(i, ks) \in Nat /\ NetSpend(j, ks) \in Nat
        /\ HeldCost(i, arms) \in Nat /\ HeldCost(j, arms) \in Nat
        /\ NetSpend(j, ks) + HeldCost(j, arms) <= NetSpend(i, ks) + HeldCost(i, arms)
    BY <1>4, LimitSets
  <2>2. PriorSpend[s] + NetSpend(i, ks) + HeldCost(i, arms) <= ScopeLimit[s]
    BY DEF Within
  <2>3. ScopeRequests(j, s) = ks /\ InScope(j, Arms(j), s) = arms
    BY <1>1
  <2> HIDE DEF ks, arms
  <2> QED BY <2>1, <2>2, <2>3, LimitTypes
<1> QED BY <1>1, <1>5, <1>6, <1>7 DEF Within

\* What fitted beside everything charged then fits beside the net charges now.
LEMMA LaterBound ==
  ASSUME NEW i, NEW j, Sound(i), j \in Journals, Later(i, j),
         NEW ks \in SUBSET Requests(i), NEW arms \in SUBSET Arms(i),
         \A a \in arms : ArmRequests(i, a) \subseteq ks,
         NEW prior \in Nat, NEW cost \in Nat, NEW limit \in Nat,
         prior + Spend(i, ks) + HeldCost(i, arms) + cost <= limit
  PROVE  /\ NetSpend(j, ks) \in Nat /\ HeldCost(j, arms) \in Nat
         /\ prior + NetSpend(j, ks) + HeldCost(j, arms) + cost <= limit
<1>1. Sound(j) /\ Requests(j) = Requests(i) /\ Arms(j) = Arms(i) /\ Finite(i) /\ Finite(j)
  BY LaterSame DEF Sound
<1>2. /\ Spend(i, ks) = NetSpend(i, ks) + OverSpend(i, ks)
      /\ NetSpend(i, ks) \in Nat /\ OverSpend(i, ks) \in Nat /\ NetSpend(j, ks) \in Nat
      /\ HeldCost(i, arms) \in Nat /\ HeldCost(j, arms) \in Nat
  BY <1>1, SpendIsSum, HeldIsSum
<1>3. NetSpend(j, ks) + HeldCost(j, arms) <= NetSpend(i, ks) + HeldCost(i, arms)
  BY LaterFits
<1> QED BY <1>2, <1>3

\* A reservation that the budget allowed, on what was read, is within the limits.
LEMMA ReservedWithin ==
  ASSUME NEW i, i \in Journals, NEW j, Sound(j), Later(i, j), Within(j),
         NEW jj, NEW key \in Keys, NEW charge \in Reservations,
         j.reserved[key] = None, j.settled[key] = None,
         jj = [j EXCEPT !.reserved = [@ EXCEPT ![key] = charge]],
         ArmAllows(i, charge), BudgetAllows(i, charge)
  PROVE  Sound(jj) /\ Within(jj)
<1> DEFINE a == Arm(charge)
           others == Arms(j) \ {a}
<1>1. i.reserved = j.reserved /\ i.groups = j.groups
  BY DEF Later
<1>2. /\ Requests(i) = Requests(j) /\ Arms(i) = Arms(j)
      /\ \A s : ScopeRequests(i, s) = ScopeRequests(j, s)
      /\ \A arms, s : InScope(i, arms, s) = InScope(j, arms, s)
      /\ \A b : ArmRequests(i, b) = ArmRequests(j, b) /\ Ceiling(i, b) = Ceiling(j, b)
  BY <1>1 DEF Requests, Arms, ScopeRequests, InScope, ScopeOf, ArmRequests, Ceiling
<1>3. Sound(i)
  BY <1>1, <1>2 DEF Sound, Finite
<1>4. \A arms : HeldRequests(i, arms) = HeldRequests(j, arms)
  BY <1>2 DEF HeldRequests, RequestsLeft
<1>5. Reserved(j, jj, key, charge)
  BY <1>2 DEF Reserved, ArmAllows
<1>6. /\ Sound(jj) /\ Arms(jj) = Arms(j)
      /\ \A arms, s : InScope(jj, arms, s) = InScope(j, arms, s)
      /\ \A s : ScopeRequests(jj, s) = ScopeRequests(j, s)
                  \cup (IF charge.scope = s THEN {key} ELSE {})
  BY <1>5, ReservedSound
<1>7. Requests(jj) = Requests(j) \cup {key} /\ charge.cost \in Nat /\ charge.scope \in Scopes
  BY <1>5, ReservedFields
<1>8. j \in Journals
  BY DEF Sound, Finite
<1>9. /\ ParentFits(i, others, 1, charge.cost)
      /\ StageFits(i, others, charge.scope, charge.cost)
  BY <1>2 DEF BudgetAllows
<1>10. PriorRequests + Cardinality(Requests(jj)) + HeldRequests(jj, Arms(jj)) <= MaxRequests
  <2>1. PriorRequests + Cardinality(Requests(j)) + HeldRequests(j, others) + 1 <= MaxRequests
    BY <1>2, <1>4, <1>9 DEF ParentFits
  <2>2. PriorRequests + Cardinality(Requests(j)) + HeldRequests(j, Arms(j)) <= MaxRequests
    BY DEF Within
  <2>3. PriorRequests + Cardinality(Requests(j) \cup {key}) + HeldRequests(jj, Arms(j))
          <= MaxRequests
    <3>1. /\ Cardinality(Requests(j)) \in Nat /\ Cardinality(Requests(j) \cup {key}) \in Nat
          /\ HeldRequests(j, Arms(j)) \in Nat /\ HeldRequests(jj, Arms(j)) \in Nat
          /\ HeldRequests(j, others) \in Nat
          /\ \/ Cardinality(Requests(j) \cup {key}) + HeldRequests(jj, Arms(j))
                  <= Cardinality(Requests(j)) + HeldRequests(j, Arms(j))
             \/ Cardinality(Requests(j) \cup {key}) + HeldRequests(jj, Arms(j))
                  <= Cardinality(Requests(j)) + HeldRequests(j, others) + 1
      BY <1>5, ReservedFits
    <3> HIDE DEF others
    <3> QED BY <2>1, <2>2, <3>1, LimitTypes
  <2> QED BY <1>6, <1>7, <2>3
<1>11. PriorTotal + NetSpend(jj, Requests(jj)) + HeldCost(jj, Arms(jj)) <= MaxCost
  <2>1. PriorTotal + Spend(i, Requests(j)) + HeldCost(i, others) + charge.cost <= MaxCost
    BY <1>2, <1>9 DEF ParentFits
  <2>2. PriorTotal + NetSpend(j, Requests(j)) + HeldCost(j, others) + charge.cost <= MaxCost
    <3>1. /\ Requests(j) \in SUBSET Requests(i) /\ others \in SUBSET Arms(i)
          /\ \A b \in others : ArmRequests(i, b) \subseteq Requests(j)
      BY <1>2 DEF ArmRequests
    <3> HIDE DEF others
    <3> QED BY <1>3, <1>7, <1>8, <2>1, <3>1, LaterBound, LimitTypes
  <2>3. PriorTotal + NetSpend(j, Requests(j)) + HeldCost(j, Arms(j)) <= MaxCost
    BY DEF Within
  <2>4. PriorTotal + NetSpend(jj, Requests(j) \cup {key}) + HeldCost(jj, Arms(j)) <= MaxCost
    <3>1. /\ NetSpend(j, Requests(j)) \in Nat /\ NetSpend(jj, Requests(j) \cup {key}) \in Nat
          /\ HeldCost(j, Arms(j)) \in Nat /\ HeldCost(jj, Arms(j)) \in Nat
          /\ HeldCost(j, others) \in Nat
          /\ \/ NetSpend(jj, Requests(j) \cup {key}) + HeldCost(jj, Arms(j))
                  <= NetSpend(j, Requests(j)) + HeldCost(j, Arms(j))
             \/ NetSpend(jj, Requests(j) \cup {key}) + HeldCost(jj, Arms(j))
                  <= NetSpend(j, Requests(j)) + HeldCost(j, others) + charge.cost
      BY <1>5, ReservedFits
    <3> HIDE DEF others
    <3> QED BY <1>7, <2>2, <2>3, <3>1, LimitTypes
  <2> QED BY <1>6, <1>7, <2>4
<1>12. ASSUME NEW s \in Scopes
       PROVE  PriorSpend[s] + NetSpend(jj, ScopeRequests(jj, s))
                + HeldCost(jj, InScope(jj, Arms(jj), s)) <= ScopeLimit[s]
  <2> DEFINE ks == ScopeRequests(j, s)
             arms == InScope(j, Arms(j), s)
  <2>0. /\ ks \in SUBSET Requests(j) /\ arms \in SUBSET Arms(j)
        /\ \A b \in arms : ArmRequests(j, b) \subseteq ks
        /\ InScope(jj, Arms(jj), s) = arms
    BY <1>6, LimitSets
  <2>1. PriorSpend[s] + NetSpend(j, ks) + HeldCost(j, arms) <= ScopeLimit[s]
    BY DEF Within
  <2>2. CASE charge.scope = s
    <3>1. InScope(j, others, s) = arms \ {a}
      BY DEF InScope
    <3>2. PriorSpend[s] + Spend(i, ks) + HeldCost(i, arms \ {a}) + charge.cost <= ScopeLimit[s]
      BY <1>2, <1>9, <2>2, <3>1 DEF StageFits
    <3>3. PriorSpend[s] + NetSpend(j, ks) + HeldCost(j, arms \ {a}) + charge.cost
            <= ScopeLimit[s]
      <4>1. /\ ks \in SUBSET Requests(i) /\ arms \ {a} \in SUBSET Arms(i)
            /\ \A b \in arms \ {a} : ArmRequests(i, b) \subseteq ks
        BY <1>2, <2>0
      <4> HIDE DEF ks, arms, a
      <4> QED BY <1>3, <1>7, <1>8, <3>2, <4>1, LaterBound, LimitTypes
    <3>4. PriorSpend[s] + NetSpend(jj, ks \cup {key}) + HeldCost(jj, arms) <= ScopeLimit[s]
      <4> HIDE DEF ks, arms
      <4>1. /\ NetSpend(j, ks) \in Nat /\ NetSpend(jj, ks \cup {key}) \in Nat
            /\ HeldCost(j, arms) \in Nat /\ HeldCost(jj, arms) \in Nat
            /\ HeldCost(j, arms \ {a}) \in Nat
            /\ \/ NetSpend(jj, ks \cup {key}) + HeldCost(jj, arms)
                    <= NetSpend(j, ks) + HeldCost(j, arms)
               \/ NetSpend(jj, ks \cup {key}) + HeldCost(jj, arms)
                    <= NetSpend(j, ks) + HeldCost(j, arms \ {a}) + charge.cost
        BY <1>5, <2>0, ReservedFits
      <4> HIDE DEF a
      <4> QED BY <1>7, <2>1, <3>3, <4>1, LimitTypes
    <3>5. ScopeRequests(jj, s) = ks \cup {key}
      BY <1>6, <2>2
    <3> QED BY <2>0, <3>4, <3>5
  <2>3. CASE charge.scope # s
    <3>1. a \notin arms
      <4> SUFFICES ASSUME a \in arms PROVE FALSE
        OBVIOUS
      <4>1. a \in Arms(j) /\ ScopeOf(j, a) = s
        BY DEF InScope
      <4>2. a[1] \in Groups
        BY <4>1, LeftTypes DEF Sound
      <4>3. charge.group # None
        BY <4>2, BudgetAssumption DEF Arm
      <4>4. a \in InScope(j, Arms(j), charge.scope)
        BY <1>2, <4>3 DEF ArmAllows
      <4> QED BY <2>3, <4>1, <4>4 DEF InScope
    <3>2. ScopeRequests(jj, s) = ks
      BY <1>6, <2>3
    <3>3. NetSpend(jj, ks) = NetSpend(j, ks) /\ HeldCost(jj, arms) = HeldCost(j, arms)
      <4> HIDE DEF ks, arms
      <4>1. /\ NetSpend(jj, ks) = NetSpend(j, ks)
            /\ NetSpend(jj, ks \cup {key}) = NetSpend(j, ks) + charge.cost
        BY <1>5, <2>0, ReservedSpend
      <4>2. HeldCost(jj, arms) = HeldCost(j, arms)
        BY <1>5, <2>0, <3>1, ReservedHeld
      <4> QED BY <4>1, <4>2
    <3> QED BY <2>0, <2>1, <3>2, <3>3
  <2> QED BY <2>2, <2>3
<1> QED BY <1>6, <1>10, <1>11, <1>12 DEF Within

\* A group that fitted what was read is within the limits.
LEMMA GroupedWithin ==
  ASSUME NEW i, i \in Journals, NEW j, Sound(j), Later(i, j), Within(j),
         NEW jj, NEW g \in Groups, NEW admission \in Admissions, j.groups[g] = None,
         jj = [j EXCEPT !.groups = [@ EXCEPT ![g] = admission]],
         GroupFits(i, admission)
  PROVE  Sound(jj) /\ Within(jj)
<1> DEFINE new == NewArms(g, admission)
           plan == admission.plan
<1>1. i.reserved = j.reserved /\ i.groups = j.groups
  BY DEF Later
<1>2. /\ Requests(i) = Requests(j) /\ Arms(i) = Arms(j)
      /\ \A s : ScopeRequests(i, s) = ScopeRequests(j, s)
      /\ \A arms, s : InScope(i, arms, s) = InScope(j, arms, s)
      /\ \A b : ArmRequests(i, b) = ArmRequests(j, b) /\ Ceiling(i, b) = Ceiling(j, b)
  BY <1>1 DEF Requests, Arms, ScopeRequests, InScope, ScopeOf, ArmRequests, Ceiling
<1>3. Sound(i)
  BY <1>1, <1>2 DEF Sound, Finite
<1>4. \A arms : HeldRequests(i, arms) = HeldRequests(j, arms)
  BY <1>2 DEF HeldRequests, RequestsLeft
<1>5. Grouped(j, jj, g, admission)
  BY DEF Grouped
<1>6. /\ Sound(jj) /\ Arms(jj) = Arms(j) \cup new
      /\ \A s : InScope(jj, Arms(jj), s) = InScope(j, Arms(j), s)
                  \cup (IF admission.scope = s THEN new ELSE {})
  BY <1>5, GroupedArms
<1>7. /\ j \in Journals /\ jj.reserved = j.reserved /\ jj.settled = j.settled
      /\ Requests(jj) = Requests(j)
      /\ \A s : ScopeRequests(jj, s) = ScopeRequests(j, s)
      /\ admission.scope \in Scopes
  BY <1>5, GroupedFields
<1>8. \A ks : NetSpend(jj, ks) = NetSpend(j, ks)
  BY <1>7 DEF NetSpend, Nets
<1>9. ASSUME NEW arms \in SUBSET Arms(j)
      PROVE  /\ PlanCost(plan) \in Nat /\ PlanRequests(plan) \in Nat
             /\ HeldCost(jj, arms) = HeldCost(j, arms)
             /\ HeldCost(jj, arms \cup new) = HeldCost(j, arms) + PlanCost(plan)
             /\ HeldRequests(jj, arms \cup new) = HeldRequests(j, arms) + PlanRequests(plan)
  BY <1>5, GroupedHeld
<1>10. /\ ParentFits(i, Arms(j), PlanRequests(plan), PlanCost(plan))
       /\ StageFits(i, Arms(j), admission.scope, PlanCost(plan))
  BY <1>2 DEF GroupFits
<1>11. PriorRequests + Cardinality(Requests(jj)) + HeldRequests(jj, Arms(jj)) <= MaxRequests
  <2>1. PriorRequests + Cardinality(Requests(j)) + HeldRequests(j, Arms(j))
          + PlanRequests(plan) <= MaxRequests
    BY <1>2, <1>4, <1>10 DEF ParentFits
  <2>2. HeldRequests(jj, Arms(jj)) = HeldRequests(j, Arms(j)) + PlanRequests(plan)
    BY <1>6, <1>9
  <2>3. Cardinality(Requests(j)) \in Nat /\ HeldRequests(j, Arms(j)) \in Nat
    BY FS_CardinalityType, HeldIsSum DEF Sound, Finite
  <2>4. PlanRequests(plan) \in Nat
    BY <1>9
  <2> QED BY <1>7, <2>1, <2>2, <2>3, <2>4, LimitTypes
<1>12. PriorTotal + NetSpend(jj, Requests(jj)) + HeldCost(jj, Arms(jj)) <= MaxCost
  <2>1. PriorTotal + Spend(i, Requests(j)) + HeldCost(i, Arms(j)) + PlanCost(plan) <= MaxCost
    BY <1>2, <1>10 DEF ParentFits
  <2>2. /\ NetSpend(j, Requests(j)) \in Nat /\ HeldCost(j, Arms(j)) \in Nat
        /\ PriorTotal + NetSpend(j, Requests(j)) + HeldCost(j, Arms(j)) + PlanCost(plan)
             <= MaxCost
    <3>1. /\ Requests(j) \in SUBSET Requests(i) /\ Arms(j) \in SUBSET Arms(i)
          /\ \A b \in Arms(j) : ArmRequests(i, b) \subseteq Requests(j)
      BY <1>2 DEF ArmRequests
    <3>2. PlanCost(plan) \in Nat
      BY <1>9
    <3> QED BY <1>3, <1>7, <2>1, <3>1, <3>2, LaterBound, LimitTypes
  <2>3. HeldCost(jj, Arms(jj)) = HeldCost(j, Arms(j)) + PlanCost(plan) /\ PlanCost(plan) \in Nat
    BY <1>6, <1>9
  <2>4. NetSpend(jj, Requests(jj)) = NetSpend(j, Requests(j))
    BY <1>7, <1>8
  <2> QED BY <2>2, <2>3, <2>4, LimitTypes
<1>13. ASSUME NEW s \in Scopes
       PROVE  PriorSpend[s] + NetSpend(jj, ScopeRequests(jj, s))
                + HeldCost(jj, InScope(jj, Arms(jj), s)) <= ScopeLimit[s]
  <2> DEFINE ks == ScopeRequests(j, s)
             arms == InScope(j, Arms(j), s)
  <2>0. /\ ks \in SUBSET Requests(j) /\ arms \in SUBSET Arms(j)
        /\ \A b \in arms : ArmRequests(j, b) \subseteq ks
        /\ ScopeRequests(jj, s) = ks /\ NetSpend(jj, ks) = NetSpend(j, ks)
    BY <1>7, <1>8, LimitSets
  <2>1. PriorSpend[s] + NetSpend(j, ks) + HeldCost(j, arms) <= ScopeLimit[s]
    BY DEF Within
  <2>2. CASE admission.scope = s
    <3>1. PriorSpend[s] + Spend(i, ks) + HeldCost(i, arms) + PlanCost(plan) <= ScopeLimit[s]
      BY <1>2, <1>10, <2>2 DEF StageFits
    <3>2. PlanCost(plan) \in Nat
      BY <1>9
    <3>3. /\ NetSpend(j, ks) \in Nat /\ HeldCost(j, arms) \in Nat
          /\ PriorSpend[s] + NetSpend(j, ks) + HeldCost(j, arms) + PlanCost(plan)
               <= ScopeLimit[s]
      <4>1. /\ ks \in SUBSET Requests(i) /\ arms \in SUBSET Arms(i)
            /\ \A b \in arms : ArmRequests(i, b) \subseteq ks
        BY <1>2, <2>0
      <4> HIDE DEF ks, arms, plan
      <4> QED BY <1>3, <1>7, <3>1, <3>2, <4>1, LaterBound, LimitTypes
    <3>4. HeldCost(jj, InScope(jj, Arms(jj), s)) = HeldCost(j, arms) + PlanCost(plan)
      <4>1. InScope(jj, Arms(jj), s) = arms \cup new
        BY <1>6, <2>2
      <4> HIDE DEF arms, new, plan
      <4> QED BY <1>9, <2>0, <4>1
    <3> HIDE DEF arms, ks, plan
    <3> QED BY <2>0, <3>2, <3>3, <3>4, LimitTypes
  <2>3. CASE admission.scope # s
    <3>1. InScope(jj, Arms(jj), s) = arms
      BY <1>6, <2>3
    <3>2. HeldCost(jj, arms) = HeldCost(j, arms)
      BY <1>9, <2>0
    <3> QED BY <2>0, <2>1, <3>1, <3>2
  <2> QED BY <2>2, <2>3
<1> QED BY <1>6, <1>11, <1>12, <1>13 DEF Within

-----------------------------------------------------------------------------
(* The limits are kept.  What a worker read is the journal, but for        *)
(* responses that came in since: what was decided by it still holds.       *)

JournalInv == Sound(journal) /\ Within(journal)

SnapInv ==
  \A w \in Workers :
    pc[w] \in {"deciding", "appending"} => Later(snap[w], journal) /\ Within(snap[w])

DecidedInv ==
  \A w \in Workers :
    pc[w] = "appending" =>
      /\ job[w].op = "reserve" =>
           ArmAllows(snap[w], job[w].charge) /\ BudgetAllows(snap[w], job[w].charge)
      /\ job[w].op # "reserve" => GroupFits(snap[w], job[w].admission)

NewGroupInv ==
  \A w \in Workers :
    pc[w] \in {"reading", "deciding", "appending"} /\ job[w].op # "reserve" =>
      journal.groups[job[w].group] = None

LimitsInv == JournalInv /\ SnapInv /\ DecidedInv /\ NewGroupInv

\* An empty journal keeps the limits.
LEMMA LimitsInit == Init => LimitsInv
<1> SUFFICES ASSUME Init PROVE LimitsInv
  OBVIOUS
<1>1. /\ journal = EmptyJournal /\ \A w \in Workers : pc[w] = "idle"
      /\ Requests(journal) = {} /\ Arms(journal) = {} /\ journal \in Journals
  BY DEF Init, EmptyJournal, Requests, Arms, Journals
<1>2. Sound(journal)
  BY <1>1, FS_EmptySet DEF Sound, Finite
<1>3. /\ \A s \in Scopes : ScopeRequests(journal, s) = {}
      /\ \A s \in Scopes : InScope(journal, {}, s) = {}
  BY <1>1 DEF ScopeRequests, InScope
<1>4. NetSpend(journal, {}) = 0 /\ HeldCost(journal, {}) = 0 /\ HeldRequests(journal, {}) = 0
  BY SumEmpty DEF NetSpend, HeldCost, HeldRequests, SumFunction
<1>5. Within(journal)
  <2>1. PriorRequests + Cardinality({}) + HeldRequests(journal, {}) <= MaxRequests
    BY <1>4, LimitTypes, FS_EmptySet
  <2>2. PriorTotal + NetSpend(journal, {}) + HeldCost(journal, {}) <= MaxCost
    BY <1>4, LimitTypes
  <2>3. \A s \in Scopes :
          PriorSpend[s] + NetSpend(journal, {}) + HeldCost(journal, {}) <= ScopeLimit[s]
    BY <1>4, LimitTypes
  <2> QED BY <1>1, <1>3, <2>1, <2>2, <2>3 DEF Within
<1> QED BY <1>1, <1>2, <1>5 DEF LimitsInv, JournalInv, SnapInv, DecidedInv, NewGroupInv

\* A step of one worker that leaves the journal alone keeps what is said of the others.
LEMMA LimitsKept ==
  ASSUME IInv, LimitsInv, NEW w \in Workers, journal' = journal,
         \A v \in Workers : v # w => pc'[v] = pc[v] /\ job'[v] = job[v] /\ snap'[v] = snap[v],
         pc'[w] \in {"deciding", "appending"} => Later(snap'[w], journal) /\ Within(snap'[w]),
         pc'[w] = "appending" =>
           /\ job'[w].op = "reserve" =>
                ArmAllows(snap'[w], job'[w].charge) /\ BudgetAllows(snap'[w], job'[w].charge)
           /\ job'[w].op # "reserve" => GroupFits(snap'[w], job'[w].admission),
         pc'[w] \in {"reading", "deciding", "appending"} /\ job'[w].op # "reserve" =>
           journal.groups[job'[w].group] = None
  PROVE  LimitsInv'
<1>1. JournalInv'
  BY DEF LimitsInv, JournalInv, Sound, Finite, Within, Journals
<1>2. SnapInv'
  BY DEF LimitsInv, SnapInv
<1>3. DecidedInv'
  BY DEF LimitsInv, DecidedInv
<1>4. NewGroupInv'
  BY DEF LimitsInv, NewGroupInv
<1> QED BY <1>1, <1>2, <1>3, <1>4 DEF LimitsInv

\* Every step keeps the limits and what they rest on.
LEMMA LimitsStep ==
  ASSUME IInv, LimitsInv, [Next]_vars
  PROVE  LimitsInv'
<1>0. TypeOK /\ ClaimInv /\ WorkersTypeOK /\ journal \in Journals
  BY DEF IInv, TypeOK
<1>1. ASSUME NEW w \in Workers, Released(w), journal' = journal
      PROVE  LimitsInv'
  <2>1. /\ \A v \in Workers : v # w => pc'[v] = pc[v] /\ job'[v] = job[v] /\ snap'[v] = snap[v]
        /\ pc'[w] = "idle"
    BY <1>0, <1>1 DEF Released, WorkersTypeOK
  <2> QED BY <1>1, <2>1, LimitsKept
<1>2. ASSUME NEW w \in Workers, CallReserve(w) \/ CallAdmitGroup(w)
      PROVE  LimitsInv'
  <2>1. PICK call : Call(w, call)
    BY <1>2 DEF CallReserve, CallAdmitGroup
  <2>2. /\ \A v \in Workers : v # w => pc'[v] = pc[v] /\ job'[v] = job[v] /\ snap'[v] = snap[v]
        /\ pc'[w] = "waiting" /\ journal' = journal
    BY <1>0, <2>1 DEF Call, WorkersTypeOK
  <2> QED BY <2>2, LimitsKept
<1>3. ASSUME NEW w \in Workers, TryClaimRun(w)
      PROVE  LimitsInv'
  <2>1. /\ \A v \in Workers : v # w => pc'[v] = pc[v] /\ job'[v] = job[v] /\ snap'[v] = snap[v]
        /\ pc'[w] = "claimed" /\ journal' = journal
    BY <1>0, <1>3 DEF TryClaimRun, WorkersTypeOK
  <2> QED BY <2>1, LimitsKept
<1>4. ASSUME NEW w \in Workers, LookUpGroup(w)
      PROVE  LimitsInv'
  <2>1. journal' = journal
    BY <1>4 DEF LookUpGroup
  <2>2. CASE Released(w)
    BY <1>1, <2>1, <2>2
  <2>3. CASE Goto(w, "reading") /\ journal.groups[job[w].group] = None
    <3>1. /\ \A v \in Workers : v # w => pc'[v] = pc[v] /\ job'[v] = job[v] /\ snap'[v] = snap[v]
          /\ pc'[w] = "reading" /\ job'[w] = job[w]
      BY <1>0, <2>3 DEF Goto, WorkersTypeOK
    <3> QED BY <2>1, <2>3, <3>1, LimitsKept
  <2> QED BY <1>4, <2>2, <2>3 DEF LookUpGroup
<1>5. ASSUME NEW w \in Workers, ReadJournal(w)
      PROVE  LimitsInv'
  <2>1. /\ \A v \in Workers : v # w => pc'[v] = pc[v] /\ job'[v] = job[v] /\ snap'[v] = snap[v]
        /\ pc'[w] = "deciding" /\ job'[w] = job[w] /\ snap'[w] = journal /\ journal' = journal
    BY <1>0, <1>5 DEF ReadJournal, WorkersTypeOK
  <2>2. Later(journal, journal) /\ Within(journal)
    BY DEF Later, LimitsInv, JournalInv
  <2>3. job[w].op # "reserve" => journal.groups[job[w].group] = None
    BY <1>5 DEF ReadJournal, LimitsInv, NewGroupInv
  <2> QED BY <2>1, <2>2, <2>3, LimitsKept
<1>6. ASSUME NEW w \in Workers, DecideReservation(w)
      PROVE  LimitsInv'
  <2>1. journal' = journal
    BY <1>6 DEF DecideReservation
  <2>2. CASE Released(w)
    BY <1>1, <2>1, <2>2
  <2>3. CASE Goto(w, "appending") /\ MayReserve(w)
    <3>1. /\ \A v \in Workers : v # w => pc'[v] = pc[v] /\ job'[v] = job[v] /\ snap'[v] = snap[v]
          /\ pc'[w] = "appending" /\ job'[w] = job[w] /\ snap'[w] = snap[w]
      BY <1>0, <2>3 DEF Goto, WorkersTypeOK
    <3>2. Later(snap[w], journal) /\ Within(snap[w]) /\ job[w].op = "reserve"
      BY <1>6 DEF DecideReservation, LimitsInv, SnapInv
    <3>3. ArmAllows(snap[w], job[w].charge) /\ BudgetAllows(snap[w], job[w].charge)
      BY <2>3 DEF MayReserve
    <3> QED BY <2>1, <3>1, <3>2, <3>3, LimitsKept
  <2> QED BY <1>6, <2>2, <2>3 DEF DecideReservation
<1>7. ASSUME NEW w \in Workers, DecideAdmission(w)
      PROVE  LimitsInv'
  <2>1. journal' = journal
    BY <1>7 DEF DecideAdmission
  <2>2. CASE Released(w)
    BY <1>1, <2>1, <2>2
  <2>3. CASE Goto(w, "appending") /\ GroupFits(snap[w], job[w].admission)
    <3>1. /\ \A v \in Workers : v # w => pc'[v] = pc[v] /\ job'[v] = job[v] /\ snap'[v] = snap[v]
          /\ pc'[w] = "appending" /\ job'[w] = job[w] /\ snap'[w] = snap[w]
      BY <1>0, <2>3 DEF Goto, WorkersTypeOK
    <3>2. Later(snap[w], journal) /\ Within(snap[w]) /\ job[w].op # "reserve"
      BY <1>7 DEF DecideAdmission, LimitsInv, SnapInv
    <3>3. journal.groups[job[w].group] = None
      BY <1>7, <3>2 DEF DecideAdmission, LimitsInv, NewGroupInv
    <3> QED BY <2>1, <2>3, <3>1, <3>2, <3>3, LimitsKept
  <2> QED BY <1>7, <2>2, <2>3 DEF DecideAdmission
<1>8. ASSUME NEW w \in Workers, pc[w] \in HeldPCs,
             \A v \in Workers : v # w => pc'[v] = pc[v],
             pc'[w] \in {"appended", "idle"}, Sound(journal'), Within(journal')
      PROVE  LimitsInv'
  <2>1. \A v \in Workers : pc'[v] \notin {"reading", "deciding", "appending"}
    BY <1>0, <1>8 DEF ClaimInv, HeldPCs
  <2>2. JournalInv'
    BY <1>8 DEF JournalInv, Sound, Finite, Within, Journals
  <2> QED BY <2>1, <2>2 DEF LimitsInv, SnapInv, DecidedInv, NewGroupInv
<1>9. ASSUME NEW w \in Workers, AppendReservation(w)
      PROVE  LimitsInv'
  <2> DEFINE key == job[w].key
             charge == job[w].charge
  <2>1. key \in Keys /\ charge \in Reservations /\ snap[w] \in Journals
    BY <1>0, <1>9, JobTypes DEF AppendReservation, WorkersTypeOK
  <2>2. journal.reserved[key] = None /\ journal.settled[key] = None
    BY <1>9, <2>1 DEF AppendReservation, IInv, AppendInv, EntryInv
  <2>3. journal' = [journal EXCEPT !.reserved = [@ EXCEPT ![key] = charge]]
    BY <1>0, <1>9, <2>1, <2>2 DEF AppendReservation, Appended, Journals
  <2>4. /\ Later(snap[w], journal) /\ ArmAllows(snap[w], charge)
        /\ BudgetAllows(snap[w], charge) /\ Sound(journal) /\ Within(journal)
    BY <1>9 DEF AppendReservation, LimitsInv, SnapInv, DecidedInv, JournalInv
  <2>5. Sound(journal') /\ Within(journal')
    <3> HIDE DEF key, charge
    <3> QED BY <2>1, <2>2, <2>3, <2>4, ReservedWithin
  <2>6. /\ pc'[w] \in {"appended", "idle"} /\ pc[w] \in HeldPCs
        /\ \A v \in Workers : v # w => pc'[v] = pc[v]
    BY <1>0, <1>9 DEF AppendReservation, Goto, Released, WorkersTypeOK, HeldPCs
  <2> QED BY <1>8, <2>5, <2>6
<1>10. ASSUME NEW w \in Workers, AppendGroup(w)
       PROVE  LimitsInv'
  <2> DEFINE g == job[w].group
             admission == job[w].admission
  <2>1. g \in Groups /\ admission \in Admissions /\ snap[w] \in Journals
    BY <1>0, <1>10, JobTypes DEF AppendGroup, WorkersTypeOK
  <2>2. journal.groups[g] = None
    BY <1>10 DEF AppendGroup, LimitsInv, NewGroupInv
  <2>3. journal' = [journal EXCEPT !.groups = [@ EXCEPT ![g] = admission]]
    BY <1>0, <1>10, <2>1, <2>2 DEF AppendGroup, Appended, Journals
  <2>4. /\ Later(snap[w], journal) /\ GroupFits(snap[w], admission)
        /\ Sound(journal) /\ Within(journal)
    BY <1>10 DEF AppendGroup, LimitsInv, SnapInv, DecidedInv, JournalInv
  <2>5. Sound(journal') /\ Within(journal')
    <3> HIDE DEF g, admission
    <3> QED BY <2>1, <2>2, <2>3, <2>4, GroupedWithin
  <2>6. /\ pc'[w] \in {"appended", "idle"} /\ pc[w] \in HeldPCs
        /\ \A v \in Workers : v # w => pc'[v] = pc[v]
    BY <1>0, <1>10 DEF AppendGroup, Released, WorkersTypeOK, HeldPCs
  <2> QED BY <1>8, <2>5, <2>6
<1>11. ASSUME NEW w \in Workers, ReturnPermit(w) \/ Stop(w)
       PROVE  LimitsInv'
  BY <1>1, <1>11 DEF ReturnPermit, Stop
<1>12. ASSUME NEW k \in Keys, Settle(k)
       PROVE  LimitsInv'
  <2>1. PICK c \in Costs : journal' = [journal EXCEPT !.settled = Appended(@, k, c)]
    BY <1>12 DEF Settle
  <2>2. journal' \in Journals
    BY <1>0, <2>1, JournalTypes, BudgetAssumption
  <2>3. Later(journal, journal')
    BY <1>0, <2>1 DEF Later, Appended, Journals
  <2>4. Sound(journal) /\ Within(journal)
    BY DEF LimitsInv, JournalInv
  <2>5. Sound(journal') /\ Within(journal')
    BY <2>2, <2>3, <2>4, LaterWithin
  <2>6. pc' = pc /\ job' = job /\ snap' = snap
    BY <1>12 DEF Settle
  <2>7. JournalInv'
    BY <2>5 DEF JournalInv, Sound, Finite, Within, Journals
  <2>8. ASSUME NEW v \in Workers, Later(snap[v], journal)
        PROVE  Later(snap[v], journal')
    BY <2>3, <2>8 DEF Later
  <2>9. SnapInv'
    <3> SUFFICES ASSUME NEW v \in Workers, pc[v] \in {"deciding", "appending"}
                 PROVE  Later(snap[v], journal') /\ Within(snap[v])
      BY <2>6 DEF SnapInv
    <3> QED BY <2>8 DEF LimitsInv, SnapInv
  <2>10. DecidedInv'
    BY <2>6 DEF LimitsInv, DecidedInv
  <2>11. NewGroupInv'
    BY <2>3, <2>6 DEF LimitsInv, NewGroupInv, Later
  <2> QED BY <2>7, <2>9, <2>10, <2>11 DEF LimitsInv
<1>13. CASE UNCHANGED vars
  <2>1. journal' = journal /\ pc' = pc /\ job' = job /\ snap' = snap
    BY <1>13 DEF vars
  <2>2. JournalInv'
    BY <2>1 DEF LimitsInv, JournalInv, Sound, Finite, Within, Journals
  <2> QED BY <2>1, <2>2 DEF LimitsInv, SnapInv, DecidedInv, NewGroupInv
<1> QED
  BY <1>2, <1>3, <1>4, <1>5, <1>6, <1>7, <1>9, <1>10, <1>11, <1>12, <1>13 DEF Next

\* The limits are kept in every reachable state.
LEMMA LimitsCorrect == Spec => [](IInv /\ LimitsInv)
<1>1. IInv /\ LimitsInv /\ [Next]_vars => LimitsInv'
  BY LimitsStep
<1> HIDE DEF IInv, LimitsInv, Init, Next
<1> QED BY <1>1, LimitsInit, InvCorrect, PTL DEF Spec

-----------------------------------------------------------------------------
\* The overrun of the property is the sum of the overruns of the charges.
LEMMA OverrunIsSum ==
  ASSUME Sound(journal), NEW ks \in SUBSET Requests(journal)
  PROVE  Overrun(ks) = OverSpend(journal, ks)
<1> DEFINE f == [k \in ks |-> IF journal.settled[k] = None THEN 0
                              ELSE Monus(journal.settled[k], journal.reserved[k].cost)]
<1>1. Overrun(ks) = SumFunctionOnSet(f, ks)
  BY DEF Overrun, SumFunction
<1>2. \A k \in ks : f[k] = Overs(journal)[k]
  BY DEF Overs, Requests
<1>3. IsFiniteSet(ks)
  BY SpendIsSum DEF Sound
<1> HIDE DEF f
<1> QED BY <1>1, <1>2, <1>3, SumSame DEF OverSpend

(***************************************************************************)
(* The limits of the parent and of each stage hold: what is spent, reserved*)
(* and held for the arms of admitted groups fits, but for what responses   *)
(* cost beyond their own reservations (reserve, settle, admit_group).      *)
(***************************************************************************)
THEOREM BudgetSafety == Spec => []WithinBudget
<1>1. ASSUME LimitsInv
      PROVE  WithinBudget
  <2>0. Sound(journal) /\ Within(journal) /\ Finite(journal)
    BY <1>1 DEF LimitsInv, JournalInv, Sound
  <2>1. ASSUME NEW ks \in SUBSET Requests(journal)
        PROVE  /\ Spend(journal, ks) = NetSpend(journal, ks) + Overrun(ks)
               /\ NetSpend(journal, ks) \in Nat /\ Overrun(ks) \in Nat
    BY <2>0, OverrunIsSum, SpendIsSum
  <2>2. /\ HeldCost(journal, Arms(journal)) \in Nat
        /\ \A s \in Scopes : HeldCost(journal, InScope(journal, Arms(journal), s)) \in Nat
    BY <2>0, HeldIsSum, LimitSets
  <2>3. PriorRequests + Cardinality(Requests(journal)) + HeldRequests(journal, Arms(journal))
          <= MaxRequests
    BY <2>0 DEF Within
  <2>4. PriorTotal + Spend(journal, Requests(journal)) + HeldCost(journal, Arms(journal))
          <= MaxCost + Overrun(Requests(journal))
    <3>1. /\ Spend(journal, Requests(journal))
               = NetSpend(journal, Requests(journal)) + Overrun(Requests(journal))
          /\ NetSpend(journal, Requests(journal)) \in Nat /\ Overrun(Requests(journal)) \in Nat
      BY <2>1
    <3>2. PriorTotal + NetSpend(journal, Requests(journal)) + HeldCost(journal, Arms(journal))
            <= MaxCost
      BY <2>0 DEF Within
    <3> QED BY <2>2, <3>1, <3>2, LimitTypes
  <2>5. ASSUME NEW s \in Scopes
        PROVE  PriorSpend[s] + Spend(journal, ScopeRequests(journal, s))
                 + HeldCost(journal, InScope(journal, Arms(journal), s))
                 <= ScopeLimit[s] + Overrun(ScopeRequests(journal, s))
    <3> DEFINE ks == ScopeRequests(journal, s)
               held == HeldCost(journal, InScope(journal, Arms(journal), s))
    <3>1. /\ Spend(journal, ks) = NetSpend(journal, ks) + Overrun(ks)
          /\ NetSpend(journal, ks) \in Nat /\ Overrun(ks) \in Nat
      BY <2>0, <2>1, LimitSets
    <3>2. PriorSpend[s] + NetSpend(journal, ks) + held <= ScopeLimit[s] /\ held \in Nat
      BY <2>0, <2>2 DEF Within
    <3> HIDE DEF ks, held
    <3>3. PriorSpend[s] + Spend(journal, ks) + held <= ScopeLimit[s] + Overrun(ks)
      BY <3>1, <3>2, LimitTypes
    <3> QED BY <3>3 DEF ks, held
  <2> QED BY <2>3, <2>4, <2>5 DEF WithinBudget
<1> QED BY <1>1, LimitsCorrect, PTL

\* Part of a sum of naturals that is zero is zero.
LEMMA SumZero ==
  ASSUME NEW S, IsFiniteSet(S), NEW f, \A x \in S : f[x] \in Nat,
         SumFunctionOnSet(f, S) = 0
  PROVE  \A x \in S : f[x] = 0
<1> SUFFICES ASSUME NEW x \in S PROVE f[x] = 0
  OBVIOUS
<1>1. SumFunctionOnSet(f, S) = f[x] + SumFunctionOnSet(f, S \ {x})
  BY SumRemove
<1>2. IsFiniteSet(S \ {x})
  BY FS_RemoveElement
<1>3. SumFunctionOnSet(f, S \ {x}) \in Nat
  BY <1>2, SumRemove
<1> QED BY <1>1, <1>3

\* Without overruns now, none were known when the journal was read.
LEMMA NoOverrun ==
  ASSUME NEW i, NEW j, Sound(i), j \in Journals, Later(i, j),
         OverSpend(j, Requests(j)) = 0, NEW ks \in SUBSET Requests(i)
  PROVE  Spend(i, ks) = NetSpend(i, ks) /\ NetSpend(i, ks) \in Nat
<1>1. Requests(j) = Requests(i) /\ Finite(i) /\ Finite(j)
  BY LaterSame DEF Sound
<1>2. \A k \in Requests(i) :
        Overs(i)[k] \in Nat /\ Overs(j)[k] \in Nat /\ Overs(i)[k] <= Overs(j)[k]
  BY LaterCharges
<1>3. \A k \in Requests(i) : Overs(j)[k] = 0
  BY <1>1, <1>2, SumZero DEF Finite, OverSpend
<1>4. \A k \in Requests(i) : Overs(i)[k] = 0
  BY <1>2, <1>3
<1>5. /\ IsFiniteSet(ks) /\ Spend(i, ks) = SumFunctionOnSet(Charges(i), ks)
      /\ NetSpend(i, ks) \in Nat
  BY <1>1, SpendIsSum
<1>6. \A k \in ks : Charges(i)[k] = Nets(i)[k]
  BY <1>1, <1>4, ChargeTypes DEF Finite
<1> QED BY <1>5, <1>6, SumSame DEF NetSpend

(***************************************************************************)
(* A request within its arm's own allowance is not refused because of the  *)
(* parent's or the stage's limit while no response costs more than its     *)
(* reservation (reserve, "complete group member").                         *)
(***************************************************************************)
THEOREM FundedArms == Spec => []FundedArmsAreServed
<1>1. ASSUME IInv, LimitsInv
      PROVE  FundedArmsAreServed
  <2> SUFFICES ASSUME NEW w \in Workers,
                      pc[w] = "deciding", job[w].op = "reserve", job[w].charge.group # None,
                      ArmAllows(snap[w], job[w].charge), Overrun(Requests(journal)) = 0
               PROVE  BudgetAllows(snap[w], job[w].charge)
    BY DEF FundedArmsAreServed
  <2> DEFINE i == snap[w]
             charge == job[w].charge
             a == Arm(charge)
             others == Arms(i) \ {a}
  <2>1. /\ i \in Journals /\ journal \in Journals
        /\ Sound(journal) /\ Later(i, journal) /\ Within(i)
        /\ charge \in Reservations
    BY <1>1, JobTypes DEF IInv, TypeOK, WorkersTypeOK, LimitsInv, JournalInv, SnapInv
  <2>2. charge.cost \in Nat /\ charge.scope \in Scopes
    BY <2>1 DEF Reservations
  <2>3. /\ a \in Arms(i) /\ ScopeOf(i, a) = charge.scope
        /\ RequestsLeft(i, a) >= 1 /\ CostLeft(i, a) >= charge.cost
    BY DEF ArmAllows, InScope
  <2>4. Sound(i)
    <3>1. i.reserved = journal.reserved /\ i.groups = journal.groups
      BY <2>1 DEF Later
    <3>2. Requests(i) = Requests(journal) /\ Arms(i) = Arms(journal)
      BY <3>1 DEF Requests, Arms
    <3>3. \A arms, s : InScope(i, arms, s) = InScope(journal, arms, s)
      BY <3>1 DEF InScope, ScopeOf
    <3> HIDE DEF i
    <3> QED BY <2>1, <3>1, <3>2, <3>3 DEF Sound, Finite
  <2> HIDE DEF i, charge
  <2>5. OverSpend(journal, Requests(journal)) = 0
    BY <2>1, OverrunIsSum
  <2>6. ASSUME NEW ks \in SUBSET Requests(i), NEW arms \in SUBSET Arms(i), a \in arms
        PROVE  /\ Spend(i, ks) = NetSpend(i, ks) /\ NetSpend(i, ks) \in Nat
               /\ HeldCost(i, arms) = CostLeft(i, a) + HeldCost(i, arms \ {a})
               /\ HeldRequests(i, arms) = RequestsLeft(i, a) + HeldRequests(i, arms \ {a})
               /\ HeldCost(i, arms \ {a}) \in Nat /\ HeldRequests(i, arms \ {a}) \in Nat
               /\ CostLeft(i, a) \in Nat /\ RequestsLeft(i, a) \in Nat
               /\ Cardinality(ks) \in Nat
    <3>1. Finite(i) /\ arms \ {a} \in SUBSET Arms(i)
      BY <2>4 DEF Sound
    <3>2. Spend(i, ks) = NetSpend(i, ks) /\ NetSpend(i, ks) \in Nat
      BY <2>1, <2>4, <2>5, NoOverrun
    <3>3. Cardinality(ks) \in Nat
      BY <3>1, SpendIsSum, FS_CardinalityType
    <3> HIDE DEF a
    <3> QED BY <2>3, <2>6, <3>1, <3>2, <3>3, HeldSplit, HeldIsSum, LeftTypes
  <2>7. ParentFits(i, others, 1, charge.cost)
    <3>1. /\ Spend(i, Requests(i)) = NetSpend(i, Requests(i)) /\ NetSpend(i, Requests(i)) \in Nat
          /\ HeldCost(i, Arms(i)) = CostLeft(i, a) + HeldCost(i, others)
          /\ HeldRequests(i, Arms(i)) = RequestsLeft(i, a) + HeldRequests(i, others)
          /\ HeldCost(i, others) \in Nat /\ HeldRequests(i, others) \in Nat
          /\ CostLeft(i, a) \in Nat /\ RequestsLeft(i, a) \in Nat
          /\ Cardinality(Requests(i)) \in Nat
      BY <2>3, <2>6
    <3>2. /\ PriorRequests + Cardinality(Requests(i)) + HeldRequests(i, Arms(i)) <= MaxRequests
          /\ PriorTotal + NetSpend(i, Requests(i)) + HeldCost(i, Arms(i)) <= MaxCost
      BY <2>1 DEF Within
    <3> HIDE DEF others, a
    <3>3. PriorRequests + Cardinality(Requests(i)) + HeldRequests(i, others) + 1 <= MaxRequests
      BY <2>3, <3>1, <3>2, LimitTypes
    <3>4. PriorTotal + Spend(i, Requests(i)) + HeldCost(i, others) + charge.cost <= MaxCost
      BY <2>2, <2>3, <3>1, <3>2, LimitTypes
    <3> QED BY <3>3, <3>4 DEF ParentFits
  <2>8. StageFits(i, others, charge.scope, charge.cost)
    <3> DEFINE s == charge.scope
               ks == ScopeRequests(i, s)
               arms == InScope(i, Arms(i), s)
    <3>0. ks \in SUBSET Requests(i) /\ arms \in SUBSET Arms(i) /\ a \in arms
      BY <2>2, <2>3, <2>4, LimitSets DEF InScope
    <3>1. InScope(i, others, s) = arms \ {a}
      BY DEF InScope
    <3>2. PriorSpend[s] + NetSpend(i, ks) + HeldCost(i, arms) <= ScopeLimit[s]
      BY <2>1, <2>2 DEF Within
    <3>3. PriorSpend[s] \in Nat /\ ScopeLimit[s] \in Nat
      BY <2>2, LimitTypes
    <3> HIDE DEF ks, arms
    <3>4. /\ Spend(i, ks) = NetSpend(i, ks) /\ NetSpend(i, ks) \in Nat
          /\ HeldCost(i, arms) = CostLeft(i, a) + HeldCost(i, arms \ {a})
          /\ HeldCost(i, arms \ {a}) \in Nat /\ CostLeft(i, a) \in Nat
      BY <2>6, <3>0
    <3> HIDE DEF a, others, s
    <3>5. PriorSpend[s] + Spend(i, ks) + HeldCost(i, arms \ {a}) + charge.cost <= ScopeLimit[s]
      BY <2>2, <2>3, <3>2, <3>3, <3>4
    <3>6. StageFits(i, others, s, charge.cost)
      BY <3>1, <3>5 DEF StageFits, ks
    <3> QED BY <3>6 DEF s
  <2> QED BY <2>7, <2>8 DEF BudgetAllows, i, charge
<1> QED BY <1>1, LimitsCorrect, PTL
=============================================================================
