------------------------ MODULE ContestPlaces_proof ------------------------
(***************************************************************************)
(* Proofs about ContestPlaces, for every number of users and of requests   *)
(* in flight, every capacity and every bound.                              *)
(***************************************************************************)
EXTENDS ContestPlaces, FiniteSetTheorems, TLAPS

-----------------------------------------------------------------------------
(* Types *)

LEMMA IdleType == Idle \in Request
  BY DEF Idle, Request, Steps

LEMMA TypeInit == Init => TypeOK
<1> SUFFICES ASSUME Init PROVE TypeOK
  OBVIOUS
<1>1. contest \in Contest
  BY CapacitiesAssumption, TimesAssumption DEF Init, Contest
<1>2. entry \in [Users -> Entry]
  BY DEF Init, Entry, NoEntry
<1>3. /\ req \in [Calls -> Request]
      /\ \A k \in Calls : req[k].step \in EntrantSteps => req[k].user \in Users
  BY IdleType DEF Init, Idle, EntrantSteps
<1>4. QED
  BY <1>1, <1>2, <1>3, CapacitiesAssumption DEF Init, TypeOK

\* The requests stay well typed when call k takes a well-typed request.
LEMMA RequestsTyped ==
  ASSUME TypeOK, NEW k \in Calls, NEW r \in Request,
         r.step \in EntrantSteps => r.user \in Users,
         req' = [req EXCEPT ![k] = r]
  PROVE  /\ req' \in [Calls -> Request]
         /\ \A t \in Calls : req'[t].step \in EntrantSteps => req'[t].user \in Users
  BY DEF TypeOK

LEMMA DoneTyped ==
  ASSUME TypeOK, NEW k \in Calls, Done(k)
  PROVE  /\ req' \in [Calls -> Request]
         /\ \A t \in Calls : req'[t].step \in EntrantSteps => req'[t].user \in Users
<1>1. ~(Idle.step \in EntrantSteps)
  BY DEF Idle, EntrantSteps
<1>2. QED BY <1>1, IdleType, RequestsTyped DEF Done

LEMMA GotoTyped ==
  ASSUME TypeOK, NEW k \in Calls, NEW step \in Steps, Goto(k, step),
         step \in EntrantSteps => req[k].user \in Users
  PROVE  /\ req' \in [Calls -> Request]
         /\ \A t \in Calls : req'[t].step \in EntrantSteps => req'[t].user \in Users
<1> DEFINE r == [req[k] EXCEPT !.step = step]
<1>1. req[k] \in Request
  BY DEF TypeOK
<1>2. r \in Request /\ r.step = step /\ r.user = req[k].user
  BY <1>1 DEF Request
<1>3. req' = [req EXCEPT ![k] = r]
  BY DEF Goto
<1> HIDE DEF r
<1>4. QED BY <1>2, <1>3, RequestsTyped

\* A request that begins as an entrant's, an edit or a cancel.
LEMMA BeginTyped ==
  ASSUME TypeOK, NEW u \in Users, NEW t \in Nat, NEW c \in Nat \cup {Unlimited},
         NEW admin \in BOOLEAN
  PROVE  /\ \A step \in EntrantSteps :
              LET r == [Idle EXCEPT !.step = step, !.user = u, !.now = clock]
              IN  r \in Request /\ r.step = step /\ r.user = u
         /\ [Idle EXCEPT !.step = "edit", !.now = clock,
                         !.startAt = t, !.capacity = c] \in Request
         /\ [Idle EXCEPT !.step = "cancelEarly", !.now = clock,
                         !.admin = admin] \in Request
  BY DEF TypeOK, Idle, Request, Steps, EntrantSteps, HostSteps

LEMMA FiniteParts ==
  /\ IsFiniteSet(Entrants) /\ Cardinality(Entrants) \in Nat
  /\ IsFiniteSet(Holding) /\ Cardinality(Holding) \in Nat
<1>1. Entrants \in SUBSET Users /\ Holding \in SUBSET Calls
  BY DEF Entrants, Holding
<1>2. IsFiniteSet(Entrants) /\ IsFiniteSet(Holding)
  BY <1>1, UsersFinite, CallsFinite, FS_Subset
<1>3. QED BY <1>2, FS_CardinalityType

\* The count stays a natural number only because the places it stands for are
\* accounted for: types need that part of the invariant.
LEMMA TypeNext == TypeOK /\ PlacesAccounted /\ [Next]_vars => TypeOK'
<1> SUFFICES ASSUME TypeOK, PlacesAccounted, [Next]_vars PROVE TypeOK'
  OBVIOUS
<1>1. ASSUME NEW k \in Calls, NEW u \in Users,
             JoinBegin(k, u) \/ LeaveBegin(k, u) \/ StartBegin(k, u)
      PROVE  TypeOK'
  <2>1. PICK step \in EntrantSteps :
          req' = [req EXCEPT ![k] = [Idle EXCEPT !.step = step, !.user = u, !.now = clock]]
    BY <1>1 DEF JoinBegin, LeaveBegin, StartBegin, Begin, EntrantSteps
  <2> DEFINE r == [Idle EXCEPT !.step = step, !.user = u, !.now = clock]
  <2>2. r \in Request /\ r.step = step /\ r.user = u
    BY BeginTyped, CapacitiesAssumption
  <2>3. req' = [req EXCEPT ![k] = r]
    BY <2>1
  <2> HIDE DEF r
  <2>4. QED BY <1>1, <2>2, <2>3, RequestsTyped
            DEF TypeOK, JoinBegin, LeaveBegin, StartBegin
<1>2. ASSUME NEW k \in Calls, JoinTake(k)  PROVE TypeOK'
  <2>1. contest' \in Contest
    BY <1>2 DEF JoinTake, Contest, TypeOK
  <2>2. req[k].user \in Users
    BY <1>2 DEF JoinTake, TypeOK, At, EntrantSteps
  <2>3. QED BY <1>2, <2>1, <2>2, DoneTyped, GotoTyped
            DEF JoinTake, Steps, EntrantSteps, TypeOK
<1>3. ASSUME NEW k \in Calls, JoinCreate(k)  PROVE TypeOK'
  <2>0. [id |-> lastId + 1, started |-> FALSE] \in Entry
    BY DEF Entry, TypeOK
  <2>1. entry' \in [Users -> Entry] /\ lastId' \in Nat
    BY <1>3, <2>0 DEF JoinCreate, TypeOK
  <2>2. req[k].user \in Users
    BY <1>3 DEF JoinCreate, TypeOK, At, EntrantSteps
  <2>3. QED BY <1>3, <2>1, <2>2, DoneTyped, GotoTyped
            DEF JoinCreate, Steps, EntrantSteps, TypeOK
<1>4. ASSUME NEW k \in Calls, Uncount(k)  PROVE TypeOK'
  <2>0. contest.entrantCount - 1 \in Nat
    <3>1. k \in Holding
      BY <1>4 DEF Uncount, At, Holding
    <3>2. Cardinality(Holding) # 0
      BY <3>1, FiniteParts, FS_EmptySet
    <3>3. contest.entrantCount = Cardinality(Entrants) + Cardinality(Holding) + leaked
      BY DEF PlacesAccounted
    <3>4. leaked \in Nat /\ contest.entrantCount \in Nat
      BY DEF TypeOK, Contest
    <3>5. QED BY <3>2, <3>3, <3>4, FiniteParts
  <2>1. contest' \in Contest
    BY <1>4, <2>0 DEF Uncount, Contest, TypeOK
  <2>2. QED BY <1>4, <2>1, DoneTyped DEF Uncount, TypeOK
<1>5. ASSUME NEW k \in Calls, LeaveDelete(k)  PROVE TypeOK'
  <2>0. NoEntry \in Entry
    BY DEF Entry, NoEntry
  <2>1. entry' \in [Users -> Entry]
    BY <1>5, <2>0 DEF LeaveDelete, TypeOK
  <2>2. req[k].user \in Users
    BY <1>5 DEF LeaveDelete, TypeOK, At, EntrantSteps
  <2>3. QED BY <1>5, <2>1, <2>2, DoneTyped, GotoTyped
            DEF LeaveDelete, Steps, EntrantSteps, TypeOK
<1>6. ASSUME NEW k \in Calls, StartFind(k)  PROVE TypeOK'
  <2> DEFINE r == [req[k] EXCEPT !.step = "mark", !.id = entry[req[k].user].id]
  <2>1. req[k].user \in Users /\ req[k] \in Request
    BY <1>6 DEF StartFind, TypeOK, At, EntrantSteps
  <2>2. entry[req[k].user].id \in Nat
    BY <2>1 DEF TypeOK, Entry
  <2>3. r \in Request /\ r.user \in Users
    BY <2>1, <2>2 DEF Request, Steps, EntrantSteps
  <2>4. req' = [req EXCEPT ![k] = r] \/ Done(k)
    BY <1>6 DEF StartFind, Done
  <2> HIDE DEF r
  <2>5. QED BY <1>6, <2>3, <2>4, RequestsTyped, DoneTyped DEF StartFind, TypeOK
<1>7. ASSUME NEW k \in Calls, StartMark(k)  PROVE TypeOK'
  <2>1. entry' \in [Users -> Entry]
    BY <1>7 DEF StartMark, Entry, TypeOK
  <2>2. QED BY <1>7, <2>1, DoneTyped DEF StartMark, TypeOK
<1>8. ASSUME NEW k \in Calls, NEW t \in StartTimes, NEW c \in Capacities,
             EditBegin(k, t, c)
      PROVE  TypeOK'
  <2> DEFINE r == [Idle EXCEPT !.step = "edit", !.now = clock,
                               !.startAt = t, !.capacity = c]
  <2>1. t \in Nat /\ c \in Nat \cup {Unlimited}
    BY TimesAssumption, CapacitiesAssumption
  <2>2. r \in [step: {"edit"}, user: {Nobody}, now: Nat, id: Nat,
               admin: BOOLEAN, startAt: Nat, capacity: Nat \cup {Unlimited}]
    BY <2>1 DEF Idle, TypeOK
  <2>3. req' = [req EXCEPT ![k] = r]
    BY <1>8 DEF EditBegin, Begin
  <2> HIDE DEF r
  <2>4. r \in Request /\ ~(r.step \in EntrantSteps)
    BY <2>2 DEF Request, Steps, HostSteps, EntrantSteps
  <2>5. QED BY <1>8, <2>3, <2>4, RequestsTyped DEF EditBegin, TypeOK
<1>9. ASSUME NEW k \in Calls, EditCommit(k)  PROVE TypeOK'
  <2>1. req[k].startAt \in Nat /\ req[k].capacity \in Nat \cup {Unlimited}
    BY DEF Request, TypeOK
  <2>2. contest' \in Contest /\ capacities' \in SUBSET (Nat \cup {Unlimited})
    BY <1>9, <2>1 DEF EditCommit, Contest, TypeOK
  <2>3. QED BY <1>9, <2>2, DoneTyped DEF EditCommit, TypeOK
<1>10. ASSUME NEW k \in Calls, NEW admin \in BOOLEAN, CancelBegin(k, admin)
       PROVE  TypeOK'
  <2> DEFINE r == [Idle EXCEPT !.step = "cancelEarly", !.now = clock, !.admin = admin]
  <2>1. r \in [step: {"cancelEarly"}, user: {Nobody}, now: Nat, id: Nat,
               admin: BOOLEAN, startAt: Nat, capacity: Nat \cup {Unlimited}]
    BY DEF Idle, TypeOK
  <2>2. req' = [req EXCEPT ![k] = r]
    BY <1>10 DEF CancelBegin, Begin
  <2> HIDE DEF r
  <2>3. r \in Request /\ ~(r.step \in EntrantSteps)
    BY <2>1 DEF Request, Steps, HostSteps, EntrantSteps
  <2>4. QED BY <1>10, <2>2, <2>3, RequestsTyped DEF CancelBegin, TypeOK
<1>11. ASSUME NEW k \in Calls, CancelEarly(k) \/ CancelLate(k)  PROVE TypeOK'
  <2>1. contest' \in Contest /\ slotReturned' \in BOOLEAN
    BY <1>11 DEF CancelEarly, CancelLate, Contest, TypeOK
  <2>2. "cancelLate" \in Steps /\ ~("cancelLate" \in EntrantSteps)
    BY DEF Steps, HostSteps, EntrantSteps
  <2>3. Done(k) \/ Goto(k, "cancelLate")
    BY <1>11 DEF CancelEarly, CancelLate
  <2>4. QED BY <1>11, <2>1, <2>2, <2>3, DoneTyped, GotoTyped
            DEF CancelEarly, CancelLate, TypeOK
<1>12. ASSUME NEW k \in Calls, Fail(k)  PROVE TypeOK'
  BY <1>12, DoneTyped DEF Fail, TypeOK
<1>13. CASE Close
  BY <1>13 DEF Close, Contest, TypeOK
<1>14. CASE Tick
  BY <1>14 DEF Tick, TypeOK
<1>15. CASE UNCHANGED vars
  BY <1>15 DEF vars, TypeOK
<1>16. QED
  BY <1>1, <1>2, <1>3, <1>4, <1>5, <1>6, <1>7, <1>8, <1>9, <1>10, <1>11,
     <1>12, <1>13, <1>14, <1>15
  DEF Next, EntrantStep, HostStep

-----------------------------------------------------------------------------
(* Places *)

\* A place is counted before its entry exists and given back after the entry is
\* gone, so the count never goes below what it stands for; and it is only ever
\* raised below the capacity of that moment.
CountWithinCapacities ==
    \E c \in capacities : c = Unlimited \/ contest.entrantCount <= c

IInv ==
    /\ TypeOK
    /\ PlacesAccounted
    /\ contest.capacity \in capacities
    /\ CountWithinCapacities
    /\ slotReturned => contest.status = "cancelled" /\ contest.entrantCount = 0

\* How the calls that hold a place change when one call moves.
LEMMA HoldingMoves ==
  ASSUME TypeOK, NEW k \in Calls, NEW r, req' = [req EXCEPT ![k] = r]
  PROVE  Holding' = IF r.step \in {"create", "uncount"}
                      THEN Holding \cup {k} ELSE Holding \ {k}
  BY DEF TypeOK, Holding, At

LEMMA HoldingDone ==
  ASSUME TypeOK, NEW k \in Calls, Done(k)
  PROVE  Holding' = Holding \ {k}
<1>1. Idle.step = "idle"
  BY DEF Idle
<1>2. QED BY <1>1, HoldingMoves DEF Done

LEMMA HoldingGoto ==
  ASSUME TypeOK, NEW k \in Calls, NEW step, Goto(k, step)
  PROVE  Holding' = IF step \in {"create", "uncount"}
                      THEN Holding \cup {k} ELSE Holding \ {k}
<1> DEFINE r == [req[k] EXCEPT !.step = step]
<1>1. r.step = step
  BY DEF TypeOK, Request
<1>2. req' = [req EXCEPT ![k] = r]
  BY DEF Goto
<1> HIDE DEF r
<1>3. QED BY <1>1, <1>2, HoldingMoves

\* A step that begins a request, or moves one that holds no place and will hold
\* none, leaves every quantity of the invariant alone.
LEMMA Neutral ==
  ASSUME IInv, TypeOK', Entrants' = Entrants, Holding' = Holding,
         UNCHANGED <<leaked, capacities, slotReturned>>,
         contest'.entrantCount = contest.entrantCount,
         contest'.capacity = contest.capacity,
         contest.status = "cancelled" => contest'.status = "cancelled"
  PROVE  IInv'
  BY DEF IInv, PlacesAccounted, CountWithinCapacities

LEMMA InvInit == Init => IInv
<1> SUFFICES ASSUME Init PROVE IInv
  OBVIOUS
<1>1. Entrants = {} /\ Holding = {}
  BY DEF Init, Entrants, HasEntry, NoEntry, Holding, At, Idle
<1>2. PlacesAccounted
  BY <1>1, FS_EmptySet DEF Init, PlacesAccounted
<1>3. CountWithinCapacities
  BY CapacitiesAssumption DEF Init, CountWithinCapacities
<1>4. QED BY <1>2, <1>3, TypeInit DEF Init, IInv

LEMMA InvNext == IInv /\ [Next]_vars => IInv'
<1> SUFFICES ASSUME IInv, [Next]_vars PROVE IInv'
  OBVIOUS
<1>t. TypeOK /\ TypeOK'
  BY TypeNext DEF IInv
<1>f. /\ IsFiniteSet(Entrants) /\ Cardinality(Entrants) \in Nat
      /\ IsFiniteSet(Holding) /\ Cardinality(Holding) \in Nat
  BY FiniteParts
<1>n. leaked \in Nat /\ contest.entrantCount \in Nat
  BY <1>t DEF TypeOK, Contest
<1>same. UNCHANGED entry => Entrants' = Entrants
  BY DEF Entrants, HasEntry
<1>1. ASSUME NEW k \in Calls, NEW u \in Users,
             JoinBegin(k, u) \/ LeaveBegin(k, u) \/ StartBegin(k, u)
      PROVE  IInv'
  <2>1. PICK step \in {"take", "delete", "find"} :
          req' = [req EXCEPT ![k] = [Idle EXCEPT !.step = step, !.user = u, !.now = clock]]
    BY <1>1 DEF JoinBegin, LeaveBegin, StartBegin, Begin
  <2>2. [Idle EXCEPT !.step = step, !.user = u, !.now = clock].step = step
    BY DEF Idle
  <2>3. Holding' = Holding \ {k} /\ k \notin Holding
    BY <1>1, <1>t, <2>1, <2>2, HoldingMoves
    DEF JoinBegin, LeaveBegin, StartBegin, Begin, At, Holding
  <2>4. QED BY <1>1, <1>t, <1>same, <2>3, Neutral DEF JoinBegin, LeaveBegin, StartBegin
<1>2. ASSUME NEW k \in Calls, JoinTake(k)  PROVE IInv'
  <2>1. k \notin Holding /\ Entrants' = Entrants
    BY <1>2, <1>same DEF JoinTake, At, Holding
  <2>2. CASE CanTake(req[k].now)
    <3>1. /\ contest' = [contest EXCEPT !.entrantCount = @ + 1]
          /\ Goto(k, "create") /\ UNCHANGED <<leaked, capacities, slotReturned>>
      BY <1>2, <2>2 DEF JoinTake
    <3>2. /\ contest'.entrantCount = contest.entrantCount + 1
          /\ contest'.capacity = contest.capacity /\ contest'.status = contest.status
      BY <1>t, <3>1 DEF TypeOK, Contest
    <3>3. Holding' = Holding \cup {k}
      BY <1>t, <3>1, HoldingGoto
    <3>4. Cardinality(Holding') = Cardinality(Holding) + 1
      BY <1>f, <2>1, <3>3, FS_AddElement
    <3>5. PlacesAccounted'
      BY <1>f, <1>n, <2>1, <3>1, <3>2, <3>4 DEF IInv, PlacesAccounted
    <3>6. contest.status = "published" /\ HasRoom
      BY <2>2 DEF CanTake
    <3>7. CountWithinCapacities'
      <4>1. contest.capacity \in capacities' /\ contest.capacity \in Nat \cup {Unlimited}
        BY <1>t, <3>1 DEF IInv, TypeOK, Contest
      <4>2. contest.capacity = Unlimited \/ contest'.entrantCount <= contest.capacity
        BY <1>n, <3>2, <3>6, <4>1 DEF HasRoom
      <4>3. QED BY <4>1, <4>2 DEF CountWithinCapacities
    <3>8. QED BY <1>t, <3>1, <3>2, <3>5, <3>6, <3>7 DEF IInv
  <2>3. CASE ~CanTake(req[k].now)
    <3>1. Holding' = Holding
      BY <1>2, <1>t, <2>1, <2>3, HoldingDone DEF JoinTake
    <3>2. QED BY <1>2, <1>t, <2>1, <2>3, <3>1, Neutral DEF JoinTake
  <2>4. QED BY <2>2, <2>3
<1>3. ASSUME NEW k \in Calls, JoinCreate(k)  PROVE IInv'
  <2> DEFINE u == req[k].user
  <2>1. k \in Holding /\ u \in Users
    BY <1>3, <1>t DEF JoinCreate, At, Holding, TypeOK, EntrantSteps
  <2>2. CASE HasEntry(u)
    <3>1. Goto(k, "uncount") /\ UNCHANGED <<entry, contest, leaked, capacities, slotReturned>>
      BY <1>3, <2>2 DEF JoinCreate
    <3>2. Holding' = Holding
      BY <1>t, <2>1, <3>1, HoldingGoto
    <3>3. QED BY <1>t, <1>same, <3>1, <3>2, Neutral
  <2>3. CASE ~HasEntry(u)
    <3>1. /\ entry' = [entry EXCEPT ![u] = [id |-> lastId + 1, started |-> FALSE]]
          /\ Done(k) /\ UNCHANGED <<contest, leaked, capacities, slotReturned>>
      BY <1>3, <2>3 DEF JoinCreate
    <3>2. lastId + 1 # 0
      BY <1>t DEF TypeOK
    <3>3. Entrants' = Entrants \cup {u} /\ u \notin Entrants
      BY <1>t, <2>1, <2>3, <3>1, <3>2 DEF TypeOK, Entrants, HasEntry
    <3>4. Holding' = Holding \ {k}
      BY <1>t, <3>1, HoldingDone
    <3>5. /\ Cardinality(Entrants') = Cardinality(Entrants) + 1
          /\ Cardinality(Holding') = Cardinality(Holding) - 1
      BY <1>f, <2>1, <3>3, <3>4, FS_AddElement, FS_RemoveElement
    <3>6. PlacesAccounted'
      BY <1>f, <1>n, <3>1, <3>5 DEF IInv, PlacesAccounted
    <3>7. QED BY <1>t, <3>1, <3>6 DEF IInv, CountWithinCapacities
  <2>4. QED BY <2>2, <2>3
<1>4. ASSUME NEW k \in Calls, Uncount(k)  PROVE IInv'
  <2>1. /\ contest' = [contest EXCEPT !.entrantCount = @ - 1]
        /\ Done(k) /\ UNCHANGED <<entry, leaked, capacities, slotReturned>>
        /\ k \in Holding
    BY <1>4 DEF Uncount, At, Holding
  <2>2. /\ contest'.entrantCount = contest.entrantCount - 1
        /\ contest'.capacity = contest.capacity /\ contest'.status = contest.status
    BY <1>t, <2>1 DEF TypeOK, Contest
  <2>3. Holding' = Holding \ {k} /\ Entrants' = Entrants
    BY <1>t, <1>same, <2>1, HoldingDone
  <2>4. Cardinality(Holding') = Cardinality(Holding) - 1
    BY <1>f, <2>1, <2>3, FS_RemoveElement
  <2>5. PlacesAccounted'
    BY <1>f, <1>n, <2>1, <2>2, <2>3, <2>4 DEF IInv, PlacesAccounted
  <2>6. CountWithinCapacities'
    <3>1. PICK c \in capacities : c = Unlimited \/ contest.entrantCount <= c
      BY DEF IInv, CountWithinCapacities
    <3>2. c \in capacities' /\ c \in Nat \cup {Unlimited}
      BY <1>t, <2>1, <3>1 DEF TypeOK
    <3>3. c = Unlimited \/ contest'.entrantCount <= c
      BY <1>n, <2>2, <3>1, <3>2
    <3>4. QED BY <3>2, <3>3 DEF CountWithinCapacities
  <2>7. ~slotReturned
    \* Were the slot returned, the count would be 0 and no request hold a place.
    <3>1. Cardinality(Holding) # 0
      BY <1>f, <2>1, FS_EmptySet
    <3>2. contest.entrantCount = Cardinality(Entrants) + Cardinality(Holding) + leaked
      BY DEF IInv, PlacesAccounted
    <3>3. contest.entrantCount # 0
      BY <1>f, <1>n, <3>1, <3>2
    <3>4. QED BY <3>3 DEF IInv
  <2>8. QED BY <1>t, <2>1, <2>2, <2>5, <2>6, <2>7 DEF IInv
<1>5. ASSUME NEW k \in Calls, LeaveDelete(k)  PROVE IInv'
  <2> DEFINE u == req[k].user
  <2>1. k \notin Holding /\ u \in Users
    BY <1>5, <1>t DEF LeaveDelete, At, Holding, TypeOK, EntrantSteps
  <2>2. CASE HasEntry(u)
    <3>1. /\ entry' = [entry EXCEPT ![u] = NoEntry]
          /\ Goto(k, "uncount") /\ UNCHANGED <<contest, leaked, capacities, slotReturned>>
      BY <1>5, <2>2 DEF LeaveDelete
    <3>2. Entrants' = Entrants \ {u} /\ u \in Entrants
      BY <1>t, <2>1, <2>2, <3>1 DEF TypeOK, Entrants, HasEntry, NoEntry
    <3>3. Holding' = Holding \cup {k}
      BY <1>t, <3>1, HoldingGoto
    <3>4. /\ Cardinality(Entrants') = Cardinality(Entrants) - 1
          /\ Cardinality(Holding') = Cardinality(Holding) + 1
      BY <1>f, <2>1, <3>2, <3>3, FS_AddElement, FS_RemoveElement
    <3>5. PlacesAccounted'
      BY <1>f, <1>n, <3>1, <3>4 DEF IInv, PlacesAccounted
    <3>6. QED BY <1>t, <3>1, <3>5 DEF IInv, CountWithinCapacities
  <2>3. CASE ~HasEntry(u)
    <3>1. Holding' = Holding
      BY <1>5, <1>t, <2>1, <2>3, HoldingDone DEF LeaveDelete
    <3>2. QED BY <1>5, <1>t, <1>same, <2>3, <3>1, Neutral DEF LeaveDelete
  <2>4. QED BY <2>2, <2>3
<1>6. ASSUME NEW k \in Calls, StartFind(k)  PROVE IInv'
  <2> DEFINE r == [req[k] EXCEPT !.step = "mark", !.id = entry[req[k].user].id]
  <2>1. r.step = "mark" /\ k \notin Holding
    BY <1>6, <1>t DEF StartFind, At, Holding, TypeOK, Request
  <2>2. req' = [req EXCEPT ![k] = r] \/ Done(k)
    BY <1>6 DEF StartFind, Done
  <2> HIDE DEF r
  <2>3. Holding' = Holding
    BY <1>t, <2>1, <2>2, HoldingMoves, HoldingDone
  <2>4. QED BY <1>6, <1>t, <1>same, <2>3, Neutral DEF StartFind
<1>7. ASSUME NEW k \in Calls, StartMark(k)  PROVE IInv'
  <2>1. Entrants' = Entrants
    BY <1>7, <1>t DEF StartMark, TypeOK, Entry, Entrants, HasEntry
  <2>2. Holding' = Holding
    BY <1>7, <1>t, HoldingDone DEF StartMark, At, Holding
  <2>3. QED BY <1>7, <1>t, <2>1, <2>2, Neutral DEF StartMark
<1>8. ASSUME NEW k \in Calls, NEW t \in StartTimes, NEW c \in Capacities,
             EditBegin(k, t, c)
      PROVE  IInv'
  <2> DEFINE r == [Idle EXCEPT !.step = "edit", !.now = clock,
                               !.startAt = t, !.capacity = c]
  <2>1. r.step = "edit" /\ k \notin Holding /\ req' = [req EXCEPT ![k] = r]
    BY <1>8 DEF EditBegin, Begin, Idle, At, Holding
  <2> HIDE DEF r
  <2>2. QED BY <1>8, <1>t, <1>same, <2>1, HoldingMoves, Neutral DEF EditBegin
<1>9. ASSUME NEW k \in Calls, EditCommit(k)  PROVE IInv'
  <2>1. Holding' = Holding /\ Entrants' = Entrants
    BY <1>9, <1>t, <1>same, HoldingDone DEF EditCommit, At, Holding
  <2>2. CASE contest.status = "published"
    <3>1. /\ contest' = [contest EXCEPT !.startAt = req[k].startAt,
                                        !.capacity = req[k].capacity]
          /\ capacities' = capacities \cup {req[k].capacity}
          /\ UNCHANGED <<leaked, slotReturned>>
      BY <1>9, <2>2 DEF EditCommit
    <3>2. /\ contest'.capacity = req[k].capacity /\ contest'.status = contest.status
          /\ contest'.entrantCount = contest.entrantCount
      BY <1>t, <3>1 DEF TypeOK, Contest
    <3>3. PlacesAccounted'
      BY <2>1, <3>1, <3>2 DEF IInv, PlacesAccounted
    <3>4. CountWithinCapacities'
      BY <3>1, <3>2 DEF IInv, CountWithinCapacities
    <3>5. ~slotReturned /\ contest'.capacity \in capacities'
      BY <2>2, <3>1, <3>2 DEF IInv
    <3>6. QED BY <1>t, <3>1, <3>3, <3>4, <3>5 DEF IInv
  <2>3. CASE contest.status # "published"
    BY <1>9, <1>t, <2>1, <2>3, Neutral DEF EditCommit
  <2>4. QED BY <2>2, <2>3
<1>10. ASSUME NEW k \in Calls, NEW admin \in BOOLEAN, CancelBegin(k, admin)
       PROVE  IInv'
  <2> DEFINE r == [Idle EXCEPT !.step = "cancelEarly", !.now = clock, !.admin = admin]
  <2>1. r.step = "cancelEarly" /\ k \notin Holding /\ req' = [req EXCEPT ![k] = r]
    BY <1>10 DEF CancelBegin, Begin, Idle, At, Holding
  <2> HIDE DEF r
  <2>2. QED BY <1>10, <1>t, <1>same, <2>1, HoldingMoves, Neutral DEF CancelBegin
<1>11. ASSUME NEW k \in Calls, CancelEarly(k)  PROVE IInv'
  <2>1. Entrants' = Entrants /\ Holding' = Holding
    BY <1>11, <1>t, <1>same, HoldingDone, HoldingGoto DEF CancelEarly, At, Holding
  <2>2. CASE UNCHANGED <<contest, slotReturned>>
    BY <1>11, <1>t, <2>1, <2>2, Neutral DEF CancelEarly
  <2>3. CASE /\ contest' = [contest EXCEPT !.status = "cancelled"]
             /\ contest.entrantCount = 0
    <3>1. /\ contest'.status = "cancelled" /\ contest'.entrantCount = 0
          /\ contest'.capacity = contest.capacity
      BY <1>t, <2>3 DEF TypeOK, Contest
    <3>2. QED BY <1>11, <1>t, <2>1, <2>3, <3>1
              DEF CancelEarly, IInv, PlacesAccounted, CountWithinCapacities
  <2>4. QED BY <1>11, <2>2, <2>3 DEF CancelEarly
<1>12. ASSUME NEW k \in Calls, CancelLate(k)  PROVE IInv'
  <2>1. Entrants' = Entrants /\ Holding' = Holding
    BY <1>12, <1>t, <1>same, HoldingDone DEF CancelLate, At, Holding
  <2>2. /\ contest'.entrantCount = contest.entrantCount
        /\ contest'.capacity = contest.capacity
        /\ contest.status = "cancelled" => contest'.status = "cancelled"
    BY <1>12, <1>t DEF CancelLate, TypeOK, Contest
  <2>3. QED BY <1>12, <1>t, <2>1, <2>2, Neutral DEF CancelLate
<1>13. ASSUME NEW k \in Calls, Fail(k)  PROVE IInv'
  <2>1. Entrants' = Entrants /\ Holding' = Holding \ {k}
    BY <1>13, <1>t, <1>same, HoldingDone DEF Fail
  <2>2. CASE k \in Holding
    <3>1. Cardinality(Holding') = Cardinality(Holding) - 1 /\ leaked' = leaked + 1
      BY <1>13, <1>f, <2>1, <2>2, FS_RemoveElement DEF Fail
    <3>2. PlacesAccounted'
      <4>1. contest.entrantCount = Cardinality(Entrants) + Cardinality(Holding) + leaked
        BY DEF IInv, PlacesAccounted
      <4>2. contest'.entrantCount = contest.entrantCount /\ Entrants' = Entrants
        BY <1>13, <2>1 DEF Fail
      <4>3. QED BY <1>f, <1>n, <3>1, <4>1, <4>2 DEF PlacesAccounted
    <3>3. QED BY <1>13, <1>t, <3>2 DEF Fail, IInv, CountWithinCapacities
  <2>3. CASE k \notin Holding
    BY <1>13, <1>t, <2>1, <2>3, Neutral DEF Fail
  <2>4. QED BY <2>2, <2>3
<1>14. ASSUME Close \/ Tick \/ UNCHANGED vars  PROVE IInv'
  <2>1. /\ contest'.entrantCount = contest.entrantCount
        /\ contest'.capacity = contest.capacity /\ contest'.status = contest.status
        /\ UNCHANGED <<entry, req, leaked, capacities, slotReturned>>
    BY <1>14, <1>t DEF Close, Tick, vars, TypeOK, Contest
  <2>2. Holding' = Holding
    BY <2>1 DEF Holding, At
  <2>3. QED BY <1>t, <1>same, <2>1, <2>2, Neutral
<1>15. QED
  BY <1>1, <1>2, <1>3, <1>4, <1>5, <1>6, <1>7, <1>8, <1>9, <1>10, <1>11,
     <1>12, <1>13, <1>14
  DEF Next, EntrantStep, HostStep

\* What the invariant says of the entries themselves.
LEMMA InvImplies ==
  IInv => PlacesAccounted /\ NoOverbooking /\ NobodyOnceSlotReturned
<1> SUFFICES ASSUME IInv
             PROVE  NoOverbooking /\ NobodyOnceSlotReturned
  BY DEF IInv
<1>f. /\ IsFiniteSet(Entrants) /\ Cardinality(Entrants) \in Nat
      /\ IsFiniteSet(Holding) /\ Cardinality(Holding) \in Nat
  BY FiniteParts
<1>n. leaked \in Nat /\ contest.entrantCount \in Nat
  BY DEF IInv, TypeOK, Contest
<1>1. NoOverbooking
  <2>1. PICK c \in capacities : c = Unlimited \/ contest.entrantCount <= c
    BY DEF IInv, CountWithinCapacities
  <2>2. c \in Nat \cup {Unlimited}
    BY <2>1 DEF IInv, TypeOK
  <2>3. c = Unlimited \/ Cardinality(Entrants) <= c
    BY <1>f, <1>n, <2>1, <2>2 DEF IInv, PlacesAccounted
  <2>4. QED BY <2>1, <2>3 DEF NoOverbooking
<1>2. NobodyOnceSlotReturned
  <2>1. CASE contest.entrantCount = 0
    <3>1. Cardinality(Entrants) = 0 /\ Cardinality(Holding) = 0
      BY <1>f, <1>n, <2>1 DEF IInv, PlacesAccounted
    <3>2. Entrants = {} /\ Holding = {}
      BY <1>f, <3>1, FS_EmptySet
    <3>3. QED BY <3>2 DEF IInv, NobodyOnceSlotReturned
  <2>2. QED BY <2>1 DEF IInv, NobodyOnceSlotReturned
<1>3. QED BY <1>1, <1>2

\* Every reachable state is well typed; above all the entrant count, which is
\* decremented blindly by changeCount, never goes below zero.
THEOREM TypeCorrect == Spec => []TypeOK
  BY InvInit, InvNext, PTL DEF Spec, IInv

\* The entrant count is always the entries, plus the places of the requests
\* between their two writes, plus those lost with a failed request
\* (join, leave and changeCount of ContestEntrantService).
THEOREM Accounting == Spec => []PlacesAccounted
  BY InvInit, InvNext, InvImplies, PTL DEF Spec

\* However many users join, leave and retry at once, and however the host edits
\* the capacity meanwhile, the entries never outnumber a capacity the contest
\* has had (the conditional increment of join).
THEOREM NeverOverbooked == Spec => []NoOverbooking
  BY InvInit, InvNext, InvImplies, PTL DEF Spec

\* When cancel returns the host's free slot nobody has entered, and nobody can
\* any more: no join slips in between (cancel of ContestHostingService).
THEOREM SlotReturnedOnlyIfEmpty == Spec => []NobodyOnceSlotReturned
  BY InvInit, InvNext, InvImplies, PTL DEF Spec

=============================================================================
