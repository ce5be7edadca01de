-------------------------- MODULE FreeSlots_proof --------------------------
(***************************************************************************)
(* Proofs about FreeSlots: the monthly limit holds for any number of       *)
(* hosts, contests and requests in flight, and any calendar.               *)
(***************************************************************************)
EXTENDS FreeSlots, FiniteSetTheorems, TLAPS

\* What a call carries from the step that read it to the steps that use it.
CallOK(r) ==
    /\ r.step # "idle" => r.contest \in Contests /\ r.host \in Hosts
    /\ r.step \in {"upsert", "insert", "retry"} =>
          r.month \in Months /\ ~r.admin /\ r.month = MonthOf[r.now]
    /\ r.step = "commit" =>
          r.month \in Months /\ r.month = MonthOf[r.now] /\ (r.host \notin Admins => ~r.admin)
    /\ r.step = "giveBack" => r.month \in Months

CallsOK ==
    \A k \in Calls :
        /\ CallOK(req[k])
        /\ ~At(k, "idle") => /\ contest[req[k].contest].status # "none"
                             /\ contest[req[k].contest].host = req[k].host
        /\ At(k, "retry") => published[req[k].host][req[k].month] # None

ContestsOK ==
    \A c \in Contests :
        /\ contest[c].status # "none" => contest[c].host \in Hosts
        /\ contest[c].status \in {"published", "cancelled"} => contest[c].publishedAt \in Times
        /\ c \in returned => contest[c].status = "cancelled"

IInv == TypeOK /\ CallsOK /\ ContestsOK /\ SlotsAccounted

-----------------------------------------------------------------------------
(* Types *)

LEMMA Numbers == /\ Limit \in Nat \ {0} /\ MaxTime \in Nat /\ Lead \in Nat
                 /\ StartTimes \subseteq Nat /\ Times \subseteq Nat
                 /\ \A x \in Times : MonthOf[x] \in Months
  BY NumbersAssumption, MonthAssumption DEF Times

LEMMA IdleType == Idle \in Request
  BY Numbers DEF Idle, Request, Steps, Times

LEMMA InitTyped == Init => TypeOK
<1> SUFFICES ASSUME Init PROVE TypeOK
  OBVIOUS
<1>1. NoContest \in ContestDoc
  BY DEF NoContest, ContestDoc, Status
<1>2. contest \in [Contests -> ContestDoc]
  BY <1>1 DEF Init
<1>3. req \in [Calls -> Request]
  BY IdleType DEF Init
<1>4. clock \in Times
  BY Numbers DEF Init, Times
<1>5. QED BY <1>2, <1>3, <1>4 DEF Init, TypeOK

LEMMA CallSet ==
  ASSUME TypeOK, NEW k \in Calls, NEW r \in Request, req' = [req EXCEPT ![k] = r]
  PROVE  /\ req' \in [Calls -> Request]
         /\ req'[k] = r
         /\ \A j \in Calls \ {k} : req'[j] = req[j]
  BY DEF TypeOK

\* Done and Goto as the assignment of a well-typed request.
LEMMA DoneSet ==
  ASSUME NEW k \in Calls, Done(k)
  PROVE  Idle \in Request /\ req' = [req EXCEPT ![k] = Idle]
  BY IdleType DEF Done

LEMMA GotoSet ==
  ASSUME TypeOK, NEW k \in Calls, NEW step \in Steps, Goto(k, step)
  PROVE  \E r \in Request :
            /\ req' = [req EXCEPT ![k] = r]
            /\ r.step = step /\ r.contest = req[k].contest /\ r.host = req[k].host
            /\ r.month = req[k].month /\ r.now = req[k].now /\ r.admin = req[k].admin
<1> DEFINE r == [req[k] EXCEPT !.step = step]
<1>1. req[k] \in Request
  BY DEF TypeOK
<1>2. /\ r \in Request
      /\ r.step = step /\ r.contest = req[k].contest /\ r.host = req[k].host
      /\ r.month = req[k].month /\ r.now = req[k].now /\ r.admin = req[k].admin
  BY <1>1 DEF Request
<1>3. req' = [req EXCEPT ![k] = r]
  BY DEF Goto
<1> HIDE DEF r
<1>4. QED BY <1>2, <1>3

\* The other calls stay in order as long as contests keep their host and rows
\* that exist go on existing.
LEMMA CallsKept ==
  ASSUME TypeOK, CallsOK, NEW k \in Calls, NEW r \in Request,
         req' = [req EXCEPT ![k] = r], CallOK(r),
         r.step # "idle" => /\ contest'[r.contest].status # "none"
                            /\ contest'[r.contest].host = r.host,
         r.step = "retry" => published'[r.host][r.month] # None,
         \A c \in Contests : contest[c].status # "none" =>
            contest'[c].status # "none" /\ contest'[c].host = contest[c].host,
         \A h \in Hosts, m \in Months :
            published[h][m] # None => published'[h][m] # None
  PROVE  CallsOK'
<1>1. /\ req'[k] = r
      /\ \A j \in Calls \ {k} : req'[j] = req[j]
  BY CallSet
<1>2. ASSUME NEW j \in Calls
      PROVE  /\ CallOK(req'[j])
             /\ req'[j].step # "idle" => /\ contest'[req'[j].contest].status # "none"
                                         /\ contest'[req'[j].contest].host = req'[j].host
             /\ req'[j].step = "retry" => published'[req'[j].host][req'[j].month] # None
  <2>1. CASE j = k
    BY <1>1, <2>1
  <2>2. CASE j # k
    <3>1. req'[j] = req[j]
      BY <1>1, <2>2
    <3>2. /\ CallOK(req[j])
          /\ req[j].step # "idle" => /\ contest[req[j].contest].status # "none"
                                      /\ contest[req[j].contest].host = req[j].host
          /\ req[j].step = "retry" => published[req[j].host][req[j].month] # None
      BY DEF CallsOK, At
    <3>3. req[j].step # "idle" => req[j].contest \in Contests /\ req[j].host \in Hosts
      BY <3>2 DEF CallOK
    <3>4. req[j].step = "retry" => req[j].month \in Months
      BY <3>2 DEF CallOK
    <3>5. QED BY <3>1, <3>2, <3>3, <3>4
  <2>3. QED BY <2>1, <2>2
<1>3. QED BY <1>2 DEF CallsOK, At, CallOK

-----------------------------------------------------------------------------
(* Counting *)

Bit(p) == IF p THEN 1 ELSE 0

LEMMA FiniteParts ==
  ASSUME NEW h, NEW m
  PROVE  /\ IsFiniteSet(Holding(h, m)) /\ Cardinality(Holding(h, m)) \in Nat
         /\ IsFiniteSet(Charged(h, m)) /\ Cardinality(Charged(h, m)) \in Nat
<1>1. Holding(h, m) \in SUBSET Calls /\ Charged(h, m) \in SUBSET Contests
  BY DEF Holding, Charged
<1>2. IsFiniteSet(Holding(h, m)) /\ IsFiniteSet(Charged(h, m))
  BY <1>1, FiniteAssumption, FS_Subset
<1>3. QED BY <1>2, FS_CardinalityType

\* One element joining or leaving a set moves its cardinality by one.
LEMMA OneElement ==
  ASSUME NEW S, NEW T, NEW x, IsFiniteSet(S),
         S \ {x} = T \ {x}
  PROVE  Cardinality(T) = Cardinality(S) + Bit(x \in T) - Bit(x \in S)
<1>1. T = (IF x \in T THEN S \cup {x} ELSE S \ {x})
  OBVIOUS
<1>2. Cardinality(S) \in Nat
  BY FS_CardinalityType
<1>3. CASE x \in T
  BY <1>1, <1>2, <1>3, FS_AddElement DEF Bit
<1>4. CASE x \notin T
  BY <1>1, <1>2, <1>4, FS_RemoveElement DEF Bit
<1>5. QED BY <1>3, <1>4

LEMMA HoldingCount ==
  ASSUME TypeOK, NEW k \in Calls, NEW r \in Request, req' = [req EXCEPT ![k] = r],
         NEW h, NEW m
  PROVE  Cardinality(Holding(h, m)') = Cardinality(Holding(h, m))
            + Bit(HoldsSlot(r, h, m)) - Bit(HoldsSlot(req[k], h, m))
<1>1. Holding(h, m) \ {k} = Holding(h, m)' \ {k}
  BY CallSet DEF Holding
<1>2. /\ k \in Holding(h, m) <=> HoldsSlot(req[k], h, m)
      /\ k \in Holding(h, m)' <=> HoldsSlot(r, h, m)
  BY CallSet DEF Holding
<1>3. QED BY <1>1, <1>2, FiniteParts, OneElement DEF Bit

LEMMA ChargedCount ==
  ASSUME NEW c \in Contests, NEW h, NEW m,
         \A d \in Contests \ {c} : /\ contest'[d] = contest[d]
                                   /\ d \in returned' <=> d \in returned
  PROVE  Cardinality(Charged(h, m)') = Cardinality(Charged(h, m))
            + Bit(c \in Charged(h, m)') - Bit(c \in Charged(h, m))
<1>1. Charged(h, m) \ {c} = Charged(h, m)' \ {c}
  BY DEF Charged
<1>2. QED BY <1>1, FiniteParts, OneElement

LEMMA Amounts ==
  ASSUME TypeOK, NEW h \in Hosts, NEW m \in Months
  PROVE  Used(h, m) \in Nat /\ lost[h][m] \in Nat
<1>1. published[h][m] \in (0 .. Limit) \cup {None}
  BY DEF TypeOK
<1>2. QED BY <1>1, Numbers DEF Used, TypeOK

\* A step that moves one call, and changes at most contest c, keeps the books if
\* the row moves by as much as what stands behind it.
LEMMA Balanced ==
  ASSUME TypeOK, TypeOK', SlotsAccounted,
         NEW k \in Calls, NEW r \in Request, req' = [req EXCEPT ![k] = r],
         NEW c \in Contests,
         \A d \in Contests \ {c} : /\ contest'[d] = contest[d]
                                   /\ d \in returned' <=> d \in returned,
         \A h \in Hosts \ Admins, m \in Months :
            Used(h, m)' - Used(h, m) =
               (Bit(HoldsSlot(r, h, m)) - Bit(HoldsSlot(req[k], h, m)))
               + (Bit(c \in Charged(h, m)') - Bit(c \in Charged(h, m)))
               + (lost'[h][m] - lost[h][m])
  PROVE  SlotsAccounted'
<1> SUFFICES ASSUME NEW h \in Hosts \ Admins, NEW m \in Months
             PROVE  Used(h, m)' = Cardinality(Charged(h, m)') + Cardinality(Holding(h, m)')
                                  + lost'[h][m]
  BY DEF SlotsAccounted
<1> DEFINE b1 == Bit(HoldsSlot(r, h, m))
           b2 == Bit(HoldsSlot(req[k], h, m))
           b3 == Bit(c \in Charged(h, m)')
           b4 == Bit(c \in Charged(h, m))
<1>1. b1 \in Int /\ b2 \in Int /\ b3 \in Int /\ b4 \in Int
  BY DEF Bit
<1>2. Cardinality(Holding(h, m)') = Cardinality(Holding(h, m)) + b1 - b2
  <2>1. Cardinality(Holding(h, m)') = Cardinality(Holding(h, m))
            + Bit(HoldsSlot(r, h, m)) - Bit(HoldsSlot(req[k], h, m))
    BY ONLY TypeOK, k \in Calls, r \in Request, req' = [req EXCEPT ![k] = r], HoldingCount
  <2>2. QED BY <2>1
<1>3. Cardinality(Charged(h, m)') = Cardinality(Charged(h, m)) + b3 - b4
  BY ChargedCount
<1>4. Used(h, m)' - Used(h, m) = (b1 - b2) + (b3 - b4) + (lost'[h][m] - lost[h][m])
  OBVIOUS
<1>5. Used(h, m) \in Nat /\ lost[h][m] \in Nat /\ Used(h, m)' \in Nat /\ lost'[h][m] \in Nat
  <2>1. Used(h, m) \in Nat /\ lost[h][m] \in Nat
    BY Amounts
  <2>2. published'[h][m] \in (0 .. Limit) \cup {None} /\ lost'[h][m] \in Nat
    BY DEF TypeOK
  <2>3. QED BY <2>1, <2>2, Numbers DEF Used
<1>6. Used(h, m) = Cardinality(Charged(h, m)) + Cardinality(Holding(h, m)) + lost[h][m]
  BY DEF SlotsAccounted
<1>7. Cardinality(Charged(h, m)) \in Nat /\ Cardinality(Holding(h, m)) \in Nat
  BY FiniteParts
<1> HIDE DEF b1, b2, b3, b4
<1>8. QED BY <1>1, <1>2, <1>3, <1>4, <1>5, <1>6, <1>7

\* The same when a call changes no contest; it names one, c, all the same.
LEMMA BalancedCall ==
  ASSUME TypeOK, TypeOK', SlotsAccounted,
         NEW k \in Calls, NEW r \in Request, req' = [req EXCEPT ![k] = r],
         Contests # {}, UNCHANGED <<contest, returned>>,
         \A h \in Hosts \ Admins, m \in Months :
            Used(h, m)' - Used(h, m) =
               (Bit(HoldsSlot(r, h, m)) - Bit(HoldsSlot(req[k], h, m)))
               + (lost'[h][m] - lost[h][m])
  PROVE  SlotsAccounted'
<1>1. PICK c \in Contests : TRUE
  OBVIOUS
<1>2. ASSUME NEW h, NEW m
      PROVE  Bit(c \in Charged(h, m)') - Bit(c \in Charged(h, m)) = 0
  <2>1. c \in Charged(h, m)' <=> c \in Charged(h, m)
    BY DEF Charged
  <2>2. QED BY <2>1 DEF Bit
<1>3. ASSUME NEW h \in Hosts \ Admins, NEW m \in Months
      PROVE  /\ Bit(HoldsSlot(r, h, m)) \in Int /\ Bit(HoldsSlot(req[k], h, m)) \in Int
             /\ lost[h][m] \in Int /\ lost'[h][m] \in Int
  BY DEF Bit, TypeOK
<1>4. ASSUME NEW h \in Hosts \ Admins, NEW m \in Months
      PROVE  Used(h, m)' - Used(h, m) =
               (Bit(HoldsSlot(r, h, m)) - Bit(HoldsSlot(req[k], h, m)))
               + (Bit(c \in Charged(h, m)') - Bit(c \in Charged(h, m)))
               + (lost'[h][m] - lost[h][m])
  <2> DEFINE x == Bit(HoldsSlot(r, h, m)) - Bit(HoldsSlot(req[k], h, m))
             y == Bit(c \in Charged(h, m)') - Bit(c \in Charged(h, m))
             z == lost'[h][m] - lost[h][m]
  <2>1. x \in Int /\ z \in Int /\ y = 0
    BY <1>2, <1>3
  <2>2. Used(h, m)' - Used(h, m) = x + z
    OBVIOUS
  <2> HIDE DEF x, y, z
  <2>3. Used(h, m)' - Used(h, m) = x + y + z
    BY <2>1, <2>2
  <2>4. QED BY <2>3 DEF x, y, z
<1>5. QED BY <1>1, <1>4, Balanced

\* A step of the contests that charges and returns nothing.
LEMMA BalancedContest ==
  ASSUME SlotsAccounted, UNCHANGED <<published, req, lost>>,
         \A h \in Hosts \ Admins, m \in Months : Charged(h, m)' = Charged(h, m)
  PROVE  SlotsAccounted'
  BY DEF SlotsAccounted, Used, Holding

-----------------------------------------------------------------------------
(* The invariant *)

LEMMA InvInit == Init => IInv
<1> SUFFICES ASSUME Init PROVE IInv
  OBVIOUS
<1>1. CallsOK
  BY DEF Init, CallsOK, CallOK, Idle, At
<1>2. ContestsOK
  BY DEF Init, ContestsOK, NoContest
<1>3. ASSUME NEW h \in Hosts \ Admins, NEW m \in Months
      PROVE  Used(h, m) = Cardinality(Charged(h, m)) + Cardinality(Holding(h, m)) + lost[h][m]
  <2>1. Charged(h, m) = {} /\ Holding(h, m) = {}
    BY DEF Init, Charged, Holding, HoldsSlot, Holds, NoContest, Idle
  <2>2. Used(h, m) = 0 /\ lost[h][m] = 0
    BY DEF Init, Used
  <2>3. QED BY <2>1, <2>2, FS_EmptySet
<1>4. QED BY <1>1, <1>2, <1>3, InitTyped DEF IInv, SlotsAccounted

\* What a step needs to know of the call it moves.
LEMMA CallFacts ==
  ASSUME IInv, NEW k \in Calls, ~At(k, "idle")
  PROVE  /\ req[k] \in Request /\ CallOK(req[k])
         /\ req[k].contest \in Contests /\ req[k].host \in Hosts
         /\ contest[req[k].contest].status # "none"
         /\ contest[req[k].contest].host = req[k].host
         /\ Contests # {}
  BY DEF IInv, TypeOK, CallsOK, CallOK, At

\* Calls that move without touching a row, a contest or a slot they hold.
LEMMA CallMoves ==
  ASSUME IInv, TypeOK', NEW k \in Calls, NEW r \in Request,
         req' = [req EXCEPT ![k] = r], Contests # {},
         UNCHANGED <<contest, published, lost, returned>>,
         CallOK(r), ~Holds(r), ~Holds(req[k]),
         r.step # "idle" => /\ contest[r.contest].status # "none"
                            /\ contest[r.contest].host = r.host,
         r.step = "retry" => published[r.host][r.month] # None
  PROVE  IInv'
<1>1. CallsOK'
  BY CallsKept DEF IInv
<1>2. ContestsOK'
  BY DEF IInv, ContestsOK
<1>3. ASSUME NEW h \in Hosts \ Admins, NEW m \in Months
      PROVE  Used(h, m)' - Used(h, m) =
               (Bit(HoldsSlot(r, h, m)) - Bit(HoldsSlot(req[k], h, m)))
               + (lost'[h][m] - lost[h][m])
  <2>1. Used(h, m)' = Used(h, m) /\ Used(h, m) \in Nat /\ lost[h][m] \in Nat /\ lost' = lost
    BY Amounts DEF Used, IInv
  <2>2. Bit(HoldsSlot(r, h, m)) = 0 /\ Bit(HoldsSlot(req[k], h, m)) = 0
    BY DEF Bit, HoldsSlot
  <2>3. QED BY <2>1, <2>2
<1>4. SlotsAccounted'
  BY <1>3, BalancedCall DEF IInv
<1>5. QED BY <1>1, <1>2, <1>4 DEF IInv

\* Calls that take a slot from a row: one more in the row, one more held.
LEMMA CallTakes ==
  ASSUME IInv, NEW k \in Calls, At(k, "upsert") \/ At(k, "insert") \/ At(k, "retry"),
         Goto(k, "commit"), UNCHANGED <<clock, contest, lost, returned>>,
         NEW n \in 1 .. Limit, Used(req[k].host, req[k].month) = n - 1,
         published' = [published EXCEPT ![req[k].host][req[k].month] = n]
  PROVE  IInv'
<1> DEFINE hk == req[k].host
           mk == req[k].month
<1>1. /\ req[k] \in Request /\ CallOK(req[k]) /\ req[k].contest \in Contests /\ hk \in Hosts
      /\ contest[req[k].contest].status # "none" /\ contest[req[k].contest].host = hk
      /\ Contests # {}
  BY CallFacts DEF At
<1>2. mk \in Months /\ mk = MonthOf[req[k].now] /\ ~req[k].admin
  BY <1>1 DEF CallOK, At
<1>3. PICK r \in Request :
            /\ req' = [req EXCEPT ![k] = r]
            /\ r.step = "commit" /\ r.contest = req[k].contest /\ r.host = hk
            /\ r.month = mk /\ r.now = req[k].now /\ r.admin = req[k].admin
  BY GotoSet DEF IInv, Steps
<1>4. /\ published'[hk][mk] = n /\ n \in (0 .. Limit) \cup {None}
      /\ \A h \in Hosts, m \in Months : <<h, m>> # <<hk, mk>> => published'[h][m] = published[h][m]
      /\ published' \in [Hosts -> [Months -> (0 .. Limit) \cup {None}]]
  BY <1>1, <1>2, Numbers DEF IInv, TypeOK
<1>5. TypeOK'
  BY <1>3, <1>4, CallSet DEF IInv, TypeOK
<1>6. CallsOK'
  <2>1. CallOK(r)
    BY <1>1, <1>2, <1>3 DEF CallOK
  <2>2. n # None
    BY NoneAssumption, Numbers
  <2>3. \A h \in Hosts, m \in Months : published[h][m] # None => published'[h][m] # None
    BY <1>4, <2>2
  <2>4. QED BY <1>1, <1>3, <2>1, <2>3, CallsKept DEF IInv
<1>7. ContestsOK'
  BY DEF IInv, ContestsOK
<1>8. ASSUME NEW h \in Hosts \ Admins, NEW m \in Months
      PROVE  Used(h, m)' - Used(h, m) =
               (Bit(HoldsSlot(r, h, m)) - Bit(HoldsSlot(req[k], h, m)))
               + (lost'[h][m] - lost[h][m])
  <2>1. Used(h, m) \in Nat /\ lost[h][m] \in Nat /\ lost' = lost /\ n \in Nat /\ n # None
    BY Amounts, NoneAssumption, Numbers DEF IInv
  <2>2. Bit(HoldsSlot(req[k], h, m)) = 0
    BY DEF Bit, HoldsSlot, Holds, At
  <2>3. CASE h = hk /\ m = mk
    <3>1. Bit(HoldsSlot(r, h, m)) = 1
      BY <1>2, <1>3, <2>3 DEF Bit, HoldsSlot, Holds
    <3>2. Used(h, m)' = n
      BY <1>4, <2>1, <2>3 DEF Used
    <3>3. QED BY <2>1, <2>2, <2>3, <3>1, <3>2
  <2>4. CASE ~(h = hk /\ m = mk)
    <3>1. Bit(HoldsSlot(r, h, m)) = 0
      BY <1>3, <2>4 DEF Bit, HoldsSlot
    <3>2. Used(h, m)' = Used(h, m)
      BY <1>4, <2>4 DEF Used
    <3>3. QED BY <2>1, <2>2, <3>1, <3>2
  <2>5. QED BY <2>3, <2>4
<1>9. SlotsAccounted'
  BY <1>1, <1>3, <1>5, <1>8, BalancedCall DEF IInv
<1>10. QED BY <1>5, <1>6, <1>7, <1>9 DEF IInv

LEMMA PublishBeginInv ==
  ASSUME IInv, NEW k \in Calls, NEW c \in Contests, PublishBegin(k, c)
  PROVE  IInv'
<1> DEFINE h == contest[c].host
           r == [step |-> IF Counted(h) THEN "upsert" ELSE "commit",
                 contest |-> c, host |-> h, month |-> MonthOf[clock],
                 now |-> clock, admin |-> ~Counted(h)]
<1>1. contest[c].status = "draft" /\ h \in Hosts /\ clock \in Times /\ MonthOf[clock] \in Months
  BY Numbers DEF PublishBegin, IInv, ContestsOK, TypeOK
<1>2. r \in Request
  BY <1>1 DEF Request, Steps
<1>3. At(k, "idle") /\ req' = [req EXCEPT ![k] = r]
  BY DEF PublishBegin, Begin
<1>4. CallOK(r) /\ ~Holds(r) /\ r.contest = c /\ r.host = h /\ r.step # "retry"
  BY <1>1 DEF CallOK, Counted, Holds
<1>5. ~Holds(req[k])
  BY <1>3 DEF At, Holds
<1> HIDE DEF r
<1>6. TypeOK'
  BY <1>2, <1>3, CallSet DEF PublishBegin, IInv, TypeOK
<1>7. QED BY <1>1, <1>2, <1>3, <1>4, <1>5, <1>6, CallMoves DEF PublishBegin

LEMMA TakeInv ==
  ASSUME IInv, NEW k \in Calls, TakeUpsert(k) \/ TakeInsert(k) \/ TakeRetry(k)
  PROVE  IInv'
<1> DEFINE hk == req[k].host
           mk == req[k].month
           row == published[hk][mk]
<1>0. /\ At(k, "upsert") \/ At(k, "insert") \/ At(k, "retry")
      /\ UNCHANGED <<clock, contest, lost, returned>>
  BY DEF TakeUpsert, TakeInsert, TakeRetry
<1>1. /\ req[k] \in Request /\ CallOK(req[k]) /\ req[k].contest \in Contests /\ hk \in Hosts
      /\ contest[req[k].contest].status # "none" /\ contest[req[k].contest].host = hk
      /\ Contests # {}
  BY <1>0, CallFacts DEF At
<1>2. mk \in Months /\ mk = MonthOf[req[k].now] /\ ~req[k].admin
  BY <1>0, <1>1 DEF CallOK, At
<1>3. row \in (0 .. Limit) \cup {None} /\ (At(k, "retry") => row # None)
  BY <1>1, <1>2 DEF IInv, TypeOK, CallsOK
<1>4. ASSUME row # None, row < Limit, AddToRow(k, 1), Goto(k, "commit")  PROVE IInv'
  <2>1. row + 1 \in 1 .. Limit /\ row \in Nat /\ 1 + row = row + 1
    BY <1>3, <1>4, Numbers
  <2>2. published' = [published EXCEPT ![hk][mk] = row + 1]
    BY <1>4, <2>1 DEF AddToRow
  <2>3. Used(hk, mk) = (row + 1) - 1
    BY <1>4, <2>1 DEF Used
  <2>4. QED BY <1>0, <1>4, <2>1, <2>2, <2>3, CallTakes
<1>5. ASSUME row = None, Goto(k, "commit"),
             published' = [published EXCEPT ![req[k].host][req[k].month] = 1]
      PROVE  IInv'
  <2>1. 1 \in 1 .. Limit /\ Used(hk, mk) = 1 - 1
    BY <1>5, Numbers DEF Used
  <2>2. QED BY <1>0, <1>5, <2>1, CallTakes
<1>6. ASSUME Goto(k, "insert") \/ (Goto(k, "retry") /\ row # None), UNCHANGED published
      PROVE  IInv'
  <2>1. PICK r \in Request :
            /\ req' = [req EXCEPT ![k] = r]
            /\ r.step \in {"insert", "retry"} /\ r.contest = req[k].contest /\ r.host = hk
            /\ r.month = mk /\ r.now = req[k].now /\ r.admin = req[k].admin
            /\ r.step = "retry" => row # None
    BY <1>6, GotoSet DEF IInv, Steps
  <2>2. CallOK(r) /\ ~Holds(r) /\ ~Holds(req[k])
    BY <1>0, <1>1, <1>2, <2>1 DEF CallOK, Holds, At
  <2>3. TypeOK'
    BY <1>0, <1>6, <2>1, CallSet DEF IInv, TypeOK
  <2>4. QED BY <1>0, <1>1, <1>6, <2>1, <2>2, <2>3, CallMoves
<1>7. ASSUME Done(k), UNCHANGED published  PROVE IInv'
  <2>1. CallOK(Idle) /\ ~Holds(Idle) /\ ~Holds(req[k]) /\ Idle.step = "idle"
    BY <1>0 DEF CallOK, Holds, At, Idle
  <2>2. Idle \in Request /\ req' = [req EXCEPT ![k] = Idle]
    BY <1>7, DoneSet
  <2>3. TypeOK'
    BY <1>0, <1>7, <2>2, CallSet DEF IInv, TypeOK
  <2>4. QED BY <1>0, <1>1, <1>7, <2>1, <2>2, <2>3, CallMoves
<1>8. CASE TakeUpsert(k)
  BY <1>4, <1>6, <1>8 DEF TakeUpsert
<1>9. CASE TakeInsert(k)
  BY <1>5, <1>6, <1>9 DEF TakeInsert
<1>10. CASE TakeRetry(k)
  <2>1. row # None
    BY <1>3, <1>10 DEF TakeRetry
  <2>2. QED BY <1>4, <1>7, <1>10, <2>1 DEF TakeRetry
<1>11. QED BY <1>8, <1>9, <1>10

LEMMA PublishCommitInv ==
  ASSUME IInv, NEW k \in Calls, PublishCommit(k)
  PROVE  IInv'
<1> DEFINE c == req[k].contest
           hk == req[k].host
           mk == req[k].month
<1>0. At(k, "commit") /\ UNCHANGED <<clock, published, lost, returned>>
  BY DEF PublishCommit
<1>1. /\ req[k] \in Request /\ CallOK(req[k]) /\ c \in Contests /\ hk \in Hosts
      /\ contest[c].status # "none" /\ contest[c].host = hk /\ Contests # {}
  BY <1>0, CallFacts DEF At
<1>2. mk \in Months /\ mk = MonthOf[req[k].now] /\ (hk \notin Admins => ~req[k].admin)
  BY <1>0, <1>1 DEF CallOK, At
<1>3. CASE contest[c].status = "draft"
  <2>1. /\ contest' = [contest EXCEPT ![c].status = "published",
                                      ![c].publishedAt = req[k].now]
        /\ Idle \in Request /\ req' = [req EXCEPT ![k] = Idle]
    BY <1>3, DoneSet DEF PublishCommit
  <2>2. /\ contest' \in [Contests -> ContestDoc]
        /\ contest'[c].status = "published" /\ contest'[c].publishedAt = req[k].now
        /\ contest'[c].host = hk
        /\ \A d \in Contests \ {c} : contest'[d] = contest[d]
    <3>1. contest \in [Contests -> ContestDoc] /\ req[k].now \in Times
      BY <1>1 DEF IInv, TypeOK, Request
    <3>2. QED BY <1>1, <2>1, <3>1 DEF ContestDoc, Status
  <2>3. TypeOK'
    BY <1>0, <2>1, <2>2, CallSet DEF IInv, TypeOK
  <2>4. CallsOK'
    <3>1. CallOK(Idle) /\ Idle.step = "idle"
      BY DEF CallOK, Idle
    <3>2. \A d \in Contests : contest[d].status # "none" =>
             contest'[d].status # "none" /\ contest'[d].host = contest[d].host
      BY <1>1, <2>2
    <3>3. QED BY <1>0, <2>1, <3>1, <3>2, CallsKept DEF IInv
  <2>5. c \notin returned /\ req[k].now \in Times
    BY <1>1, <1>3 DEF IInv, ContestsOK, Request
  <2>6. ContestsOK'
    <3>1. ASSUME NEW d \in Contests
          PROVE  /\ contest'[d].status # "none" => contest'[d].host \in Hosts
                 /\ contest'[d].status \in {"published", "cancelled"} => contest'[d].publishedAt \in Times
                 /\ d \in returned' => contest'[d].status = "cancelled"
      <4>1. CASE d = c
        BY <1>0, <1>1, <2>2, <2>5, <4>1
      <4>2. CASE d # c
        BY <1>0, <2>2, <4>2 DEF IInv, ContestsOK
      <4>3. QED BY <4>1, <4>2
    <3>2. QED BY <3>1 DEF ContestsOK
  <2>7. ASSUME NEW h \in Hosts \ Admins, NEW m \in Months
        PROVE  Used(h, m)' - Used(h, m) =
                 (Bit(HoldsSlot(Idle, h, m)) - Bit(HoldsSlot(req[k], h, m)))
                 + (Bit(c \in Charged(h, m)') - Bit(c \in Charged(h, m)))
                 + (lost'[h][m] - lost[h][m])
    <3>1. Used(h, m)' = Used(h, m) /\ Used(h, m) \in Nat /\ lost' = lost /\ lost[h][m] \in Nat
      BY <1>0, Amounts DEF Used, IInv
    <3>2. Bit(HoldsSlot(Idle, h, m)) = 0 /\ Bit(c \in Charged(h, m)) = 0
      BY <1>3 DEF Bit, HoldsSlot, Holds, Idle, Charged
    <3>3. HoldsSlot(req[k], h, m) <=> c \in Charged(h, m)'
      BY <1>0, <1>1, <1>2, <2>2, <2>5 DEF HoldsSlot, Holds, At, Charged
    <3>4. QED BY <3>1, <3>2, <3>3 DEF Bit
  <2>8. SlotsAccounted'
    <3>1. TypeOK /\ SlotsAccounted
      BY DEF IInv
    <3>2. \A d \in Contests \ {c} : contest'[d] = contest[d] /\ (d \in returned' <=> d \in returned)
      BY <1>0, <2>2
    <3> HIDE DEF c
    <3>3. QED BY <1>1, <2>1, <2>3, <2>7, <3>1, <3>2, Balanced
  <2>9. QED BY <2>3, <2>4, <2>6, <2>8 DEF IInv
<1>4. CASE contest[c].status # "draft" /\ req[k].admin
  <2>1. Idle \in Request /\ req' = [req EXCEPT ![k] = Idle] /\ UNCHANGED contest
    BY <1>4, DoneSet DEF PublishCommit
  <2>2. CallOK(Idle) /\ ~Holds(Idle) /\ ~Holds(req[k]) /\ Idle.step = "idle"
    BY <1>0, <1>4 DEF CallOK, Holds, At, Idle
  <2>3. TypeOK'
    BY <1>0, <2>1, CallSet DEF IInv, TypeOK
  <2>4. QED BY <1>0, <1>1, <2>1, <2>2, <2>3, CallMoves
<1>5. CASE contest[c].status # "draft" /\ ~req[k].admin
  <2>1. UNCHANGED contest /\ Goto(k, "giveBack")
    BY <1>5 DEF PublishCommit
  <2>2. PICK r \in Request :
            /\ req' = [req EXCEPT ![k] = r]
            /\ r.step = "giveBack" /\ r.contest = req[k].contest /\ r.host = hk
            /\ r.month = mk /\ r.now = req[k].now /\ r.admin = req[k].admin
    BY <2>1, GotoSet DEF IInv, Steps
  <2>3. TypeOK'
    BY <1>0, <2>1, <2>2, CallSet DEF IInv, TypeOK
  <2>4. CallsOK'
    <3>1. CallOK(r)
      BY <1>1, <1>2, <2>2 DEF CallOK
    <3>2. QED BY <1>0, <1>1, <2>1, <2>2, <3>1, CallsKept DEF IInv
  <2>5. ContestsOK'
    BY <1>0, <2>1 DEF IInv, ContestsOK
  <2>6. ASSUME NEW h \in Hosts \ Admins, NEW m \in Months
        PROVE  Used(h, m)' - Used(h, m) =
                 (Bit(HoldsSlot(r, h, m)) - Bit(HoldsSlot(req[k], h, m)))
                 + (lost'[h][m] - lost[h][m])
    <3>1. Used(h, m)' = Used(h, m) /\ Used(h, m) \in Nat /\ lost' = lost /\ lost[h][m] \in Nat
      BY <1>0, Amounts DEF Used, IInv
    <3>2. HoldsSlot(r, h, m) <=> HoldsSlot(req[k], h, m)
      BY <1>0, <1>5, <2>2 DEF HoldsSlot, Holds, At
    <3>3. QED BY <3>1, <3>2 DEF Bit
  <2>7. SlotsAccounted'
    BY <1>0, <1>1, <2>1, <2>2, <2>3, <2>6, BalancedCall DEF IInv
  <2>8. QED BY <2>3, <2>4, <2>5, <2>7 DEF IInv
<1>6. QED BY <1>3, <1>4, <1>5

LEMMA GiveSlotBackInv ==
  ASSUME IInv, NEW k \in Calls, GiveSlotBack(k)
  PROVE  IInv'
<1> DEFINE hk == req[k].host
           mk == req[k].month
           row == published[hk][mk]
<1>0. At(k, "giveBack") /\ UNCHANGED <<clock, contest, lost, returned>>
  BY DEF GiveSlotBack
<1>1. CallOK(req[k]) /\ hk \in Hosts /\ mk \in Months /\ Contests # {}
  BY <1>0, CallFacts DEF At, CallOK
<1>2. row \in (0 .. Limit) \cup {None} /\ Used(hk, mk) \in Nat
  BY <1>1, Amounts DEF IInv, TypeOK
<1>3. Idle \in Request /\ req' = [req EXCEPT ![k] = Idle]
  BY DoneSet DEF GiveSlotBack
<1>4. /\ published' \in [Hosts -> [Months -> (0 .. Limit) \cup {None}]]
      /\ Used(hk, mk) > 0 => published'[hk][mk] = row - 1 /\ row \in 1 .. Limit
      /\ Used(hk, mk) = 0 => UNCHANGED published
      /\ \A h \in Hosts, m \in Months : <<h, m>> # <<hk, mk>> => published'[h][m] = published[h][m]
  <2>1. CASE Used(hk, mk) > 0
    <3>1. row \in 1 .. Limit /\ -1 + row = row - 1 /\ row - 1 \in 0 .. Limit
      BY <1>2, <2>1, Numbers DEF Used
    <3>2. published' = [published EXCEPT ![hk][mk] = row - 1]
      BY <2>1, <3>1 DEF GiveSlotBack, AddToRow
    <3>3. QED BY <1>1, <2>1, <3>1, <3>2 DEF IInv, TypeOK
  <2>2. CASE Used(hk, mk) = 0
    BY <2>2 DEF GiveSlotBack, IInv, TypeOK
  <2>3. QED BY <1>2, <2>1, <2>2
<1>5. TypeOK'
  BY <1>0, <1>3, <1>4, CallSet DEF IInv, TypeOK
<1>6. CallsOK'
  <2>1. CallOK(Idle) /\ Idle.step = "idle"
    BY DEF CallOK, Idle
  <2>2. Used(hk, mk) > 0 => published'[hk][mk] # None
    BY <1>4, NoneAssumption, Numbers
  <2>3. \A h \in Hosts, m \in Months : published[h][m] # None => published'[h][m] # None
    BY <1>2, <1>4, <2>2
  <2>4. QED BY <1>0, <1>3, <2>1, <2>3, CallsKept DEF IInv
<1>7. ContestsOK'
  BY <1>0 DEF IInv, ContestsOK
<1>8. hk \notin Admins => Used(hk, mk) > 0
  \* The slot this call holds is part of the count.
  <2>1. k \in Holding(hk, mk)
    BY <1>0 DEF Holding, HoldsSlot, Holds, At
  <2>2. Cardinality(Holding(hk, mk)) # 0
    BY <2>1, FiniteParts, FS_EmptySet
  <2>3. hk \notin Admins => Used(hk, mk) = Cardinality(Charged(hk, mk))
                                            + Cardinality(Holding(hk, mk)) + lost[hk][mk]
    BY <1>1 DEF IInv, SlotsAccounted
  <2>4. lost[hk][mk] \in Nat
    BY <1>1, Amounts DEF IInv
  <2>5. QED BY <1>2, <2>2, <2>3, <2>4, FiniteParts
<1>9. ASSUME NEW h \in Hosts \ Admins, NEW m \in Months
      PROVE  Used(h, m)' - Used(h, m) =
               (Bit(HoldsSlot(Idle, h, m)) - Bit(HoldsSlot(req[k], h, m)))
               + (lost'[h][m] - lost[h][m])
  <2>1. Used(h, m) \in Nat /\ lost[h][m] \in Nat /\ lost' = lost
    BY <1>0, Amounts DEF IInv
  <2>2. Bit(HoldsSlot(Idle, h, m)) = 0
    BY DEF Bit, HoldsSlot, Holds, Idle
  <2>3. CASE h = hk /\ m = mk
    <3>1. Bit(HoldsSlot(req[k], h, m)) = 1
      BY <1>0, <2>3 DEF Bit, HoldsSlot, Holds, At
    <3>2. published'[h][m] = row - 1 /\ row \in 1 .. Limit
      BY <1>4, <1>8, <2>3
    <3>3. row # None /\ row - 1 # None /\ row \in Nat
      BY <3>2, NoneAssumption, Numbers
    <3>4. Used(h, m) = row /\ Used(h, m)' = row - 1
      BY <2>3, <3>2, <3>3 DEF Used
    <3>5. QED BY <2>1, <2>2, <3>1, <3>3, <3>4
  <2>4. CASE ~(h = hk /\ m = mk)
    <3>1. Bit(HoldsSlot(req[k], h, m)) = 0
      BY <2>4 DEF Bit, HoldsSlot
    <3>2. Used(h, m)' = Used(h, m)
      BY <1>4, <2>4 DEF Used
    <3>3. QED BY <2>1, <2>2, <3>1, <3>2
  <2>5. QED BY <2>3, <2>4
<1>10. SlotsAccounted'
  BY <1>0, <1>1, <1>3, <1>5, <1>9, BalancedCall DEF IInv
<1>11. QED BY <1>5, <1>6, <1>7, <1>10 DEF IInv

LEMMA CancelBeginInv ==
  ASSUME IInv, NEW k \in Calls, NEW c \in Contests, NEW admin \in BOOLEAN,
         CancelBegin(k, c, admin)
  PROVE  IInv'
<1> DEFINE h == contest[c].host
           r == [Idle EXCEPT !.step = "cancelEarly", !.contest = c, !.host = h,
                             !.now = clock, !.admin = admin]
<1>1. contest[c].status = "published" /\ h \in Hosts /\ clock \in Times
  <2>1. contest[c].status = "published" /\ clock \in Times
    BY DEF CancelBegin, IInv, TypeOK
  <2>2. QED BY <2>1 DEF IInv, ContestsOK
<1>2. At(k, "idle") /\ req' = [req EXCEPT ![k] = r]
  BY DEF CancelBegin, Begin
<1> HIDE DEF h
<1>3. r \in [step: {"cancelEarly"}, contest: {c}, host: {h}, month: {None},
             now: Times, admin: BOOLEAN]
  BY <1>1 DEF Idle
<1> HIDE DEF r
<1>4. r \in Request
  BY <1>1, <1>3 DEF Request, Steps
<1>5. /\ r.step = "cancelEarly" /\ r.contest = c /\ r.host = h
      /\ CallOK(r) /\ ~Holds(r) /\ ~Holds(req[k])
  BY <1>1, <1>2, <1>3 DEF CallOK, Holds, At
<1>6. TypeOK'
  BY <1>2, <1>4, CallSet DEF CancelBegin, IInv, TypeOK
<1>7. QED BY <1>1, <1>2, <1>4, <1>5, <1>6, CallMoves DEF CancelBegin, h

\* Contest c becomes cancelled and nothing else changes in the contests.
LEMMA Cancelled ==
  ASSUME IInv, NEW c \in Contests, contest[c].status = "published",
         contest' = [contest EXCEPT ![c].status = "cancelled"]
  PROVE  /\ contest' \in [Contests -> ContestDoc]
         /\ contest'[c].status = "cancelled"
         /\ contest'[c].host = contest[c].host /\ contest'[c].publishedAt = contest[c].publishedAt
         /\ \A d \in Contests \ {c} : contest'[d] = contest[d]
         /\ returned' \in {returned, returned \cup {c}} => ContestsOK'
         /\ \A d \in Contests : contest[d].status # "none" =>
                contest'[d].status # "none" /\ contest'[d].host = contest[d].host
<1>1. contest \in [Contests -> ContestDoc]
  BY DEF IInv, TypeOK
<1>2. /\ contest' \in [Contests -> ContestDoc]
      /\ contest'[c].status = "cancelled"
      /\ contest'[c].host = contest[c].host /\ contest'[c].publishedAt = contest[c].publishedAt
      /\ \A d \in Contests \ {c} : contest'[d] = contest[d]
  BY <1>1 DEF ContestDoc, Status
<1>3. ASSUME returned' \in {returned, returned \cup {c}}  PROVE ContestsOK'
  <2>1. ASSUME NEW d \in Contests
        PROVE  /\ contest'[d].status # "none" => contest'[d].host \in Hosts
               /\ contest'[d].status \in {"published", "cancelled"} => contest'[d].publishedAt \in Times
               /\ d \in returned' => contest'[d].status = "cancelled"
    <3>1. CASE d = c
      BY <1>2, <3>1 DEF IInv, ContestsOK
    <3>2. CASE d # c
      BY <1>2, <1>3, <3>2 DEF IInv, ContestsOK
    <3>3. QED BY <3>1, <3>2
  <2>2. QED BY <2>1 DEF ContestsOK
<1>4. QED BY <1>2, <1>3

LEMMA CancelEarlyInv ==
  ASSUME IInv, NEW k \in Calls, CancelEarly(k)
  PROVE  IInv'
<1> DEFINE c == req[k].contest
           hk == req[k].host
<1>0. At(k, "cancelEarly") /\ UNCHANGED <<clock, published, lost>>
  BY DEF CancelEarly
<1>1. /\ req[k] \in Request /\ CallOK(req[k]) /\ c \in Contests /\ hk \in Hosts
      /\ contest[c].status # "none" /\ contest[c].host = hk /\ Contests # {}
  BY <1>0, CallFacts DEF At
<1>2. ASSUME CanCancel(k), returned' = returned \cup {c},
             contest' = [contest EXCEPT ![c].status = "cancelled"],
             req' = [req EXCEPT ![k].step = "giveBack",
                                ![k].month = MonthOf[contest[c].publishedAt]]
      PROVE  IInv'
  <2> DEFINE r == [req[k] EXCEPT !.step = "giveBack", !.month = MonthOf[contest[c].publishedAt]]
  <2>1. contest[c].status = "published"
    BY <1>2 DEF CanCancel
  <2>2. c \notin returned /\ MonthOf[contest[c].publishedAt] \in Months
    BY <1>1, <2>1, Numbers DEF IInv, ContestsOK
  <2>3. /\ r \in Request /\ r.step = "giveBack" /\ r.contest = c /\ r.host = hk
        /\ r.month = MonthOf[contest[c].publishedAt]
    BY <1>1, <2>2 DEF Request, Steps
  <2>4. req' = [req EXCEPT ![k] = r]
    BY <1>2
  <2> HIDE DEF r
  <2>5. /\ contest' \in [Contests -> ContestDoc]
        /\ contest'[c].status = "cancelled"
        /\ contest'[c].host = hk /\ contest'[c].publishedAt = contest[c].publishedAt
        /\ \A d \in Contests \ {c} : contest'[d] = contest[d]
        /\ ContestsOK'
        /\ \A d \in Contests : contest[d].status # "none" =>
               contest'[d].status # "none" /\ contest'[d].host = contest[d].host
    BY <1>1, <1>2, <2>1, Cancelled
  <2>6. TypeOK'
    <3>1. TypeOK
      BY DEF IInv
    <3>2. returned' \in SUBSET Contests
      BY <1>1, <1>2, <3>1 DEF TypeOK
    <3>3. req' \in [Calls -> Request]
      BY <2>3, <2>4, <3>1, CallSet
    <3>4. QED BY <1>0, <2>5, <3>1, <3>2, <3>3 DEF TypeOK
  <2>7. CallsOK'
    <3>1. CallOK(r)
      BY <1>1, <2>2, <2>3 DEF CallOK
    <3>2. TypeOK /\ CallsOK
      BY DEF IInv
    <3> HIDE DEF c, hk
    <3>3. QED BY <1>0, <1>1, <2>3, <2>4, <2>5, <3>1, <3>2, CallsKept
  <2>8. ASSUME NEW h \in Hosts \ Admins, NEW m \in Months
        PROVE  Used(h, m)' - Used(h, m) =
                 (Bit(HoldsSlot(r, h, m)) - Bit(HoldsSlot(req[k], h, m)))
                 + (Bit(c \in Charged(h, m)') - Bit(c \in Charged(h, m)))
                 + (lost'[h][m] - lost[h][m])
    <3>1. Used(h, m)' = Used(h, m) /\ Used(h, m) \in Nat /\ lost' = lost /\ lost[h][m] \in Nat
      BY <1>0, Amounts DEF Used, IInv
    <3>2. ~HoldsSlot(req[k], h, m) /\ c \notin Charged(h, m)'
      BY <1>0, <1>2 DEF HoldsSlot, Holds, At, Charged
    <3>3. HoldsSlot(r, h, m) <=> c \in Charged(h, m)
      <4>1. HoldsSlot(r, h, m) <=> hk = h /\ MonthOf[contest[c].publishedAt] = m
        BY <2>3 DEF HoldsSlot, Holds
      <4>2. c \in Charged(h, m) <=> hk = h /\ MonthOf[contest[c].publishedAt] = m
        BY <1>1, <2>1, <2>2 DEF Charged
      <4>3. QED BY <4>1, <4>2
    <3>4. QED BY <3>1, <3>2, <3>3 DEF Bit
  <2>9. SlotsAccounted'
    <3>1. TypeOK /\ SlotsAccounted
      BY DEF IInv
    <3>2. \A d \in Contests \ {c} : contest'[d] = contest[d] /\ (d \in returned' <=> d \in returned)
      BY <1>2, <2>5
    <3> HIDE DEF c
    <3>3. QED BY <1>1, <2>3, <2>4, <2>6, <2>8, <3>1, <3>2, Balanced
  <2>10. QED BY <2>5, <2>6, <2>7, <2>9 DEF IInv
<1>3. ASSUME Goto(k, "cancelLate"), UNCHANGED <<contest, returned>>
      PROVE  IInv'
  <2>1. PICK r \in Request :
            /\ req' = [req EXCEPT ![k] = r]
            /\ r.step = "cancelLate" /\ r.contest = c /\ r.host = hk
    BY <1>3, GotoSet DEF IInv, Steps
  <2>2. CallOK(r) /\ ~Holds(r) /\ ~Holds(req[k])
    BY <1>0, <1>1, <2>1 DEF CallOK, Holds, At
  <2>3. TypeOK'
    BY <1>0, <1>3, <2>1, CallSet DEF IInv, TypeOK
  <2>4. QED BY <1>0, <1>1, <1>3, <2>1, <2>2, <2>3, CallMoves
<1>4. QED BY <1>2, <1>3 DEF CancelEarly

LEMMA CancelLateInv ==
  ASSUME IInv, NEW k \in Calls, CancelLate(k)
  PROVE  IInv'
<1> DEFINE c == req[k].contest
<1>0. At(k, "cancelLate") /\ UNCHANGED <<clock, published, lost, returned>>
  BY DEF CancelLate
<1>1. c \in Contests /\ contest[c].status # "none" /\ Contests # {}
  BY <1>0, CallFacts DEF At
<1>2. Idle \in Request /\ req' = [req EXCEPT ![k] = Idle]
  BY DoneSet DEF CancelLate
<1>3. CallOK(Idle) /\ ~Holds(Idle) /\ ~Holds(req[k]) /\ Idle.step = "idle"
  BY <1>0 DEF CallOK, Holds, At, Idle
<1>4. CASE CanCancel(k)
  <2>1. contest[c].status = "published" /\ contest' = [contest EXCEPT ![c].status = "cancelled"]
    BY <1>4 DEF CanCancel, CancelLate
  <2>2. /\ contest' \in [Contests -> ContestDoc]
        /\ contest'[c].status = "cancelled"
        /\ contest'[c].host = contest[c].host /\ contest'[c].publishedAt = contest[c].publishedAt
        /\ \A d \in Contests \ {c} : contest'[d] = contest[d]
        /\ ContestsOK'
        /\ \A d \in Contests : contest[d].status # "none" =>
               contest'[d].status # "none" /\ contest'[d].host = contest[d].host
    BY <1>0, <1>1, <2>1, Cancelled
  <2>3. TypeOK'
    BY <1>0, <1>2, <2>2, CallSet DEF IInv, TypeOK
  <2>4. CallsOK'
    BY <1>0, <1>2, <1>3, <2>2, CallsKept DEF IInv
  <2>5. ASSUME NEW h \in Hosts \ Admins, NEW m \in Months
        PROVE  Used(h, m)' - Used(h, m) =
                 (Bit(HoldsSlot(Idle, h, m)) - Bit(HoldsSlot(req[k], h, m)))
                 + (Bit(c \in Charged(h, m)') - Bit(c \in Charged(h, m)))
                 + (lost'[h][m] - lost[h][m])
    <3>1. Used(h, m)' = Used(h, m) /\ Used(h, m) \in Nat /\ lost' = lost /\ lost[h][m] \in Nat
      BY <1>0, Amounts DEF Used, IInv
    <3>2. ~HoldsSlot(req[k], h, m) /\ ~HoldsSlot(Idle, h, m)
      BY <1>3 DEF HoldsSlot
    <3>3. c \in Charged(h, m)' <=> c \in Charged(h, m)
      BY <1>0, <1>1, <2>1, <2>2 DEF Charged
    <3>4. QED BY <3>1, <3>2, <3>3 DEF Bit
  <2>6. SlotsAccounted'
    <3>1. TypeOK /\ SlotsAccounted
      BY DEF IInv
    <3>2. \A d \in Contests \ {c} : contest'[d] = contest[d] /\ (d \in returned' <=> d \in returned)
      BY <1>0, <2>2
    <3> HIDE DEF c
    <3>3. QED BY <1>1, <1>2, <2>3, <2>5, <3>1, <3>2, Balanced
  <2>7. QED BY <2>2, <2>3, <2>4, <2>6 DEF IInv
<1>5. CASE ~CanCancel(k)
  <2>1. UNCHANGED contest
    BY <1>5 DEF CancelLate
  <2>2. TypeOK'
    BY <1>0, <1>2, <2>1, CallSet DEF IInv, TypeOK
  <2>3. QED BY <1>0, <1>1, <1>2, <1>3, <2>1, <2>2, CallMoves
<1>6. QED BY <1>4, <1>5

LEMMA FailInv ==
  ASSUME IInv, NEW k \in Calls, Fail(k)
  PROVE  IInv'
<1> DEFINE hk == req[k].host
           mk == req[k].month
<1>0. ~At(k, "idle") /\ UNCHANGED <<clock, contest, published, returned>>
  BY DEF Fail
<1>1. CallOK(req[k]) /\ hk \in Hosts /\ Contests # {}
  BY <1>0, CallFacts
<1>2. Idle \in Request /\ req' = [req EXCEPT ![k] = Idle]
  BY DoneSet DEF Fail
<1>3. CallOK(Idle) /\ ~Holds(Idle) /\ Idle.step = "idle"
  BY DEF CallOK, Holds, Idle
<1>4. CASE Holds(req[k])
  <2>1. mk \in Months
    BY <1>1, <1>4 DEF CallOK, Holds
  <2>2. lost' = [lost EXCEPT ![hk][mk] = @ + 1]
    BY <1>4 DEF Fail
  <2>3. /\ lost' \in [Hosts -> [Months -> Nat]]
        /\ lost'[hk][mk] = lost[hk][mk] + 1
        /\ \A h \in Hosts, m \in Months : <<h, m>> # <<hk, mk>> => lost'[h][m] = lost[h][m]
    BY <1>1, <2>1, <2>2 DEF IInv, TypeOK
  <2>4. TypeOK'
    BY <1>0, <1>2, <2>3, CallSet DEF IInv, TypeOK
  <2>5. CallsOK' /\ ContestsOK'
    BY <1>0, <1>2, <1>3, CallsKept DEF IInv, ContestsOK
  <2>6. ASSUME NEW h \in Hosts \ Admins, NEW m \in Months
        PROVE  Used(h, m)' - Used(h, m) =
                 (Bit(HoldsSlot(Idle, h, m)) - Bit(HoldsSlot(req[k], h, m)))
                 + (lost'[h][m] - lost[h][m])
    <3>1. Used(h, m)' = Used(h, m) /\ Used(h, m) \in Nat /\ lost[h][m] \in Nat
      BY <1>0, Amounts DEF Used, IInv
    <3>2. Bit(HoldsSlot(Idle, h, m)) = 0
      BY <1>3 DEF Bit, HoldsSlot
    <3>3. CASE h = hk /\ m = mk
      <4>1. Bit(HoldsSlot(req[k], h, m)) = 1
        BY <1>4, <3>3 DEF Bit, HoldsSlot
      <4>2. QED BY <2>3, <3>1, <3>2, <3>3, <4>1
    <3>4. CASE ~(h = hk /\ m = mk)
      <4>1. Bit(HoldsSlot(req[k], h, m)) = 0
        BY <3>4 DEF Bit, HoldsSlot
      <4>2. QED BY <2>3, <3>1, <3>2, <3>4, <4>1
    <3>5. QED BY <3>3, <3>4
  <2>7. SlotsAccounted'
    BY <1>0, <1>1, <1>2, <2>4, <2>6, BalancedCall DEF IInv
  <2>8. QED BY <2>4, <2>5, <2>7 DEF IInv
<1>5. CASE ~Holds(req[k])
  <2>1. UNCHANGED lost
    BY <1>5 DEF Fail
  <2>2. TypeOK'
    BY <1>0, <1>2, <2>1, CallSet DEF IInv, TypeOK
  <2>3. QED BY <1>0, <1>1, <1>2, <1>3, <1>5, <2>1, <2>2, CallMoves
<1>6. QED BY <1>4, <1>5

\* A contest changes without being published or cancelled.
LEMMA ContestMoves ==
  ASSUME IInv, NEW c \in Contests, NEW d \in ContestDoc,
         contest' = [contest EXCEPT ![c] = d],
         UNCHANGED <<clock, published, req, lost, returned>>,
         d.status # "none" => d.host \in Hosts,
         contest[c].status # "none" => d.status # "none" /\ d.host = contest[c].host,
         \/ /\ d.status = contest[c].status /\ d.publishedAt = contest[c].publishedAt
            /\ d.host = contest[c].host
         \/ {contest[c].status, d.status} \cap {"published", "cancelled"} = {}
  PROVE  IInv'
<1>1. /\ contest' \in [Contests -> ContestDoc] /\ contest'[c] = d
      /\ \A e \in Contests \ {c} : contest'[e] = contest[e]
  BY DEF IInv, TypeOK
<1>2. TypeOK'
  BY <1>1 DEF IInv, TypeOK
<1>3. \A e \in Contests : contest[e].status # "none" =>
         contest'[e].status # "none" /\ contest'[e].host = contest[e].host
  BY <1>1
<1>4. CallsOK'
  BY <1>3 DEF IInv, CallsOK, CallOK, At
<1>5. ASSUME NEW e \in Contests
      PROVE  /\ contest'[e].status # "none" => contest'[e].host \in Hosts
             /\ contest'[e].status \in {"published", "cancelled"} => contest'[e].publishedAt \in Times
             /\ e \in returned' => contest'[e].status = "cancelled"
  <2>1. CASE e = c
    BY <1>1, <2>1 DEF IInv, ContestsOK
  <2>2. CASE e # c
    BY <1>1, <2>2 DEF IInv, ContestsOK
  <2>3. QED BY <2>1, <2>2
<1>6. ASSUME NEW h \in Hosts \ Admins, NEW m \in Months
      PROVE  Charged(h, m)' = Charged(h, m)
  <2>1. ASSUME NEW e \in Contests
        PROVE  /\ contest'[e].host = h
               /\ contest'[e].status \in {"published", "cancelled"}
               /\ e \notin returned'
               /\ MonthOf[contest'[e].publishedAt] = m
               <=> e \in Charged(h, m)
    <3>1. CASE e = c
      BY <1>1, <3>1 DEF Charged
    <3>2. CASE e # c
      BY <1>1, <3>2 DEF Charged
    <3>3. QED BY <3>1, <3>2
  <2>2. QED BY <2>1 DEF Charged
<1>7. SlotsAccounted'
  BY <1>6, BalancedContest DEF IInv
<1>8. QED BY <1>2, <1>4, <1>5, <1>7 DEF IInv, ContestsOK

LEMMA ContestStepInv ==
  ASSUME IInv, NEW c \in Contests,
         \/ \E h \in Hosts : CreateDraft(c, h)
         \/ \E t \in StartTimes \cup {None} : UpdateDetails(c, t)
         \/ DeleteDraft(c) \/ EntrantsChange(c) \/ Close(c)
  PROVE  IInv'
<1>0. /\ contest[c] \in ContestDoc /\ (contest[c].status # "none" => contest[c].host \in Hosts)
      /\ UNCHANGED <<clock, published, req, lost, returned>>
  BY DEF IInv, TypeOK, ContestsOK, CreateDraft, UpdateDetails, DeleteDraft,
         EntrantsChange, Close
<1>1. ASSUME NEW h \in Hosts, CreateDraft(c, h)  PROVE IInv'
  <2> DEFINE d == [NoContest EXCEPT !.status = "draft", !.host = h]
  <2>1. d \in ContestDoc /\ d.status = "draft" /\ d.host = h
    BY DEF NoContest, ContestDoc, Status
  <2>2. contest' = [contest EXCEPT ![c] = d] /\ contest[c].status = "none"
    BY <1>1 DEF CreateDraft
  <2> HIDE DEF d
  <2>3. QED BY <1>0, <2>1, <2>2, ContestMoves
<1>2. ASSUME NEW t \in StartTimes \cup {None}, UpdateDetails(c, t)  PROVE IInv'
  <2> DEFINE d == [contest[c] EXCEPT !.startAt = t]
  <2>1. /\ d \in ContestDoc /\ d.status = contest[c].status /\ d.host = contest[c].host
        /\ d.publishedAt = contest[c].publishedAt
    BY <1>0, Numbers DEF ContestDoc
  <2>2. contest' = [contest EXCEPT ![c] = d]
    BY <1>2 DEF UpdateDetails
  <2> HIDE DEF d
  <2>3. QED BY <1>0, <2>1, <2>2, ContestMoves
<1>3. CASE DeleteDraft(c)
  <2> DEFINE d == [contest[c] EXCEPT !.status = "deleted"]
  <2>1. d \in ContestDoc /\ d.status = "deleted" /\ d.host = contest[c].host
    BY <1>0 DEF ContestDoc, Status
  <2>2. contest' = [contest EXCEPT ![c] = d] /\ contest[c].status = "draft"
    BY <1>3 DEF DeleteDraft
  <2> HIDE DEF d
  <2>3. QED BY <1>0, <2>1, <2>2, ContestMoves
<1>4. CASE EntrantsChange(c)
  <2> DEFINE d == [contest[c] EXCEPT !.entered = ~@]
  <2>1. /\ d \in ContestDoc /\ d.status = contest[c].status /\ d.host = contest[c].host
        /\ d.publishedAt = contest[c].publishedAt
    BY <1>0 DEF ContestDoc
  <2>2. contest' = [contest EXCEPT ![c] = d]
    BY <1>4 DEF EntrantsChange
  <2> HIDE DEF d
  <2>3. QED BY <1>0, <2>1, <2>2, ContestMoves
<1>5. CASE Close(c)
  <2> DEFINE d == [contest[c] EXCEPT !.finalized = TRUE]
  <2>1. /\ d \in ContestDoc /\ d.status = contest[c].status /\ d.host = contest[c].host
        /\ d.publishedAt = contest[c].publishedAt
    BY <1>0 DEF ContestDoc
  <2>2. contest' = [contest EXCEPT ![c] = d]
    BY <1>5 DEF Close
  <2> HIDE DEF d
  <2>3. QED BY <1>0, <2>1, <2>2, ContestMoves
<1>6. QED BY <1>1, <1>2, <1>3, <1>4, <1>5

LEMMA InvNext == IInv /\ [Next]_vars => IInv'
<1> SUFFICES ASSUME IInv, [Next]_vars PROVE IInv'
  OBVIOUS
<1>1. ASSUME NEW k \in Calls, PublishStep(k)  PROVE IInv'
  BY <1>1, PublishBeginInv, TakeInv, PublishCommitInv, GiveSlotBackInv DEF PublishStep
<1>2. ASSUME NEW k \in Calls, CancelStep(k)  PROVE IInv'
  BY <1>2, CancelBeginInv, CancelEarlyInv, CancelLateInv DEF CancelStep
<1>3. ASSUME NEW k \in Calls, Fail(k)  PROVE IInv'
  BY <1>3, FailInv
<1>4. ASSUME NEW c \in Contests,
             \/ \E h \in Hosts : CreateDraft(c, h)
             \/ \E t \in StartTimes \cup {None} : UpdateDetails(c, t)
             \/ DeleteDraft(c) \/ EntrantsChange(c) \/ Close(c)
      PROVE  IInv'
  BY <1>4, ContestStepInv
<1>5. ASSUME Tick \/ UNCHANGED vars  PROVE IInv'
  <2>1. UNCHANGED <<contest, published, req, lost, returned>> /\ clock' \in Times
    BY <1>5, Numbers DEF Tick, vars, IInv, TypeOK, Times
  <2>2. TypeOK' /\ ContestsOK'
    BY <2>1 DEF IInv, TypeOK, ContestsOK
  <2>3. CallsOK'
    BY <2>1 DEF IInv, CallsOK, CallOK, At
  <2>4. SlotsAccounted'
    BY <2>1 DEF IInv, SlotsAccounted, Used, Charged, Holding
  <2>5. QED BY <2>2, <2>3, <2>4 DEF IInv
<1>6. QED BY <1>1, <1>2, <1>3, <1>4, <1>5 DEF Next

LEMMA InvImplies == IInv => TypeOK /\ SlotsAccounted /\ FreeLimitHeld
<1> SUFFICES ASSUME IInv, NEW h \in Hosts \ Admins, NEW m \in Months
             PROVE  Cardinality(Charged(h, m)) <= Limit
  BY DEF IInv, FreeLimitHeld
<1>1. published[h][m] \in (0 .. Limit) \cup {None}
  BY DEF IInv, TypeOK
<1>2. Used(h, m) <= Limit /\ Used(h, m) \in Nat /\ lost[h][m] \in Nat
  BY <1>1, Numbers, Amounts DEF Used, IInv
<1>3. Used(h, m) = Cardinality(Charged(h, m)) + Cardinality(Holding(h, m)) + lost[h][m]
  BY DEF IInv, SlotsAccounted
<1>4. QED BY <1>2, <1>3, FiniteParts, Numbers

\* Every reachable state is well typed; a row never exceeds the monthly limit.
THEOREM TypeCorrect == Spec => []TypeOK
  BY InvInit, InvNext, InvImplies, PTL DEF Spec

\* The monthly count is always the contests it was used for, plus the slots that
\* publishes and cancels hold between their two writes, plus those lost with a
\* failed request (takeFreeSlot, giveSlotBack, publish and cancel).
THEOREM Accounting == Spec => []SlotsAccounted
  BY InvInit, InvNext, InvImplies, PTL DEF Spec

\* However many publishes and cancels of however many contests run at once, a
\* host who is not an admin has at most `Limit' free contests from any month.
THEOREM LimitHeld == Spec => []FreeLimitHeld
  BY InvInit, InvNext, InvImplies, PTL DEF Spec

=============================================================================
