----------------------------- MODULE FreeSlots -----------------------------
(***************************************************************************)
(* The free contests a host may publish each month, and the life of a      *)
(* contest document around them: createDraft, updateDetails, publish,      *)
(* cancel and deleteDraft of ContestHostingService.                        *)
(*                                                                         *)
(* The monthly count and the contest are two documents, so publish takes a *)
(* slot and then publishes, and cancel cancels and then gives the slot     *)
(* back; any other call, a crash or a new month may come in between.       *)
(***************************************************************************)
EXTENDS Integers, FiniteSets

CONSTANTS
    Hosts,          \* users who host contests
    Admins,         \* the hosts whose role is admin
    Contests,       \* ids of contests that may be created
    Calls,          \* requests that can be in flight at once
    Months,         \* what usageMonth can return
    MonthOf,        \* usageMonth, as a function of the time
    Limit,          \* LIMITS.contest.freePerMonth
    StartTimes,     \* start times a host may set
    Duration,       \* endAt - startAt
    Lead,           \* LIMITS.contest.publishLeadMinutes
    None,           \* a field that is null, a document that is not there
    MaxAge,         \* bound: how long a request may be in flight
    MaxTime,        \* bound: the clock
    MaxLost         \* bound: slots lost by failures in one month of one host

Times == 0 .. MaxTime

ASSUME HostsAssumption == Admins \subseteq Hosts
ASSUME FiniteAssumption == IsFiniteSet(Contests) /\ IsFiniteSet(Calls)
ASSUME NoneAssumption == None \notin Nat \cup Hosts \cup Contests \cup Months
ASSUME MonthAssumption == MonthOf \in [Times -> Months]
ASSUME NumbersAssumption ==
    /\ {Limit, Duration} \subseteq Nat \ {0}
    /\ {Lead, MaxAge, MaxTime, MaxLost} \subseteq Nat
    /\ StartTimes \subseteq Nat

VARIABLES
    clock,      \* the time every server agrees on
    contest,    \* the contest documents
    published,  \* HostUsage.published by host and month; None with no row
    req,        \* the request of each call
    lost,       \* history: slots whose request failed while it held them
    returned    \* history: contests whose early cancel returns their slot

vars == <<clock, contest, published, req, lost, returned>>

-----------------------------------------------------------------------------

Status == {"none", "draft", "published", "cancelled", "deleted"}
Steps == {"idle", "upsert", "insert", "retry", "commit", "giveBack",
          "cancelEarly", "cancelLate"}

ContestDoc == [status: Status, host: Hosts \cup {None}, startAt: Nat \cup {None},
               publishedAt: Times \cup {None}, entered: BOOLEAN, finalized: BOOLEAN]

NoContest == [status |-> "none", host |-> None, startAt |-> None,
              publishedAt |-> None, entered |-> FALSE, finalized |-> FALSE]

\* `host' and `month' name the usage row the call works on.
Request == [step: Steps, contest: Contests \cup {None}, host: Hosts \cup {None},
            month: Months \cup {None}, now: Times, admin: BOOLEAN]

Idle == [step |-> "idle", contest |-> None, host |-> None,
         month |-> None, now |-> 0, admin |-> FALSE]

Init ==
    /\ clock = 0
    /\ contest = [c \in Contests |-> NoContest]
    /\ published = [h \in Hosts |-> [m \in Months |-> None]]
    /\ req = [k \in Calls |-> Idle]
    /\ lost = [h \in Hosts |-> [m \in Months |-> 0]]
    /\ returned = {}

At(k, step) == req[k].step = step
Begin(k, r) == At(k, "idle") /\ req' = [req EXCEPT ![k] = r]
Goto(k, step) == req' = [req EXCEPT ![k].step = step]
Done(k) == req' = [req EXCEPT ![k] = Idle]

Counted(h) == h \notin Admins
\* A start that is null compares as neither past nor future.
StartsAfter(c, now) == contest[c].startAt # None /\ now < contest[c].startAt
EndsAfter(c, now) == contest[c].startAt # None /\ now < contest[c].startAt + Duration
EndedBy(c, now) == contest[c].startAt # None /\ contest[c].startAt + Duration <= now

Used(h, m) == IF published[h][m] = None THEN 0 ELSE published[h][m]

\* $inc on the row of a call.
AddToRow(k, n) ==
    published' = [published EXCEPT ![req[k].host][req[k].month] = n + @]

-----------------------------------------------------------------------------
(* Drafts *)

CreateDraft(c, h) ==
    /\ contest[c].status = "none"
    /\ contest' = [contest EXCEPT ![c] = [NoContest EXCEPT !.status = "draft", !.host = h]]
    /\ UNCHANGED <<clock, published, req, lost, returned>>

\* publishChecks: of the checks, only the one the clock can break is told apart.
ChecksPass(startAt, now) == startAt # None /\ startAt >= now + Lead

\* A draft takes any start; a published contest, before its start, one that
\* still passes the checks.
UpdateDetails(c, t) ==
    /\ \/ contest[c].status = "draft"
       \/ /\ contest[c].status = "published"
          /\ StartsAfter(c, clock)
          /\ ChecksPass(t, clock)
    /\ contest' = [contest EXCEPT ![c].startAt = t]
    /\ UNCHANGED <<clock, published, req, lost, returned>>

DeleteDraft(c) ==
    /\ contest[c].status = "draft"
    /\ contest' = [contest EXCEPT ![c].status = "deleted"]
    /\ UNCHANGED <<clock, published, req, lost, returned>>

-----------------------------------------------------------------------------
(* publish *)

PublishBegin(k, c) ==
    LET h == contest[c].host IN
    /\ contest[c].status = "draft"
    /\ ChecksPass(contest[c].startAt, clock)
    /\ Begin(k, [step |-> IF Counted(h) THEN "upsert" ELSE "commit",
                 contest |-> c, host |-> h, month |-> MonthOf[clock],
                 now |-> clock, admin |-> ~Counted(h)])
    /\ UNCHANGED <<clock, contest, published, lost, returned>>

\* takeFreeSlot: the upsert's filter finds a row below the limit, or finds none
\* and goes on to insert one.
TakeUpsert(k) ==
    LET row == published[req[k].host][req[k].month] IN
    /\ At(k, "upsert")
    /\ IF row # None /\ row < Limit
         THEN AddToRow(k, 1) /\ Goto(k, "commit")
         ELSE Goto(k, "insert") /\ UNCHANGED published
    /\ UNCHANGED <<clock, contest, lost, returned>>

\* The unique index refuses the insert when there is a row by now, full or not.
TakeInsert(k) ==
    /\ At(k, "insert")
    /\ IF published[req[k].host][req[k].month] = None
         THEN /\ published' = [published EXCEPT ![req[k].host][req[k].month] = 1]
              /\ Goto(k, "commit")
         ELSE Goto(k, "retry") /\ UNCHANGED published
    /\ UNCHANGED <<clock, contest, lost, returned>>

\* Refused for good only if the row is still at the limit.
TakeRetry(k) ==
    /\ At(k, "retry")
    /\ IF published[req[k].host][req[k].month] < Limit
         THEN AddToRow(k, 1) /\ Goto(k, "commit")
         ELSE Done(k) /\ UNCHANGED published
    /\ UNCHANGED <<clock, contest, lost, returned>>

\* The update that publishes tests only that the contest is still a draft.
PublishCommit(k) ==
    LET c == req[k].contest IN
    /\ At(k, "commit")
    /\ IF contest[c].status = "draft"
         THEN /\ contest' = [contest EXCEPT ![c].status = "published",
                                            ![c].publishedAt = req[k].now]
              /\ Done(k)
         ELSE /\ IF req[k].admin THEN Done(k) ELSE Goto(k, "giveBack")
              /\ UNCHANGED contest
    /\ UNCHANGED <<clock, published, lost, returned>>

GiveSlotBack(k) ==
    /\ At(k, "giveBack")
    /\ IF Used(req[k].host, req[k].month) > 0
         THEN AddToRow(k, -1) ELSE UNCHANGED published
    /\ Done(k)
    /\ UNCHANGED <<clock, contest, lost, returned>>

-----------------------------------------------------------------------------
(* cancel *)

\* By its host, or by an admin.
CancelBegin(k, c, admin) ==
    LET h == contest[c].host IN
    /\ contest[c].status = "published"
    /\ Counted(h) \/ admin
    /\ Begin(k, [Idle EXCEPT !.step = "cancelEarly", !.contest = c, !.host = h,
                             !.now = clock, !.admin = admin])
    /\ UNCHANGED <<clock, contest, published, lost, returned>>

CanCancel(k) ==
    LET c == req[k].contest IN
    /\ contest[c].status = "published"
    /\ ~contest[c].finalized
    /\ req[k].admin \/ StartsAfter(c, req[k].now)

\* Mutant: the slot goes back to the month of the cancel.
CancelEarlyThisMonth(k) ==
    LET c == req[k].contest IN
    /\ At(k, "cancelEarly")
    /\ IF CanCancel(k) /\ ~contest[c].entered /\ StartsAfter(c, req[k].now)
         THEN /\ contest' = [contest EXCEPT ![c].status = "cancelled"]
              /\ req' = [req EXCEPT ![k].step = "giveBack",
                                    ![k].month = MonthOf[req[k].now]]
              /\ returned' = returned \cup {c}
         ELSE Goto(k, "cancelLate") /\ UNCHANGED <<contest, returned>>
    /\ UNCHANGED <<clock, published, lost>>

\* The slot goes back to the month the contest was published in.
CancelEarly(k) ==
    LET c == req[k].contest IN
    /\ At(k, "cancelEarly")
    /\ IF CanCancel(k) /\ ~contest[c].entered /\ StartsAfter(c, req[k].now)
         THEN /\ contest' = [contest EXCEPT ![c].status = "cancelled"]
              /\ req' = [req EXCEPT ![k].step = "giveBack",
                                    ![k].month = MonthOf[contest[c].publishedAt]]
              /\ returned' = returned \cup {c}
         ELSE Goto(k, "cancelLate") /\ UNCHANGED <<contest, returned>>
    /\ UNCHANGED <<clock, published, lost>>

\* Mutant: a cancel with entrants returns the slot too.
CancelLateReturning(k) ==
    LET c == req[k].contest IN
    /\ At(k, "cancelLate")
    /\ IF CanCancel(k)
         THEN /\ contest' = [contest EXCEPT ![c].status = "cancelled"]
              /\ req' = [req EXCEPT ![k].step = "giveBack",
                                    ![k].month = MonthOf[contest[c].publishedAt]]
         ELSE Done(k) /\ UNCHANGED contest
    /\ UNCHANGED <<clock, published, lost, returned>>

CancelLate(k) ==
    LET c == req[k].contest IN
    /\ At(k, "cancelLate")
    /\ contest' = IF CanCancel(k) THEN [contest EXCEPT ![c].status = "cancelled"]
                                  ELSE contest
    /\ Done(k)
    /\ UNCHANGED <<clock, published, lost, returned>>

-----------------------------------------------------------------------------
(* The rest of the contest's life, and failures *)

\* Whether anyone holds a place: entrants come while the contest is open and
\* may all leave again (module ContestPlaces).
EntrantsChange(c) ==
    /\ \/ contest[c].entered
       \/ contest[c].status = "published" /\ EndsAfter(c, clock)
    /\ contest' = [contest EXCEPT ![c].entered = ~@]
    /\ UNCHANGED <<clock, published, req, lost, returned>>

Close(c) ==
    /\ contest[c].status = "published" /\ ~contest[c].finalized
    /\ EndedBy(c, clock)
    /\ contest' = [contest EXCEPT ![c].finalized = TRUE]
    /\ UNCHANGED <<clock, published, req, lost, returned>>

\* A call that has taken a slot that is not yet a published contest, or that has
\* a slot to give back.
Holds(r) == r.step = "giveBack" \/ (r.step = "commit" /\ ~r.admin)

\* A request dies with its server or with a failed database call.
Fail(k) ==
    LET h == req[k].host
        m == req[k].month
    IN
    /\ ~At(k, "idle")
    /\ IF Holds(req[k]) THEN /\ lost[h][m] < MaxLost
                             /\ lost' = [lost EXCEPT ![h][m] = @ + 1]
                        ELSE UNCHANGED lost
    /\ Done(k)
    /\ UNCHANGED <<clock, contest, published, returned>>

Tick ==
    /\ clock < MaxTime
    /\ \A k \in Calls : ~At(k, "idle") => clock < req[k].now + MaxAge
    /\ clock' = clock + 1
    /\ UNCHANGED <<contest, published, req, lost, returned>>

PublishStep(k) ==
    \/ \E c \in Contests : PublishBegin(k, c)
    \/ TakeUpsert(k) \/ TakeInsert(k) \/ TakeRetry(k)
    \/ PublishCommit(k) \/ GiveSlotBack(k)

CancelStep(k) ==
    \/ \E c \in Contests, admin \in BOOLEAN : CancelBegin(k, c, admin)
    \/ CancelEarly(k) \/ CancelLate(k)

Next ==
    \/ \E k \in Calls : PublishStep(k) \/ CancelStep(k) \/ Fail(k)
    \/ \E c \in Contests :
          \/ \E h \in Hosts : CreateDraft(c, h)
          \/ \E t \in StartTimes \cup {None} : UpdateDetails(c, t)
          \/ DeleteDraft(c) \/ EntrantsChange(c) \/ Close(c)
    \/ Tick

Spec == Init /\ [][Next]_vars

-----------------------------------------------------------------------------

TypeOK ==
    /\ clock \in Times
    /\ contest \in [Contests -> ContestDoc]
    /\ published \in [Hosts -> [Months -> (0 .. Limit) \cup {None}]]
    /\ req \in [Calls -> Request]
    /\ lost \in [Hosts -> [Months -> Nat]]
    /\ returned \in SUBSET Contests

\* The contests that use up a slot of host h in month m.
Charged(h, m) ==
    {c \in Contests : /\ contest[c].host = h
                      /\ contest[c].status \in {"published", "cancelled"}
                      /\ c \notin returned
                      /\ MonthOf[contest[c].publishedAt] = m}

\* The calls that hold such a slot.
HoldsSlot(r, h, m) == Holds(r) /\ r.host = h /\ r.month = m
Holding(h, m) == {k \in Calls : HoldsSlot(req[k], h, m)}

\* A host's count for a month is the contests published in it and not given
\* back, plus the slots that requests hold between their two writes, plus those
\* lost there: no publish is counted twice or in another month, no slot is given
\* back twice, whatever the order of publishes, cancels and failures.
SlotsAccounted ==
    \A h \in Hosts \ Admins, m \in Months :
        Used(h, m) = Cardinality(Charged(h, m)) + Cardinality(Holding(h, m)) + lost[h][m]

\* "Two publishes at once cannot both take the last one": a host who is not an
\* admin never has more free contests from one month than the limit.
FreeLimitHeld ==
    \A h \in Hosts \ Admins, m \in Months : Cardinality(Charged(h, m)) <= Limit

=============================================================================
