--------------------------- MODULE ContestPlaces ---------------------------
(***************************************************************************)
(* The places of one published contest: who has entered, and the counter   *)
(* that stands for them in the contest document.  Models join, leave and   *)
(* start of ContestEntrantService, updateDetails and cancel of             *)
(* ContestHostingService.                                                  *)
(*                                                                         *)
(* A call is a request in flight; it makes one database call per action, so*)
(* any two requests interleave between calls.  Each request keeps the      *)
(* `now' it sampled when it began and what it read, however old they get.  *)
(* One document is updated atomically; nothing spans two documents.        *)
(***************************************************************************)
EXTENDS Integers, FiniteSets

CONSTANTS
    Users,          \* users who may enter; none of them is the host
    Calls,          \* requests that can be in flight at once
    Nobody,         \* the user of an idle call
    Unlimited,      \* capacity null
    Capacities,     \* capacities the host may set
    StartTimes,     \* start times the host may set
    FirstCapacity, FirstStart,   \* the values the contest was published with
    Duration,       \* endAt - startAt
    Lead,           \* a published contest starts at least this long after now
    MaxAge,         \* bound: how long a request may be in flight
    MaxTime,        \* bound: the clock
    MaxEntries,     \* bound: entries ever created
    MaxLeaks        \* bound: failures between the two writes of a request

ASSUME UsersFinite == IsFiniteSet(Users) /\ Nobody \notin Users
ASSUME CallsFinite == IsFiniteSet(Calls)
ASSUME CapacitiesAssumption ==
    /\ Unlimited \notin Nat
    /\ Capacities \subseteq (Nat \ {0}) \cup {Unlimited}
    /\ FirstCapacity \in Capacities
ASSUME TimesAssumption ==
    /\ StartTimes \subseteq Nat
    /\ FirstStart \in StartTimes
    /\ Duration \in Nat \ {0}
    /\ Lead \in Nat
ASSUME BoundsAssumption ==
    {MaxAge, MaxTime, MaxEntries, MaxLeaks} \subseteq Nat

VARIABLES
    clock,       \* the time every server agrees on
    contest,     \* the contest document
    entry,       \* each user's entry document; id 0 when there is none
    lastId,      \* the last entry id given out
    req,         \* the request of each call
    leaked,      \* history: places whose request failed before its last write
    capacities,  \* history: every capacity the contest has had
    slotReturned \* history: cancelled by the update that returns the free slot

vars == <<clock, contest, entry, lastId, req, leaked, capacities, slotReturned>>

-----------------------------------------------------------------------------

EntrantSteps == {"take", "create", "delete", "uncount", "find", "mark"}
HostSteps == {"edit", "cancelEarly", "cancelLate"}
Steps == {"idle"} \cup EntrantSteps \cup HostSteps

\* Where a call is, and what it has read or was asked for.
Request == [step: Steps, user: Users \cup {Nobody}, now: Nat, id: Nat,
            admin: BOOLEAN, startAt: Nat, capacity: Nat \cup {Unlimited}]

Idle == [step |-> "idle", user |-> Nobody, now |-> 0, id |-> 0,
         admin |-> FALSE, startAt |-> 0, capacity |-> Unlimited]

Contest == [status: {"published", "cancelled"}, startAt: Nat,
            capacity: Nat \cup {Unlimited}, entrantCount: Nat, finalized: BOOLEAN]

Entry == [id: Nat, started: BOOLEAN]
NoEntry == [id |-> 0, started |-> FALSE]

HasEntry(u) == entry[u].id # 0
Entrants == {u \in Users : HasEntry(u)}

EndAt == contest.startAt + Duration
HasRoom == contest.capacity = Unlimited \/ contest.entrantCount < contest.capacity
Upcoming(now) == contest.status = "published" /\ now < contest.startAt
Live(now) == contest.status = "published" /\ contest.startAt <= now /\ now < EndAt

Init ==
    /\ clock = 0
    /\ contest = [status |-> "published", startAt |-> FirstStart,
                  capacity |-> FirstCapacity, entrantCount |-> 0, finalized |-> FALSE]
    /\ entry = [u \in Users |-> NoEntry]
    /\ lastId = 0
    /\ req = [k \in Calls |-> Idle]
    /\ leaked = 0
    /\ capacities = {FirstCapacity}
    /\ slotReturned = FALSE

At(k, step) == req[k].step = step
Begin(k, r) == At(k, "idle") /\ req' = [req EXCEPT ![k] = r]
Goto(k, step) == req' = [req EXCEPT ![k].step = step]
Done(k) == req' = [req EXCEPT ![k] = Idle]

-----------------------------------------------------------------------------
(* join *)

\* A user with no entry asks for one; with an entry, join returns it unchanged.
JoinBegin(k, u) ==
    /\ ~HasEntry(u)
    /\ lastId < MaxEntries
    /\ Begin(k, [Idle EXCEPT !.step = "take", !.user = u, !.now = clock])
    /\ UNCHANGED <<clock, contest, entry, lastId, leaked, capacities, slotReturned>>

\* Mutant: the capacity is not part of the update.
CanTakeUncapped(now) == contest.status = "published" /\ now < EndAt

CanTake(now) == contest.status = "published" /\ now < EndAt /\ HasRoom

\* The conditional increment: capacity is tested by the update that takes the place.
JoinTake(k) ==
    /\ At(k, "take")
    /\ IF CanTake(req[k].now)
         THEN /\ contest' = [contest EXCEPT !.entrantCount = @ + 1]
              /\ Goto(k, "create")
         ELSE Done(k) /\ UNCHANGED contest
    /\ UNCHANGED <<clock, entry, lastId, leaked, capacities, slotReturned>>

\* Mutant: the loser of two joins by one user keeps the place it took.
JoinCreateKeepingPlace(k) ==
    LET u == req[k].user IN
    /\ At(k, "create")
    /\ IF HasEntry(u)
         THEN UNCHANGED <<entry, lastId>>
         ELSE /\ entry' = [entry EXCEPT ![u] = [id |-> lastId + 1, started |-> FALSE]]
              /\ lastId' = lastId + 1
    /\ Done(k)
    /\ UNCHANGED <<clock, contest, leaked, capacities, slotReturned>>

\* Only now is the entry inserted; the unique index refuses a second one.
JoinCreate(k) ==
    LET u == req[k].user IN
    /\ At(k, "create")
    /\ IF HasEntry(u)
         THEN Goto(k, "uncount") /\ UNCHANGED <<entry, lastId>>
         ELSE /\ entry' = [entry EXCEPT ![u] = [id |-> lastId + 1, started |-> FALSE]]
              /\ lastId' = lastId + 1
              /\ Done(k)
    /\ UNCHANGED <<clock, contest, leaked, capacities, slotReturned>>

\* changeCount(-1), after a leave or a join that lost to another.
Uncount(k) ==
    /\ At(k, "uncount")
    /\ contest' = [contest EXCEPT !.entrantCount = @ - 1]
    /\ Done(k)
    /\ UNCHANGED <<clock, entry, lastId, leaked, capacities, slotReturned>>

-----------------------------------------------------------------------------
(* leave and start *)

LeaveBegin(k, u) ==
    /\ Upcoming(clock)
    /\ Begin(k, [Idle EXCEPT !.step = "delete", !.user = u, !.now = clock])
    /\ UNCHANGED <<clock, contest, entry, lastId, leaked, capacities, slotReturned>>

\* The delete tests neither the phase again nor whether the entrant has started.
LeaveDelete(k) ==
    LET u == req[k].user IN
    /\ At(k, "delete")
    /\ IF HasEntry(u)
         THEN entry' = [entry EXCEPT ![u] = NoEntry] /\ Goto(k, "uncount")
         ELSE Done(k) /\ UNCHANGED entry
    /\ UNCHANGED <<clock, contest, lastId, leaked, capacities, slotReturned>>

\* liveEntry reads the contest, and then the entry.
StartBegin(k, u) ==
    /\ Live(clock)
    /\ Begin(k, [Idle EXCEPT !.step = "find", !.user = u, !.now = clock])
    /\ UNCHANGED <<clock, contest, entry, lastId, leaked, capacities, slotReturned>>

StartFind(k) ==
    LET u == req[k].user IN
    /\ At(k, "find")
    /\ req' = [req EXCEPT ![k] = IF HasEntry(u) /\ ~entry[u].started
                                   THEN [@ EXCEPT !.step = "mark", !.id = entry[u].id]
                                   ELSE Idle]
    /\ UNCHANGED <<clock, contest, entry, lastId, leaked, capacities, slotReturned>>

\* Marks the entry it read, by its id: a later entry of the user is another one.
StartMark(k) ==
    LET u == req[k].user IN
    /\ At(k, "mark")
    /\ entry' = IF entry[u].id = req[k].id
                  THEN [entry EXCEPT ![u].started = TRUE] ELSE entry
    /\ Done(k)
    /\ UNCHANGED <<clock, contest, lastId, leaked, capacities, slotReturned>>

-----------------------------------------------------------------------------
(* updateDetails, cancel and finalizing *)

\* Everything is tested against the contest as read: editable, the capacity
\* against the count, the new start against now.
EditBegin(k, t, c) ==
    /\ Upcoming(clock)
    /\ c = Unlimited \/ contest.entrantCount <= c
    /\ clock + Lead <= t
    /\ Begin(k, [Idle EXCEPT !.step = "edit", !.now = clock,
                             !.startAt = t, !.capacity = c])
    /\ UNCHANGED <<clock, contest, entry, lastId, leaked, capacities, slotReturned>>

\* The write tests the status alone, and writes every field it was given or read.
EditCommit(k) ==
    /\ At(k, "edit")
    /\ IF contest.status = "published"
         THEN /\ contest' = [contest EXCEPT !.startAt = req[k].startAt,
                                            !.capacity = req[k].capacity]
              /\ capacities' = capacities \cup {req[k].capacity}
         ELSE UNCHANGED <<contest, capacities>>
    /\ Done(k)
    /\ UNCHANGED <<clock, entry, lastId, leaked, slotReturned>>

CancelBegin(k, admin) ==
    /\ contest.status = "published"
    /\ Begin(k, [Idle EXCEPT !.step = "cancelEarly", !.now = clock, !.admin = admin])
    /\ UNCHANGED <<clock, contest, entry, lastId, leaked, capacities, slotReturned>>

CanCancel(k) ==
    /\ contest.status = "published"
    /\ ~contest.finalized
    /\ req[k].admin \/ req[k].now < contest.startAt

\* Mutant: "nobody joined" is looked up in the entries, not in the contest.
CancelEarlyByEntries(k) ==
    /\ At(k, "cancelEarly")
    /\ IF CanCancel(k) /\ Entrants = {} /\ req[k].now < contest.startAt
         THEN /\ contest' = [contest EXCEPT !.status = "cancelled"]
              /\ slotReturned' = TRUE
              /\ Done(k)
         ELSE Goto(k, "cancelLate") /\ UNCHANGED <<contest, slotReturned>>
    /\ UNCHANGED <<clock, entry, lastId, leaked, capacities>>

\* "Nobody joined" is part of the update that cancels and returns the free slot.
CancelEarly(k) ==
    /\ At(k, "cancelEarly")
    /\ IF CanCancel(k) /\ contest.entrantCount = 0 /\ req[k].now < contest.startAt
         THEN /\ contest' = [contest EXCEPT !.status = "cancelled"]
              /\ slotReturned' = TRUE
              /\ Done(k)
         ELSE Goto(k, "cancelLate") /\ UNCHANGED <<contest, slotReturned>>
    /\ UNCHANGED <<clock, entry, lastId, leaked, capacities>>

CancelLate(k) ==
    /\ At(k, "cancelLate")
    /\ contest' = IF CanCancel(k) THEN [contest EXCEPT !.status = "cancelled"]
                                  ELSE contest
    /\ Done(k)
    /\ UNCHANGED <<clock, entry, lastId, leaked, capacities, slotReturned>>

\* FinalizeService closes the contest after its end; module Finalize has the steps.
Close ==
    /\ contest.status = "published" /\ ~contest.finalized /\ EndAt <= clock
    /\ contest' = [contest EXCEPT !.finalized = TRUE]
    /\ UNCHANGED <<clock, entry, lastId, req, leaked, capacities, slotReturned>>

-----------------------------------------------------------------------------

\* The calls that hold a place for which there is no entry.
Holding == {k \in Calls : At(k, "create") \/ At(k, "uncount")}

\* A request dies: its server stops, or a database call fails and is rethrown.
\* Nothing gives back the place it held.
Fail(k) ==
    /\ ~At(k, "idle")
    /\ leaked' = IF k \in Holding THEN leaked + 1 ELSE leaked
    /\ leaked' <= MaxLeaks
    /\ Done(k)
    /\ UNCHANGED <<clock, contest, entry, lastId, capacities, slotReturned>>

\* Time passes, but no request is left in flight longer than MaxAge.
Tick ==
    /\ clock < MaxTime
    /\ \A k \in Calls : ~At(k, "idle") => clock < req[k].now + MaxAge
    /\ clock' = clock + 1
    /\ UNCHANGED <<contest, entry, lastId, req, leaked, capacities, slotReturned>>

EntrantStep(k) ==
    \/ \E u \in Users : JoinBegin(k, u) \/ LeaveBegin(k, u) \/ StartBegin(k, u)
    \/ JoinTake(k) \/ JoinCreate(k) \/ Uncount(k)
    \/ LeaveDelete(k)
    \/ StartFind(k) \/ StartMark(k)

HostStep(k) ==
    \/ \E t \in StartTimes, c \in Capacities : EditBegin(k, t, c)
    \/ EditCommit(k)
    \/ \E admin \in BOOLEAN : CancelBegin(k, admin)
    \/ CancelEarly(k) \/ CancelLate(k)

Next ==
    \/ \E k \in Calls : EntrantStep(k) \/ HostStep(k) \/ Fail(k)
    \/ Close
    \/ Tick

Spec == Init /\ [][Next]_vars

-----------------------------------------------------------------------------

TypeOK ==
    /\ clock \in Nat
    /\ contest \in Contest
    /\ entry \in [Users -> Entry]
    /\ lastId \in Nat
    /\ req \in [Calls -> Request]
    /\ \A k \in Calls : req[k].step \in EntrantSteps => req[k].user \in Users
    /\ leaked \in Nat
    /\ capacities \in SUBSET (Nat \cup {Unlimited})
    /\ slotReturned \in BOOLEAN

\* The counter is the entries, plus the places held by requests between their
\* two writes, plus those that failed there: whatever the interleaving of joins
\* (twice by one user included), leaves and failures, no place is lost or
\* counted twice in any other way (contest-entrant.service.ts, join and leave).
PlacesAccounted ==
    contest.entrantCount = Cardinality(Entrants) + Cardinality(Holding) + leaked

\* "A full contest can never take one more": the entries never outnumber a
\* capacity the contest has had, even while the host edits it.
NoOverbooking ==
    \E c \in capacities : c = Unlimited \/ Cardinality(Entrants) <= c

\* "A join cannot slip in between": once a cancel has returned the free slot,
\* the contest has no entrant and never gets one from a join already under way.
NobodyOnceSlotReturned ==
    slotReturned => contest.status = "cancelled" /\ Entrants = {} /\ Holding = {}

\* What the code says of the races it leaves open; TLC finds each violated.

\* "Capacity cannot be below the number already entered" (updateDetails).
CapacityCoversEntrants ==
    contest.capacity # Unlimited => contest.entrantCount <= contest.capacity

\* "Only before the start, so nobody can peek and go" (leave): an entry that
\* has opened the workspace is never deleted.
NoPeekAndGo ==
    [][\A u \in Users : entry[u].started => entry'[u].id = entry[u].id]_vars

\* "Drafts, and published contests before their start, can be edited": nobody
\* has seen the questions of a contest that is still to start.
QuestionsSealed ==
    \A u \in Users : entry[u].started => contest.startAt <= clock

=============================================================================
