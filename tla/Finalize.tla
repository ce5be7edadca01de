------------------------------ MODULE Finalize ------------------------------
(***************************************************************************)
(* Closing a contest: FinalizeService, run by every server every minute,   *)
(* against the requests of entrants that are still in flight at the end    *)
(* (start, saveAnswer and submit of ContestEntrantService), an admin who   *)
(* cancels, and servers that fail part-way.                                *)
(*                                                                         *)
(* One contest with one question worth one point.  A run makes one database*)
(* call per action: the claim, each entry the cursor streams, each update  *)
(* of a bulk write, the close.  It works on what it scanned, however old.  *)
(***************************************************************************)
EXTENDS Integers, FiniteSets, Scoring

CONSTANTS
    Entrants,           \* users with an entry in the contest
    Servers,            \* each runs finalizeDue on its own
    Never,              \* a time that is null
    NoResult,           \* score, rank and the rest null; no activity event
    EndAt,              \* the contest's end; it starts at 0
    Lease,              \* LEASE_MS
    RatedMinStarters,   \* LIMITS.contest.ratedMinStarters
    Picks,              \* bound: the answers that requests save
    MaxTime,            \* bound: the clock
    MaxFailures         \* bound: runs and requests that fail part-way

ASSUME EntrantsAssumption == Entrants # {} /\ IsFiniteSet(Entrants)
ASSUME TimesAssumption == {EndAt, Lease} \subseteq Nat \ {0} /\ Never \notin Nat
ASSUME BoundsAssumption == {RatedMinStarters, MaxTime, MaxFailures} \subseteq Nat

\* No answer, or a right or a wrong one; a save can also clear it.
Answers == {"none", "right", "wrong"}

ASSUME PicksAssumption == Picks \subseteq Answers

VARIABLES
    clock,      \* the time every server agrees on
    contest,    \* the contest document
    entry,      \* the entry documents
    tally,      \* answeredCount and correctCount of the question
    event,      \* each entrant's activity event for this contest
    run,        \* what each server is doing
    call,       \* each entrant's request
    failures,   \* history: failures so far
    late        \* history: a request wrote to the contest or an entry after the end

docs == <<contest, entry, tally, event>>
vars == <<clock, contest, entry, tally, event, run, call, failures, late>>

-----------------------------------------------------------------------------

Times == Nat \cup {Never}

Result == [score : 0 .. 1, timeUsed : Nat, rank : Nat, percentile : Int \X Int]
Event == [result : Result, submitted : BOOLEAN, starters : Nat, rated : BOOLEAN]

Contest == [status : {"published", "cancelled"}, lockedUntil : Times, finalizedAt : Times,
            startedCount : Nat, submittedCount : Nat, rated : BOOLEAN]
Entry == [started : BOOLEAN, answer : Answers, submittedAt : Times, auto : BOOLEAN,
          result : Result \cup {NoResult}]

\* One element of `scored': what a run keeps of an entry it has read.
Scored == [score : 0 .. 1, timeUsed : Nat, auto : BOOLEAN, answered : BOOLEAN]

ASSUME NullAssumption == NoResult \notin Scored

Working == {"scan", "write", "events"}
Run == [step : {"idle", "claim"} \cup Working, now : Nat, token : Times,
        todo : SUBSET Entrants, scored : [Entrants -> Scored \cup {NoResult}]]
Call == [step : {"idle", "mark", "countStart", "save", "hand", "countSubmit"},
         now : Nat, answer : Answers]

Unscored == [e \in Entrants |-> NoResult]
Idle == [step |-> "idle", now |-> 0, token |-> Never, todo |-> {}, scored |-> Unscored]
NoCall == [step |-> "idle", now |-> 0, answer |-> "none"]

Init ==
    /\ clock = 0
    /\ contest = [status |-> "published", lockedUntil |-> Never, finalizedAt |-> Never,
                  startedCount |-> 0, submittedCount |-> 0, rated |-> FALSE]
    /\ entry = [e \in Entrants |-> [started |-> FALSE, answer |-> "none",
                                    submittedAt |-> Never, auto |-> FALSE,
                                    result |-> NoResult]]
    /\ tally = [answered |-> 0, correct |-> 0]
    /\ event = [e \in Entrants |-> NoResult]
    /\ run = [s \in Servers |-> Idle]
    /\ call = [e \in Entrants |-> NoCall]
    /\ failures = 0
    /\ late = FALSE

-----------------------------------------------------------------------------
(* Entrants: liveEntry, then one write conditional on the entry as it is now *)

Calling(e, step) == call[e].step = step
Live == contest.status = "published" /\ clock < EndAt
Writes == late' = (late \/ EndAt <= clock)

StartBegin(e) ==
    /\ Live /\ ~entry[e].started
    /\ Calling(e, "idle")
    /\ call' = [call EXCEPT ![e] = [NoCall EXCEPT !.step = "mark", !.now = clock]]
    /\ UNCHANGED <<clock, docs, run, failures, late>>

StartMark(e) ==
    /\ Calling(e, "mark")
    /\ entry' = [entry EXCEPT ![e].started = TRUE]
    /\ call' = [call EXCEPT ![e].step = "countStart"]
    /\ Writes
    /\ UNCHANGED <<clock, contest, tally, event, run, failures>>

CountStart(e) ==
    /\ Calling(e, "countStart")
    /\ contest' = [contest EXCEPT !.startedCount = @ + 1]
    /\ call' = [call EXCEPT ![e] = NoCall]
    /\ Writes
    /\ UNCHANGED <<clock, entry, tally, event, run, failures>>

SaveBegin(e, a) ==
    /\ Live /\ entry[e].started /\ entry[e].submittedAt = Never
    /\ Calling(e, "idle")
    /\ call' = [call EXCEPT ![e] = [step |-> "save", now |-> clock, answer |-> a]]
    /\ UNCHANGED <<clock, docs, run, failures, late>>

\* The filter `open' lets the write through only if the entry is not handed in.
SaveWrite(e) ==
    /\ Calling(e, "save")
    /\ IF entry[e].submittedAt = Never
         THEN entry' = [entry EXCEPT ![e].answer = call[e].answer] /\ Writes
         ELSE UNCHANGED <<entry, late>>
    /\ call' = [call EXCEPT ![e] = NoCall]
    /\ UNCHANGED <<clock, contest, tally, event, run, failures>>

SubmitBegin(e) ==
    /\ Live /\ entry[e].started
    /\ Calling(e, "idle")
    /\ call' = [call EXCEPT ![e] = [NoCall EXCEPT !.step = "hand", !.now = clock]]
    /\ UNCHANGED <<clock, docs, run, failures, late>>

SubmitWrite(e) ==
    /\ Calling(e, "hand")
    /\ IF entry[e].submittedAt = Never
         THEN /\ entry' = [entry EXCEPT ![e].submittedAt = call[e].now]
              /\ call' = [call EXCEPT ![e].step = "countSubmit"]
              /\ Writes
         ELSE call' = [call EXCEPT ![e] = NoCall] /\ UNCHANGED <<entry, late>>
    /\ UNCHANGED <<clock, contest, tally, event, run, failures>>

CountSubmit(e) ==
    /\ Calling(e, "countSubmit")
    /\ contest' = [contest EXCEPT !.submittedCount = @ + 1]
    /\ call' = [call EXCEPT ![e] = NoCall]
    /\ Writes
    /\ UNCHANGED <<clock, entry, tally, event, run, failures>>

\* cancel, by an admin: published contests, until the results are out.
Cancel ==
    /\ contest.status = "published" /\ contest.finalizedAt = Never
    /\ contest' = [contest EXCEPT !.status = "cancelled"]
    /\ UNCHANGED <<clock, entry, tally, event, run, call, failures, late>>

-----------------------------------------------------------------------------
(* A run of finalizeDue *)

Wake(s) ==
    /\ run[s].step = "idle"
    /\ run' = [run EXCEPT ![s] = [Idle EXCEPT !.step = "claim", !.now = clock]]
    /\ UNCHANGED <<clock, docs, call, failures, late>>

\* The next turn of the loop in finalizeDue, with the run's one `now'.
Again(s) == [Idle EXCEPT !.step = "claim", !.now = run[s].now]

\* Mutant: a claim ignores the lease of another.
ClaimableUnlocked(now) ==
    /\ contest.status = "published" /\ EndAt <= now /\ contest.finalizedAt = Never

\* Mutant: a lease, once taken, is never taken over.
ClaimableUntaken(now) ==
    /\ contest.status = "published" /\ EndAt <= now /\ contest.finalizedAt = Never
    /\ contest.lockedUntil = Never

Claimable(now) ==
    /\ contest.status = "published" /\ EndAt <= now /\ contest.finalizedAt = Never
    /\ contest.lockedUntil = Never \/ contest.lockedUntil <= now

\* One atomic update; the new lockedUntil is also the token of this claim.
Claim(s) ==
    LET now == run[s].now
        token == now + Lease
    IN /\ run[s].step = "claim"
       /\ IF Claimable(now)
            THEN /\ contest' = [contest EXCEPT !.lockedUntil = token]
                 /\ run' = [run EXCEPT ![s] = [step |-> "scan", now |-> now,
                              token |-> token, todo |-> Entrants, scored |-> Unscored]]
            ELSE run' = [run EXCEPT ![s] = Idle] /\ UNCHANGED contest
       /\ UNCHANGED <<clock, entry, tally, event, call, failures, late>>

\* Mutant: an entry the clock submitted on an earlier run passes for handed in.
IsAutoByTime(d) == d.submittedAt = Never

\* Submitted by the clock, on this run or on an earlier one that was interrupted.
IsAuto(d) == d.auto \/ d.submittedAt = Never

ScoreOf(d) ==
    [score |-> IF d.answer = "right" THEN 1 ELSE 0,
     timeUsed |-> TimeUsed(0, EndAt, 0, IF IsAuto(d) THEN EndAt ELSE d.submittedAt),
     auto |-> IsAuto(d),
     answered |-> d.answer # "none"]

Starters(scored) == {e \in Entrants : scored[e] # NoResult}

\* rank: the result of an entry among those scored; MCScoring checks the loop.
ResultOf(e, scored) ==
    LET S == {[id |-> o, score |-> scored[o].score, timeUsed |-> scored[o].timeUsed]
                 : o \in Starters(scored)}
        mine == [id |-> e, score |-> scored[e].score, timeUsed |-> scored[e].timeUsed]
    IN [score |-> mine.score, timeUsed |-> mine.timeUsed,
        rank |-> PlaceIn(mine, S), percentile |-> PercentileIn(mine, S)]

EventOf(e, scored) ==
    LET n == Cardinality(Starters(scored)) IN
    [result |-> ResultOf(e, scored), submitted |-> ~scored[e].auto,
     starters |-> n, rated |-> n >= RatedMinStarters]

TallyOf(scored) ==
    [answered |-> Cardinality({e \in Starters(scored) : scored[e].answered}),
     correct |-> Cardinality({e \in Starters(scored) : scored[e].score = 1})]

\* The cursor streams the entries that have started; it reads each on its own.
Scan(s, e) ==
    LET read == [run[s].scored EXCEPT ![e] =
                   IF entry[e].started THEN ScoreOf(entry[e]) ELSE NoResult]
        rest == run[s].todo \ {e}
    IN /\ run[s].step = "scan" /\ e \in run[s].todo
       /\ run' = [run EXCEPT ![s].scored = read,
                             ![s].todo = IF rest = {} THEN Starters(read) ELSE rest,
                             ![s].step = IF rest = {} THEN "write" ELSE "scan"]
       /\ UNCHANGED <<clock, docs, call, failures, late>>

\* Mutant: the result is written, and the entry stays open.
WithResultOpen(d, r, auto) == [d EXCEPT !.result = r]

\* The $set of one entry; it tests nothing of what has become of the entry.
WithResult(d, r, auto) ==
    IF auto THEN [d EXCEPT !.result = r, !.submittedAt = EndAt, !.auto = TRUE]
            ELSE [d EXCEPT !.result = r]

\* The bulk write goes down the ranking.
WriteResult(s, e) ==
    LET scored == run[s].scored IN
    /\ run[s].step = "write" /\ e \in run[s].todo
    /\ \A o \in run[s].todo : ResultOf(e, scored).rank <= ResultOf(o, scored).rank
    /\ entry' = [entry EXCEPT ![e] = WithResult(@, ResultOf(e, scored), scored[e].auto)]
    /\ run' = [run EXCEPT ![s].todo = @ \ {e}]
    /\ UNCHANGED <<clock, contest, tally, event, call, failures, late>>

WriteTally(s) ==
    /\ run[s].step = "write" /\ run[s].todo = {}
    /\ tally' = TallyOf(run[s].scored)
    /\ run' = [run EXCEPT ![s].step = "events", ![s].todo = Starters(run[s].scored)]
    /\ UNCHANGED <<clock, contest, entry, event, call, failures, late>>

\* Upserts on the unique (kind, refId, userId).
WriteEvent(s, e) ==
    LET scored == run[s].scored IN
    /\ run[s].step = "events" /\ e \in run[s].todo
    /\ \A o \in run[s].todo : ResultOf(e, scored).rank <= ResultOf(o, scored).rank
    /\ event' = [event EXCEPT ![e] = EventOf(e, scored)]
    /\ run' = [run EXCEPT ![s].todo = @ \ {e}]
    /\ UNCHANGED <<clock, contest, entry, tally, call, failures, late>>

\* Mutant: a run that has lost its lease closes the contest all the same.
HoldsLeaseOnce(s) == contest.finalizedAt = Never

HoldsLease(s) == contest.lockedUntil = run[s].token

\* The counters become the number ranked, whatever failed requests left of them.
ClosedBy(s) ==
    LET n == Cardinality(Starters(run[s].scored)) IN
    [contest EXCEPT !.finalizedAt = run[s].now, !.lockedUntil = Never,
                    !.rated = n >= RatedMinStarters,
                    !.startedCount = n, !.submittedCount = n]

\* Closes the contest only while the lease is still this run's.
Close(s) ==
    /\ run[s].step = "events" /\ run[s].todo = {}
    /\ contest' = IF HoldsLease(s) THEN ClosedBy(s) ELSE contest
    /\ run' = [run EXCEPT ![s] = Again(s)]
    /\ UNCHANGED <<clock, entry, tally, event, call, failures, late>>

-----------------------------------------------------------------------------

\* A database call of a run fails, and the loop goes on; or its server stops.
\* Only while there is time left for the lease to run out and another to claim.
FailRun(s) ==
    /\ run[s].step \in Working
    /\ failures < MaxFailures /\ clock + Lease <= MaxTime
    /\ failures' = failures + 1
    /\ \/ run' = [run EXCEPT ![s] = Again(s)]
       \/ run' = [run EXCEPT ![s] = Idle]
    /\ UNCHANGED <<clock, docs, call, late>>

FailCall(e) ==
    /\ ~Calling(e, "idle")
    /\ failures < MaxFailures
    /\ failures' = failures + 1
    /\ call' = [call EXCEPT ![e] = NoCall]
    /\ UNCHANGED <<clock, docs, run, late>>

Tick ==
    /\ clock < MaxTime
    /\ clock' = clock + 1
    /\ UNCHANGED <<docs, run, call, failures, late>>

EntrantStep(e) ==
    \/ StartBegin(e) \/ StartMark(e) \/ CountStart(e)
    \/ \E a \in Picks : SaveBegin(e, a)
    \/ SaveWrite(e)
    \/ SubmitBegin(e) \/ SubmitWrite(e) \/ CountSubmit(e)

RunStep(s) ==
    \/ Claim(s)
    \/ \E e \in Entrants : Scan(s, e) \/ WriteResult(s, e) \/ WriteEvent(s, e)
    \/ WriteTally(s)
    \/ Close(s)

Next ==
    \/ \E e \in Entrants : EntrantStep(e) \/ FailCall(e)
    \/ \E s \in Servers : Wake(s) \/ RunStep(s) \/ FailRun(s)
    \/ Cancel
    \/ Tick

Spec == Init /\ [][Next]_vars

\* Time passes; the cron wakes every server again and again; a run that has not
\* failed goes on.  Nothing is assumed of the entrants or the admin.
Fairness == WF_vars(Tick) /\ \A s \in Servers : WF_vars(Wake(s)) /\ WF_vars(RunStep(s))

FairSpec == Spec /\ Fairness

-----------------------------------------------------------------------------

TypeOK ==
    /\ clock \in Nat
    /\ contest \in Contest
    /\ entry \in [Entrants -> Entry]
    /\ tally \in [answered : Nat, correct : Nat]
    /\ event \in [Entrants -> Event \cup {NoResult}]
    /\ run \in [Servers -> Run]
    /\ call \in [Entrants -> Call]
    /\ failures \in Nat
    /\ late \in BOOLEAN

Finalized == contest.finalizedAt # Never
AtWork(s) == run[s].step \in Working

\* "Only one does the work": however the claims of many servers, with clocks
\* read long before, interleave, no two runs ever hold the same token, so at
\* most one of them can close the contest (finalize.service.ts, claim).
LeaseExclusive ==
    \A s, t \in Servers :
        AtWork(s) /\ AtWork(t) /\ run[s].token = run[t].token => s = t

\* What the results are of: every entry that has started, as it stands now.
FinalScores == [e \in Entrants |-> IF entry[e].started THEN ScoreOf(entry[e]) ELSE NoResult]

\* "Every step is safe to repeat if a lease runs out part-way": after the close,
\* with any number of interrupted, repeated and overlapping runs behind it and
\* perhaps still going, the entries, the events, the question's counts and the
\* contest's counters are what one undisturbed run makes of the entries,
\* provided that no request wrote after the end.
ResultsFollowEntries ==
    Finalized /\ ~late =>
        /\ \A e \in Entrants : IF entry[e].started
             THEN /\ entry[e].result = ResultOf(e, FinalScores)
                  /\ event[e] = EventOf(e, FinalScores)
             ELSE entry[e].result = NoResult /\ event[e] = NoResult
        /\ tally = TallyOf(FinalScores)
        /\ contest.startedCount = Cardinality({e \in Entrants : entry[e].started})
        /\ contest.submittedCount = contest.startedCount

KeepsRankedSealed ==
    \A e \in Entrants : entry[e].result # NoResult =>
        /\ entry[e].submittedAt # Never
        /\ entry'[e].answer = entry[e].answer

\* From the moment an entry has a result it is handed in, and its answer cannot
\* change any more, not even by a save that was on its way when the contest
\* ended (the result and submittedAt are one update; saves filter on it).
RankedEntriesSealed == [][KeepsRankedSealed]_vars

\* "The lease runs out and a later run tries again": a contest that has ended is
\* finalized or cancelled in the end, whatever fails on the way.
EndedGetsResolved == EndAt <= clock ~> Finalized \/ contest.status = "cancelled"

-----------------------------------------------------------------------------
(* The lease as ownership *)

CONSTANT NoOne

Owners == {s \in Servers : AtWork(s) /\ run[s].token = contest.lockedUntil}
Owner == IF Owners = {} THEN NoOne ELSE CHOOSE s \in Owners : TRUE

Ownership == INSTANCE OneFinalizer WITH owner <- Owner, closed <- Finalized

\* The claims, closes and failures of the servers are those of OneFinalizer:
\* only the one owner closes the contest, and it is closed once.
OwnedAndClosedOnce == Ownership!Spec

-----------------------------------------------------------------------------
(* What the code and its tests say, and TLC finds violated *)

\* "never finalizes a cancelled contest" (contests-finalize.e2e-spec.ts).
CancelledNeverFinalized == contest.status = "cancelled" => ~Finalized

\* "Final, so plain offsets are safe" (leaderboard): results never change once out.
BoardIsFinal ==
    [][Finalized => \A e \in Entrants : entry'[e].result = entry[e].result]_vars

\* "Submitted by the clock at the end rather than by the entrant" (autoSubmitted of
\* ContestEntry): an entry that its entrant handed in never gets the flag.
HandedInStays ==
    [][\A e \in Entrants : entry[e].submittedAt # Never /\ ~entry[e].auto
                             => ~entry'[e].auto]_vars

=============================================================================
