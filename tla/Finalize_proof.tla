--------------------------- MODULE Finalize_proof ---------------------------
(***************************************************************************)
(* Proofs about Finalize, for any number of servers and entrants, any      *)
(* lease, and runs whose clock reading is arbitrarily old: the lease has   *)
(* one holder and implements OneFinalizer, a ranked entry is sealed, and   *)
(* the results that come out are those of the entries.                     *)
(***************************************************************************)
EXTENDS Finalize, FiniteSetTheorems, TLAPS

\* What a run carries: a token while it works, a todo within what it scored, and
\* "handed in" only for entries that are.
RunOK(r, d) ==
    /\ r.step \in Working => r.token \in Nat
    /\ r.step \in {"write", "events"} => r.todo \subseteq Starters(r.scored)
    /\ \A e \in Entrants : r.scored[e] # NoResult /\ ~r.scored[e].auto
                              => d[e].submittedAt # Never

RunsOK == \A s \in Servers : RunOK(run[s], entry)

\* The tokens at work are distinct, and none is later than the lock.
LeaseOK ==
    /\ Finalized => contest.lockedUntil = Never
    /\ ~Finalized /\ contest.lockedUntil = Never => \A s \in Servers : ~AtWork(s)
    /\ \A s \in Servers : AtWork(s) /\ contest.lockedUntil # Never
                            => run[s].token <= contest.lockedUntil
    /\ LeaseExclusive

SealedOK == \A e \in Entrants : entry[e].result # NoResult => entry[e].submittedAt # Never

IInv == TypeOK /\ RunsOK /\ LeaseOK /\ SealedOK

\* What no action does: take a hand-in back.
HandInsKept ==
    \A e \in Entrants : entry[e].submittedAt # Never => entry'[e].submittedAt # Never

-----------------------------------------------------------------------------
(* Types *)

LEMMA Numbers == EndAt \in Nat \ {0} /\ Lease \in Nat \ {0} /\ Never \notin Nat
                 /\ RatedMinStarters \in Nat
  BY TimesAssumption, BoundsAssumption

LEMMA TimeUsedType ==
  ASSUME NEW t \in Nat
  PROVE  TimeUsed(0, EndAt, 0, t) \in Nat
  BY Numbers DEF TimeUsed

LEMMA ScoreOfType ==
  ASSUME NEW d \in Entry
  PROVE  /\ ScoreOf(d) \in Scored
         /\ ~ScoreOf(d).auto => d.submittedAt # Never
<1>1. d.auto \in BOOLEAN /\ d.submittedAt \in Nat \cup {Never}
  BY DEF Entry, Times
<1>2. TimeUsed(0, EndAt, 0, IF IsAuto(d) THEN EndAt ELSE d.submittedAt) \in Nat
  <2>1. (IF IsAuto(d) THEN EndAt ELSE d.submittedAt) \in Nat
    BY <1>1, Numbers DEF IsAuto
  <2>2. QED BY <2>1, TimeUsedType
<1>3. IsAuto(d) \in BOOLEAN
  BY <1>1 DEF IsAuto
<1>4. ScoreOf(d) \in Scored
  BY <1>2, <1>3 DEF ScoreOf, Scored
<1>5. ~ScoreOf(d).auto => d.submittedAt # Never
  BY DEF ScoreOf, IsAuto
<1>6. QED BY <1>4, <1>5

LEMMA StartersFinite ==
  ASSUME NEW scored
  PROVE  /\ Starters(scored) \subseteq Entrants
         /\ IsFiniteSet(Starters(scored))
         /\ Cardinality(Starters(scored)) \in Nat
  BY EntrantsAssumption, FS_Subset, FS_CardinalityType DEF Starters

LEMMA ResultOfType ==
  ASSUME NEW e \in Entrants, NEW scored \in [Entrants -> Scored \cup {NoResult}],
         e \in Starters(scored)
  PROVE  ResultOf(e, scored) \in Result
<1> DEFINE f(o) == [id |-> o, score |-> scored[o].score, timeUsed |-> scored[o].timeUsed]
           S == {f(o) : o \in Starters(scored)}
           mine == f(e)
<1>1. scored[e] \in Scored
  BY DEF Starters
<1>2. scored[e].score \in 0 .. 1 /\ scored[e].timeUsed \in Nat
  BY <1>1 DEF Scored
<1>3. IsFiniteSet(S)
  <2> DEFINE g == [o \in Starters(scored) |-> f(o)]
  <2>1. g \in Surjection(Starters(scored), S)
    BY DEF Surjection
  <2>2. QED BY <2>1, StartersFinite, FS_Surjection
<1>4. mine.score \in 0 .. 1 /\ mine.timeUsed \in Nat
  BY <1>2
<1> HIDE DEF S, mine
<1>5. PlaceIn(mine, S) \in Nat
  BY <1>3, FS_Subset, FS_CardinalityType DEF PlaceIn
<1>6. PercentileIn(mine, S) \in Int \X Int
  <2>1. BeatenIn(mine, S) \in Int /\ Cardinality(S) \in Int
    BY <1>3, FS_Subset, FS_CardinalityType DEF BeatenIn
  <2>2. QED BY <2>1 DEF PercentileIn
<1>7. ResultOf(e, scored) = [score |-> mine.score, timeUsed |-> mine.timeUsed,
                             rank |-> PlaceIn(mine, S), percentile |-> PercentileIn(mine, S)]
  BY DEF ResultOf, S, mine
<1>8. QED BY <1>4, <1>5, <1>6, <1>7 DEF Result

LEMMA EventOfType ==
  ASSUME NEW e \in Entrants, NEW scored \in [Entrants -> Scored \cup {NoResult}],
         e \in Starters(scored)
  PROVE  EventOf(e, scored) \in Event
<1>1. scored[e].auto \in BOOLEAN
  BY DEF Starters, Scored
<1>2. (Cardinality(Starters(scored)) >= RatedMinStarters) \in BOOLEAN
  OBVIOUS
<1>3. (~scored[e].auto) \in BOOLEAN
  BY <1>1
<1>4. QED BY <1>2, <1>3, ResultOfType, StartersFinite DEF EventOf, Event

LEMMA TallyOfType ==
  ASSUME NEW scored
  PROVE  TallyOf(scored) \in [answered : Nat, correct : Nat]
  BY StartersFinite, FS_Subset, FS_CardinalityType DEF TallyOf

LEMMA InitTyped == Init => IInv
<1> SUFFICES ASSUME Init PROVE IInv
  OBVIOUS
<1>1. Idle \in Run /\ NoCall \in Call
  BY DEF Idle, NoCall, Run, Call, Times, Unscored, Working, Answers
<1>2. TypeOK
  <2>1. contest \in Contest
    BY DEF Init, Contest, Times
  <2>2. entry \in [Entrants -> Entry]
    BY DEF Init, Entry, Times, Answers
  <2>3. run \in [Servers -> Run] /\ call \in [Entrants -> Call]
    BY <1>1 DEF Init
  <2>4. QED BY <2>1, <2>2, <2>3 DEF Init, TypeOK
<1>3. \A s \in Servers : run[s] = Idle
  BY DEF Init
<1>4. RunsOK
  BY <1>3 DEF RunsOK, RunOK, Idle, Unscored, Working
<1>5. LeaseOK
  BY <1>3 DEF Init, LeaseOK, LeaseExclusive, AtWork, Finalized, Idle, Working
<1>6. SealedOK
  BY DEF Init, SealedOK
<1>7. QED BY <1>2, <1>4, <1>5, <1>6 DEF IInv

-----------------------------------------------------------------------------
(* What a step of a run does to the invariant *)

\* A step of one run that takes no lease: it keeps its token, if it goes on.
LEMMA RunFrame ==
  ASSUME IInv, NEW s \in Servers, NEW r \in Run, run' = [run EXCEPT ![s] = r],
         RunOK(r, entry'), HandInsKept,
         contest'.lockedUntil = contest.lockedUntil,
         contest'.finalizedAt = contest.finalizedAt,
         r.step \in Working => AtWork(s) /\ r.token = run[s].token
  PROVE  run' \in [Servers -> Run] /\ RunsOK' /\ LeaseOK'
<1>1. run \in [Servers -> Run]
  BY DEF IInv, TypeOK
<1>2. run' \in [Servers -> Run] /\ run'[s] = r
      /\ \A t \in Servers \ {s} : run'[t] = run[t]
  BY <1>1
<1>3. RunsOK'
  <2> SUFFICES ASSUME NEW t \in Servers PROVE RunOK(run'[t], entry')
    BY DEF RunsOK
  <2>1. CASE t = s
    BY <2>1, <1>2
  <2>2. CASE t # s
    BY <2>2, <1>2 DEF IInv, RunsOK, RunOK, HandInsKept
  <2>3. QED BY <2>1, <2>2
<1>4. \A t \in Servers : AtWork(t)' => AtWork(t) /\ run'[t].token = run[t].token
  BY <1>2 DEF AtWork
<1>5. LeaseOK'
  BY <1>4 DEF IInv, LeaseOK, LeaseExclusive, Finalized
<1>6. QED BY <1>2, <1>3, <1>5

\* A step of an entrant, the admin or the clock.
LEMMA QuietFrame ==
  ASSUME IInv, UNCHANGED run, HandInsKept,
         contest'.lockedUntil = contest.lockedUntil,
         contest'.finalizedAt = contest.finalizedAt
  PROVE  RunsOK' /\ LeaseOK'
<1>1. RunsOK'
  BY DEF IInv, RunsOK, RunOK, HandInsKept
<1>2. LeaseOK'
  BY DEF IInv, LeaseOK, LeaseExclusive, Finalized, AtWork
<1>3. QED BY <1>1, <1>2

\* A run that is not at work owns no lease and has scored nothing.
LEMMA OffWork ==
  ASSUME NEW now \in Nat, NEW step \in {"idle", "claim"}, NEW d
  PROVE  /\ [Idle EXCEPT !.step = step, !.now = now] \in Run
         /\ RunOK([Idle EXCEPT !.step = step, !.now = now], d)
         /\ [Idle EXCEPT !.step = step, !.now = now].step \notin Working
<1> DEFINE r == [Idle EXCEPT !.step = step, !.now = now]
<1>1. Unscored \in [Entrants -> Scored \cup {NoResult}]
  BY DEF Unscored
<1>2. Idle \in Run
  BY <1>1 DEF Idle, Run, Times
<1>3. Idle.scored = Unscored
  BY DEF Idle
<1>4. /\ r \in Run
      /\ r.step = step /\ r.scored = Idle.scored
  BY <1>2 DEF Run
<1> HIDE DEF r
<1>5. RunOK(r, d) /\ r.step \notin Working
  BY <1>3, <1>4 DEF RunOK, Unscored, Working
<1>6. QED BY <1>4, <1>5 DEF r

LEMMA RunFields ==
  ASSUME IInv, NEW s \in Servers
  PROVE  /\ run[s] \in Run
         /\ run[s].step \in {"idle", "claim"} \cup Working
         /\ run[s].now \in Nat /\ run[s].token \in Times
         /\ run[s].todo \in SUBSET Entrants
         /\ run[s].scored \in [Entrants -> Scored \cup {NoResult}]
         /\ RunOK(run[s], entry)
  BY DEF IInv, TypeOK, RunsOK, Run

\* An entry that is rewritten keeps its hand-in, and has one if it has a result.
LEMMA EntrySet ==
  ASSUME IInv, NEW e \in Entrants, NEW d \in Entry, entry' = [entry EXCEPT ![e] = d],
         entry[e].submittedAt # Never => d.submittedAt # Never,
         d.result # NoResult => d.submittedAt # Never
  PROVE  entry' \in [Entrants -> Entry] /\ HandInsKept /\ SealedOK'
<1>1. entry \in [Entrants -> Entry]
  BY DEF IInv, TypeOK
<1>2. entry' \in [Entrants -> Entry] /\ entry'[e] = d
      /\ \A o \in Entrants \ {e} : entry'[o] = entry[o]
  BY <1>1
<1>3. QED BY <1>2 DEF HandInsKept, SealedOK, IInv

LEMMA EntrantPreserves ==
  ASSUME IInv, NEW e \in Entrants, EntrantStep(e)
  PROVE  IInv'
<1>1. TypeOK
  BY DEF IInv
<1>2. entry[e] \in Entry /\ call[e] \in Call /\ contest \in Contest
  BY <1>1 DEF TypeOK
<1>3. NoCall \in Call
  BY DEF NoCall, Call, Answers
<1>4. UNCHANGED entry => HandInsKept /\ SealedOK'
  BY DEF HandInsKept, SealedOK, IInv
<1>5. CASE StartBegin(e)
  <2>1. call' \in [Entrants -> Call]
    BY <1>1, <1>3, <1>5 DEF StartBegin, TypeOK, Call
  <2>2. UNCHANGED <<clock, docs, run, failures, late>>
    BY <1>5 DEF StartBegin
  <2>3. QED BY <2>1, <2>2, <1>1, <1>4, QuietFrame DEF docs, IInv, TypeOK
<1>6. CASE StartMark(e)
  <2> DEFINE d == [entry[e] EXCEPT !.started = TRUE]
  <2>1. d \in Entry /\ d.submittedAt = entry[e].submittedAt /\ d.result = entry[e].result
    BY <1>2 DEF Entry
  <2>2. entry' = [entry EXCEPT ![e] = d]
    BY <1>6 DEF StartMark
  <2> HIDE DEF d
  <2>3. entry' \in [Entrants -> Entry] /\ HandInsKept /\ SealedOK'
    BY <2>1, <2>2, EntrySet DEF IInv, SealedOK
  <2>4. call' \in [Entrants -> Call] /\ late' \in BOOLEAN
    BY <1>1, <1>6 DEF StartMark, TypeOK, Call, Writes
  <2>5. UNCHANGED <<clock, contest, tally, event, run, failures>>
    BY <1>6 DEF StartMark
  <2>6. QED BY <2>3, <2>4, <2>5, <1>1, QuietFrame DEF IInv, TypeOK
<1>7. CASE CountStart(e)
  <2>1. contest' \in Contest /\ contest'.lockedUntil = contest.lockedUntil
        /\ contest'.finalizedAt = contest.finalizedAt
    BY <1>2, <1>7 DEF CountStart, Contest
  <2>2. call' \in [Entrants -> Call] /\ late' \in BOOLEAN
    BY <1>1, <1>3, <1>7 DEF CountStart, TypeOK, Writes
  <2>3. UNCHANGED <<clock, entry, tally, event, run, failures>>
    BY <1>7 DEF CountStart
  <2>4. QED BY <2>1, <2>2, <2>3, <1>1, <1>4, QuietFrame DEF IInv, TypeOK
<1>8. ASSUME NEW a \in Picks, SaveBegin(e, a) PROVE IInv'
  <2>1. [step |-> "save", now |-> clock, answer |-> a] \in Call
    BY <1>1, PicksAssumption DEF TypeOK, Call
  <2>2. call' \in [Entrants -> Call]
    BY <1>1, <1>8, <2>1 DEF SaveBegin, TypeOK
  <2>3. UNCHANGED <<clock, docs, run, failures, late>>
    BY <1>8 DEF SaveBegin
  <2>4. QED BY <2>2, <2>3, <1>1, <1>4, QuietFrame DEF docs, IInv, TypeOK
<1>9. CASE SaveWrite(e)
  <2>1. call' \in [Entrants -> Call]
    BY <1>1, <1>3, <1>9 DEF SaveWrite, TypeOK
  <2>2. UNCHANGED <<clock, contest, tally, event, run, failures>>
    BY <1>9 DEF SaveWrite
  <2>3. late' \in BOOLEAN
    BY <1>1, <1>9 DEF SaveWrite, Writes, TypeOK
  <2>4. entry' \in [Entrants -> Entry] /\ HandInsKept /\ SealedOK'
    <3>1. CASE entry[e].submittedAt = Never
      <4> DEFINE d == [entry[e] EXCEPT !.answer = call[e].answer]
      <4>1. call[e].answer \in Answers
        BY <1>2 DEF Call
      <4>2. d \in Entry /\ d.submittedAt = entry[e].submittedAt /\ d.result = entry[e].result
        BY <1>2, <4>1 DEF Entry
      <4>3. entry' = [entry EXCEPT ![e] = d]
        BY <3>1, <1>9 DEF SaveWrite
      <4> HIDE DEF d
      <4>4. QED BY <4>2, <4>3, EntrySet DEF IInv, SealedOK
    <3>2. CASE entry[e].submittedAt # Never
      <4>1. UNCHANGED entry
        BY <3>2, <1>9 DEF SaveWrite
      <4>2. QED BY <4>1, <1>1, <1>4 DEF TypeOK
    <3>3. QED BY <3>1, <3>2
  <2>5. QED BY <2>1, <2>2, <2>3, <2>4, <1>1, QuietFrame DEF IInv, TypeOK
<1>10. CASE SubmitBegin(e)
  <2>1. call' \in [Entrants -> Call]
    BY <1>1, <1>3, <1>10 DEF SubmitBegin, TypeOK, Call
  <2>2. UNCHANGED <<clock, docs, run, failures, late>>
    BY <1>10 DEF SubmitBegin
  <2>3. QED BY <2>1, <2>2, <1>1, <1>4, QuietFrame DEF docs, IInv, TypeOK
<1>11. CASE SubmitWrite(e)
  <2>1. UNCHANGED <<clock, contest, tally, event, run, failures>>
    BY <1>11 DEF SubmitWrite
  <2>2. call' \in [Entrants -> Call] /\ late' \in BOOLEAN
    <3>1. [call[e] EXCEPT !.step = "countSubmit"] \in Call
      BY <1>2 DEF Call
    <3>2. call' \in [Entrants -> Call]
      BY <1>1, <1>3, <1>11, <3>1 DEF SubmitWrite, TypeOK
    <3>3. late' \in BOOLEAN
      BY <1>1, <1>11 DEF SubmitWrite, TypeOK, Writes
    <3>4. QED BY <3>2, <3>3
  <2>3. entry' \in [Entrants -> Entry] /\ HandInsKept /\ SealedOK'
    <3>1. CASE entry[e].submittedAt = Never
      <4> DEFINE d == [entry[e] EXCEPT !.submittedAt = call[e].now]
      <4>1. call[e].now \in Nat
        BY <1>2 DEF Call
      <4>2. d \in Entry /\ d.submittedAt # Never
        BY <1>2, <4>1, Numbers DEF Entry, Times
      <4>3. entry' = [entry EXCEPT ![e] = d]
        BY <3>1, <1>11 DEF SubmitWrite
      <4> HIDE DEF d
      <4>4. QED BY <4>2, <4>3, EntrySet
    <3>2. CASE entry[e].submittedAt # Never
      <4>1. UNCHANGED entry
        BY <3>2, <1>11 DEF SubmitWrite
      <4>2. QED BY <4>1, <1>1, <1>4 DEF TypeOK
    <3>3. QED BY <3>1, <3>2
  <2>4. QED BY <2>1, <2>2, <2>3, <1>1, QuietFrame DEF IInv, TypeOK
<1>12. CASE CountSubmit(e)
  <2>1. contest' \in Contest /\ contest'.lockedUntil = contest.lockedUntil
        /\ contest'.finalizedAt = contest.finalizedAt
    BY <1>2, <1>12 DEF CountSubmit, Contest
  <2>2. call' \in [Entrants -> Call] /\ late' \in BOOLEAN
    BY <1>1, <1>3, <1>12 DEF CountSubmit, TypeOK, Writes
  <2>3. UNCHANGED <<clock, entry, tally, event, run, failures>>
    BY <1>12 DEF CountSubmit
  <2>4. QED BY <2>1, <2>2, <2>3, <1>1, <1>4, QuietFrame DEF IInv, TypeOK
<1>13. QED BY <1>5, <1>6, <1>7, <1>8, <1>9, <1>10, <1>11, <1>12 DEF EntrantStep

\* Everything a step of a run leaves alone when it writes neither the contest
\* nor an entry.
LEMMA OnlyRun ==
  ASSUME IInv, UNCHANGED <<clock, contest, entry, call, failures, late>>,
         run' \in [Servers -> Run], RunsOK', LeaseOK',
         tally' \in [answered : Nat, correct : Nat],
         event' \in [Entrants -> Event \cup {NoResult}]
  PROVE  IInv'
  BY DEF IInv, TypeOK, SealedOK

LEMMA WakePreserves ==
  ASSUME IInv, NEW s \in Servers, Wake(s)
  PROVE  IInv'
<1> DEFINE r == [Idle EXCEPT !.step = "claim", !.now = clock]
<1>1. clock \in Nat
  BY DEF IInv, TypeOK
<1>2. r \in Run /\ RunOK(r, entry') /\ r.step \notin Working
  BY <1>1, OffWork
<1>3. run' = [run EXCEPT ![s] = r] /\ UNCHANGED <<clock, docs, call, failures, late>>
  BY DEF Wake
<1> HIDE DEF r
<1>4. HandInsKept
  BY <1>3 DEF HandInsKept, docs
<1>5. run' \in [Servers -> Run] /\ RunsOK' /\ LeaseOK'
  BY <1>2, <1>3, <1>4, RunFrame DEF docs
<1>6. QED BY <1>3, <1>5, OnlyRun DEF docs, IInv, TypeOK

\* A run that leaves its work, whether it gave up, lost the lease or died.
LEMMA OffRun ==
  ASSUME IInv, NEW s \in Servers, NEW r \in {Idle, Again(s)}
  PROVE  /\ r \in Run
         /\ r.step \notin Working
         /\ \A d : RunOK(r, d)
<1>1. CASE r = Again(s)
  BY <1>1, OffWork, RunFields DEF Again
<1>2. CASE r = Idle
  <2>1. Unscored \in [Entrants -> Scored \cup {NoResult}]
    BY DEF Unscored
  <2>2. Idle \in Run
    BY <2>1 DEF Idle, Run, Times
  <2>3. Idle.step \notin Working /\ \A d : RunOK(Idle, d)
    BY DEF Idle, RunOK, Unscored, Working
  <2>4. QED BY <1>2, <2>2, <2>3
<1>3. QED BY <1>1, <1>2

LEMMA FailRunPreserves ==
  ASSUME IInv, NEW s \in Servers, FailRun(s)
  PROVE  IInv'
<1>1. PICK r \in {Idle, Again(s)} : run' = [run EXCEPT ![s] = r]
  BY DEF FailRun
<1>2. r \in Run /\ RunOK(r, entry') /\ r.step \notin Working
  BY OffRun
<1>3. UNCHANGED <<clock, docs, call, late>> /\ failures' = failures + 1
  BY DEF FailRun
<1>4. HandInsKept
  BY <1>3 DEF HandInsKept, docs
<1>5. run' \in [Servers -> Run] /\ RunsOK' /\ LeaseOK'
  BY <1>1, <1>2, <1>3, <1>4, RunFrame DEF docs
<1>6. QED BY <1>3, <1>5 DEF docs, IInv, TypeOK, SealedOK

\* A new token is later than the lock it replaces, hence than every token at
\* work; and with no lock on an open contest no one is at work.
LEMMA ClaimPreserves ==
  ASSUME IInv, NEW s \in Servers, Claim(s)
  PROVE  IInv'
<1> DEFINE now == run[s].now
           token == now + Lease
           r == [step |-> "scan", now |-> now, token |-> token,
                 todo |-> Entrants, scored |-> Unscored]
<1>1. now \in Nat /\ run \in [Servers -> Run] /\ contest \in Contest /\ ~AtWork(s)
  BY RunFields DEF IInv, TypeOK, Claim, AtWork, Working
<1>2. UNCHANGED <<clock, entry, tally, event, call, failures, late>>
  BY DEF Claim
<1>3. HandInsKept
  BY <1>2 DEF HandInsKept
<1>4. CASE Claimable(now)
  <2>1. contest' = [contest EXCEPT !.lockedUntil = token] /\ run' = [run EXCEPT ![s] = r]
    BY <1>4 DEF Claim
  <2>2. token \in Nat
    BY <1>1, Numbers
  <2>3. r \in Run
    BY <1>1, <2>2 DEF Run, Working, Times, Unscored
  <2>4. RunOK(r, entry') /\ r.step \in Working /\ r.token = token
    BY <2>2 DEF RunOK, Working, Unscored
  <2>5. run' \in [Servers -> Run] /\ run'[s] = r
        /\ \A t \in Servers \ {s} : run'[t] = run[t]
    BY <1>1, <2>1, <2>3
  <2>6. contest' \in Contest /\ contest'.lockedUntil = token
        /\ contest'.finalizedAt = contest.finalizedAt
    BY <1>1, <2>1, <2>2 DEF Contest, Times
  <2>7. ~Finalized /\ (contest.lockedUntil = Never \/ contest.lockedUntil <= now)
    BY <1>4 DEF Claimable, Finalized
  <2> HIDE DEF r, token, now
  <2>8. \A t \in Servers \ {s} : AtWork(t)' => AtWork(t) /\ run'[t].token = run[t].token
    BY <2>5 DEF AtWork
  <2>9. contest.lockedUntil \in Nat \cup {Never}
    BY <1>1 DEF Contest, Times
  <2>10. \A t \in Servers \ {s} : AtWork(t) => run[t].token \in Nat /\ run[t].token < token
    <3> SUFFICES ASSUME NEW t \in Servers \ {s}, AtWork(t)
                 PROVE  run[t].token \in Nat /\ run[t].token < token
      OBVIOUS
    <3>1. run[t].token \in Nat
      BY DEF IInv, RunsOK, RunOK, AtWork
    <3>2. contest.lockedUntil # Never
      BY <2>7 DEF IInv, LeaseOK
    <3>3. run[t].token <= contest.lockedUntil
      BY <3>2 DEF IInv, LeaseOK
    <3>4. contest.lockedUntil <= now /\ now < token
      BY <2>7, <3>2, <1>1, Numbers DEF token, now
    <3>5. now \in Nat
      BY <1>1
    <3>6. QED BY <3>1, <3>2, <3>3, <3>4, <3>5, <2>2, <2>9
  <2>11. LeaseOK'
    <3>1. (Finalized => contest.lockedUntil = Never)'
      BY <2>6, <2>7 DEF Finalized
    <3>2. contest'.lockedUntil # Never
      BY <2>2, <2>6, Numbers
    <3>3. ASSUME NEW t \in Servers, AtWork(t)' PROVE run'[t].token <= token
      <4>1. CASE t = s
        BY <4>1, <2>2, <2>4, <2>5
      <4>2. CASE t # s
        BY <4>2, <3>3, <2>2, <2>8, <2>10
      <4>3. QED BY <4>1, <4>2
    <3>4. ASSUME NEW t \in Servers, NEW u \in Servers, AtWork(t)', AtWork(u)',
                 run'[t].token = run'[u].token
          PROVE  t = u
      <4>1. CASE t = s /\ u = s
        BY <4>1
      <4>2. CASE t = s /\ u # s
        BY <4>2, <3>4, <2>2, <2>4, <2>5, <2>8, <2>10
      <4>3. CASE t # s /\ u = s
        BY <4>3, <3>4, <2>2, <2>4, <2>5, <2>8, <2>10
      <4>4. CASE t # s /\ u # s
        BY <4>4, <3>4, <2>8 DEF IInv, LeaseOK, LeaseExclusive
      <4>5. QED BY <4>1, <4>2, <4>3, <4>4
    <3>5. LeaseExclusive'
      BY <3>4 DEF LeaseExclusive
    <3>6. QED BY <3>1, <3>2, <3>3, <3>5, <2>6 DEF LeaseOK
  <2>12. RunsOK'
    <3> SUFFICES ASSUME NEW t \in Servers PROVE RunOK(run'[t], entry')
      BY DEF RunsOK
    <3>1. CASE t = s
      BY <3>1, <2>4, <2>5
    <3>2. CASE t # s
      BY <3>2, <2>5, <1>3 DEF IInv, RunsOK, RunOK, HandInsKept
    <3>3. QED BY <3>1, <3>2
  <2>13. QED BY <1>2, <2>5, <2>6, <2>11, <2>12 DEF IInv, TypeOK, SealedOK
<1>5. CASE ~Claimable(now)
  <2>1. contest' = contest /\ run' = [run EXCEPT ![s] = Idle]
    BY <1>5 DEF Claim
  <2>2. Idle \in Run /\ RunOK(Idle, entry') /\ Idle.step \notin Working
    BY OffRun
  <2>3. run' \in [Servers -> Run] /\ RunsOK' /\ LeaseOK'
    BY <2>1, <2>2, <1>3, RunFrame
  <2>4. QED BY <1>2, <2>1, <2>3, OnlyRun DEF IInv, TypeOK
<1>6. QED BY <1>4, <1>5

LEMMA ScanPreserves ==
  ASSUME IInv, NEW s \in Servers, NEW e \in Entrants, Scan(s, e)
  PROVE  IInv'
<1> DEFINE read == [run[s].scored EXCEPT ![e] =
                      IF entry[e].started THEN ScoreOf(entry[e]) ELSE NoResult]
           rest == run[s].todo \ {e}
           todo == IF rest = {} THEN Starters(read) ELSE rest
           step == IF rest = {} THEN "write" ELSE "scan"
           r == [run[s] EXCEPT !.scored = read, !.todo = todo, !.step = step]
<1>1. run[s] \in Run /\ run[s].step = "scan" /\ AtWork(s)
  BY RunFields DEF Scan, AtWork, Working
<1>2. entry[e] \in Entry
  BY DEF IInv, TypeOK
<1>3. ScoreOf(entry[e]) \in Scored
      /\ (~ScoreOf(entry[e]).auto => entry[e].submittedAt # Never)
  BY <1>2, ScoreOfType
<1>4. read \in [Entrants -> Scored \cup {NoResult}]
  BY <1>3, RunFields
<1>5. \A o \in Entrants : read[o] # NoResult /\ ~read[o].auto => entry[o].submittedAt # Never
  <2> SUFFICES ASSUME NEW o \in Entrants, read[o] # NoResult, ~read[o].auto
               PROVE  entry[o].submittedAt # Never
    OBVIOUS
  <2>1. CASE o = e
    <3>1. read[o] = IF entry[e].started THEN ScoreOf(entry[e]) ELSE NoResult
      BY <2>1, RunFields
    <3>2. read[o] = ScoreOf(entry[e])
      BY <3>1
    <3>3. QED BY <2>1, <3>2, <1>3
  <2>2. CASE o # e
    <3>1. read[o] = run[s].scored[o]
      BY <2>2, RunFields
    <3>2. QED BY <3>1, RunFields DEF RunOK
  <2>3. QED BY <2>1, <2>2
<1> HIDE DEF read
<1>6. todo \in SUBSET Entrants /\ step \in {"write", "scan"}
      /\ (step = "write" => todo \subseteq Starters(read))
  BY RunFields, StartersFinite
<1> HIDE DEF todo, step
<1>7. r \in Run /\ r.scored = read /\ r.todo = todo /\ r.step = step
      /\ r.token = run[s].token
  BY <1>1, <1>4, <1>6 DEF Run, Working
<1>8. run' = [run EXCEPT ![s] = r]
  BY DEF Scan, read, rest, todo, step
<1>9. UNCHANGED <<clock, docs, call, failures, late>>
  BY DEF Scan
<1> HIDE DEF r
<1>10. RunOK(r, entry')
  <2>1. entry' = entry
    BY <1>9 DEF docs
  <2>2. run[s].token \in Nat
    BY <1>1, RunFields DEF RunOK, AtWork
  <2>3. QED BY <2>1, <2>2, <1>5, <1>6, <1>7 DEF RunOK, Working
<1>11. HandInsKept
  BY <1>9 DEF HandInsKept, docs
<1>12. run' \in [Servers -> Run] /\ RunsOK' /\ LeaseOK'
  BY <1>1, <1>7, <1>8, <1>9, <1>10, <1>11, RunFrame DEF docs
<1>13. QED BY <1>9, <1>12, OnlyRun DEF docs, IInv, TypeOK

\* A step that only shortens the todo of a run.
LEMMA TodoFrame ==
  ASSUME IInv, NEW s \in Servers, AtWork(s), NEW todo \in SUBSET Starters(run[s].scored),
         NEW step \in {"write", "events"},
         run' = [run EXCEPT ![s] = [run[s] EXCEPT !.step = step, !.todo = todo]],
         HandInsKept, UNCHANGED contest
  PROVE  run' \in [Servers -> Run] /\ RunsOK' /\ LeaseOK'
<1> DEFINE r == [run[s] EXCEPT !.step = step, !.todo = todo]
<1>1. todo \in SUBSET Entrants
  BY StartersFinite
<1>2. r \in Run /\ r.step = step /\ r.todo = todo /\ r.scored = run[s].scored
      /\ r.token = run[s].token
  BY <1>1, RunFields DEF Run, Working
<1> HIDE DEF r
<1>3. RunOK(r, entry')
  <2>1. run[s].token \in Nat
    BY RunFields DEF RunOK, AtWork
  <2>2. QED BY <2>1, <1>2, RunFields DEF RunOK, HandInsKept
<1>4. QED BY <1>2, <1>3, RunFrame DEF r

LEMMA WriteResultPreserves ==
  ASSUME IInv, NEW s \in Servers, NEW e \in Entrants, WriteResult(s, e)
  PROVE  IInv'
<1> DEFINE scored == run[s].scored
           res == ResultOf(e, scored)
           d == WithResult(entry[e], res, scored[e].auto)
<1>1. run[s].step = "write" /\ AtWork(s) /\ e \in run[s].todo
  BY DEF WriteResult, AtWork, Working
<1>2. run[s].todo \subseteq Starters(scored) /\ scored \in [Entrants -> Scored \cup {NoResult}]
      /\ run[s] \in Run
  BY <1>1, RunFields DEF RunOK
<1>3. res \in Result
  BY <1>1, <1>2, ResultOfType
<1>4. entry[e] \in Entry /\ entry \in [Entrants -> Entry]
  BY DEF IInv, TypeOK
<1>5. scored[e].auto \/ entry[e].submittedAt # Never
  <2>1. scored[e] # NoResult
    BY <1>1, <1>2 DEF Starters
  <2>2. QED BY <2>1, RunFields DEF RunOK
<1> HIDE DEF res
<1>6. d \in Entry /\ d.submittedAt # Never
  <2>1. CASE scored[e].auto
    <3>1. d = [entry[e] EXCEPT !.result = res, !.submittedAt = EndAt, !.auto = TRUE]
      BY <2>1 DEF WithResult
    <3>2. QED BY <3>1, <1>3, <1>4, Numbers DEF Entry, Times
  <2>2. CASE ~scored[e].auto
    <3>1. d = [entry[e] EXCEPT !.result = res]
      BY <2>2 DEF WithResult
    <3>2. d \in Entry /\ d.submittedAt = entry[e].submittedAt
      BY <3>1, <1>3, <1>4 DEF Entry
    <3>3. QED BY <3>2, <2>2, <1>5
  <2>3. QED BY <2>1, <2>2
<1>7. entry' = [entry EXCEPT ![e] = d]
  BY <1>4 DEF WriteResult, res
<1>8. UNCHANGED <<clock, contest, tally, event, call, failures, late>>
  BY DEF WriteResult
<1> HIDE DEF d
<1>9. entry' \in [Entrants -> Entry] /\ HandInsKept /\ SealedOK'
  BY <1>6, <1>7, EntrySet
<1> DEFINE todo == run[s].todo \ {e}
<1>10. run' = [run EXCEPT ![s] = [run[s] EXCEPT !.step = "write", !.todo = todo]]
  <2>1. run' = [run EXCEPT ![s] = [run[s] EXCEPT !.todo = todo]]
    BY DEF WriteResult
  <2>2. [run[s] EXCEPT !.todo = todo] = [run[s] EXCEPT !.step = "write", !.todo = todo]
    BY <1>1, <1>2 DEF Run
  <2>3. QED BY <2>1, <2>2
<1>11. todo \in SUBSET Starters(run[s].scored)
  BY <1>2
<1> HIDE DEF todo, scored
<1>12. run' \in [Servers -> Run] /\ RunsOK' /\ LeaseOK'
  BY <1>1, <1>8, <1>9, <1>10, <1>11, TodoFrame
<1>13. QED BY <1>8, <1>9, <1>12 DEF IInv, TypeOK

LEMMA WriteTallyPreserves ==
  ASSUME IInv, NEW s \in Servers, WriteTally(s)
  PROVE  IInv'
<1> DEFINE todo == Starters(run[s].scored)
<1>1. AtWork(s) /\ run[s] \in Run
  BY RunFields DEF WriteTally, AtWork, Working
<1>2. UNCHANGED <<clock, contest, entry, event, call, failures, late>>
  BY DEF WriteTally
<1>3. tally' \in [answered : Nat, correct : Nat]
  BY TallyOfType DEF WriteTally
<1>4. run' = [run EXCEPT ![s] = [run[s] EXCEPT !.step = "events", !.todo = todo]]
  BY DEF WriteTally
<1>5. HandInsKept
  BY <1>2 DEF HandInsKept
<1>6. run' \in [Servers -> Run] /\ RunsOK' /\ LeaseOK'
  BY <1>1, <1>2, <1>4, <1>5, TodoFrame
<1>7. QED BY <1>2, <1>3, <1>6, OnlyRun DEF IInv, TypeOK

LEMMA WriteEventPreserves ==
  ASSUME IInv, NEW s \in Servers, NEW e \in Entrants, WriteEvent(s, e)
  PROVE  IInv'
<1> DEFINE todo == run[s].todo \ {e}
<1>1. AtWork(s) /\ run[s].step = "events" /\ e \in run[s].todo
  BY DEF WriteEvent, AtWork, Working
<1>2. run[s].todo \subseteq Starters(run[s].scored) /\ run[s] \in Run
      /\ run[s].scored \in [Entrants -> Scored \cup {NoResult}]
  BY <1>1, RunFields DEF RunOK
<1>3. UNCHANGED <<clock, contest, entry, tally, call, failures, late>>
  BY DEF WriteEvent
<1>4. event' \in [Entrants -> Event \cup {NoResult}]
  <2>1. EventOf(e, run[s].scored) \in Event
    BY <1>1, <1>2, EventOfType
  <2>2. QED BY <2>1 DEF WriteEvent, IInv, TypeOK
<1>5. run' = [run EXCEPT ![s] = [run[s] EXCEPT !.step = "events", !.todo = todo]]
  <2>1. run' = [run EXCEPT ![s] = [run[s] EXCEPT !.todo = todo]]
    BY DEF WriteEvent
  <2>2. [run[s] EXCEPT !.todo = todo] = [run[s] EXCEPT !.step = "events", !.todo = todo]
    BY <1>1, <1>2 DEF Run
  <2>3. QED BY <2>1, <2>2
<1>6. HandInsKept /\ todo \in SUBSET Starters(run[s].scored)
  BY <1>2, <1>3 DEF HandInsKept
<1> HIDE DEF todo
<1>7. run' \in [Servers -> Run] /\ RunsOK' /\ LeaseOK'
  BY <1>1, <1>3, <1>5, <1>6, TodoFrame
<1>8. QED BY <1>3, <1>4, <1>7, OnlyRun DEF IInv, TypeOK

\* After the close there is no lock to match, and no claim can set one.
LEMMA ClosePreserves ==
  ASSUME IInv, NEW s \in Servers, Close(s)
  PROVE  IInv'
<1> DEFINE r == Again(s)
<1>1. AtWork(s) /\ run \in [Servers -> Run] /\ contest \in Contest
  BY DEF Close, AtWork, Working, IInv, TypeOK
<1>2. r \in Run /\ r.step \notin Working /\ RunOK(r, entry')
  BY OffRun
<1>3. run' = [run EXCEPT ![s] = r] /\ UNCHANGED <<clock, entry, tally, event, call, failures, late>>
  BY DEF Close
<1>4. HandInsKept
  BY <1>3 DEF HandInsKept
<1> HIDE DEF r
<1>5. CASE HoldsLease(s)
  <2> DEFINE n == Cardinality(Starters(run[s].scored))
             rated == n >= RatedMinStarters
  <2>1. n \in Nat /\ rated \in BOOLEAN /\ run[s].now \in Nat
    BY StartersFinite, RunFields
  <2>2. contest' = [contest EXCEPT !.finalizedAt = run[s].now, !.lockedUntil = Never,
                                   !.rated = rated, !.startedCount = n, !.submittedCount = n]
    BY <1>5 DEF Close, ClosedBy
  <2> HIDE DEF n, rated
  <2>3. contest' \in Contest /\ contest'.lockedUntil = Never /\ contest'.finalizedAt = run[s].now
    BY <1>1, <2>1, <2>2 DEF Contest, Times
  <2>4. Finalized'
    BY <2>1, <2>3, Numbers DEF Finalized
  <2>5. run' \in [Servers -> Run] /\ run'[s] = r
        /\ \A t \in Servers \ {s} : run'[t] = run[t]
    BY <1>1, <1>2, <1>3
  <2>6. \A t \in Servers : AtWork(t)' => AtWork(t) /\ run'[t] = run[t]
    BY <2>5, <1>2 DEF AtWork
  <2>7. LeaseOK'
    BY <2>3, <2>4, <2>6 DEF LeaseOK, LeaseExclusive, IInv
  <2>8. RunsOK'
    BY <2>5, <1>2, <1>3 DEF IInv, RunsOK
  <2>9. QED BY <1>3, <2>3, <2>5, <2>7, <2>8 DEF IInv, TypeOK, SealedOK
<1>6. CASE ~HoldsLease(s)
  <2>1. contest' = contest
    BY <1>6 DEF Close
  <2>2. run' \in [Servers -> Run] /\ RunsOK' /\ LeaseOK'
    BY <2>1, <1>2, <1>3, <1>4, RunFrame
  <2>3. QED BY <1>3, <2>1, <2>2, OnlyRun DEF IInv, TypeOK
<1>7. QED BY <1>5, <1>6

LEMMA OthersPreserve ==
  ASSUME IInv, Cancel \/ Tick \/ \E e \in Entrants : FailCall(e)
  PROVE  IInv'
<1>1. TypeOK /\ contest \in Contest
  BY DEF IInv, TypeOK
<1>2. UNCHANGED entry => HandInsKept /\ SealedOK'
  BY DEF HandInsKept, SealedOK, IInv
<1>3. CASE Cancel
  <2>1. contest' \in Contest /\ contest'.lockedUntil = contest.lockedUntil
        /\ contest'.finalizedAt = contest.finalizedAt
    BY <1>1, <1>3 DEF Cancel, Contest
  <2>2. UNCHANGED <<clock, entry, tally, event, run, call, failures, late>>
    BY <1>3 DEF Cancel
  <2>3. QED BY <2>1, <2>2, <1>1, <1>2, QuietFrame DEF IInv, TypeOK
<1>4. CASE Tick
  <2>1. UNCHANGED <<docs, run, call, failures, late>> /\ clock' \in Nat
    BY <1>1, <1>4 DEF Tick, TypeOK
  <2>2. QED BY <2>1, <1>1, <1>2, QuietFrame DEF IInv, TypeOK, docs
<1>5. ASSUME NEW e \in Entrants, FailCall(e) PROVE IInv'
  <2>1. UNCHANGED <<clock, docs, run, late>> /\ failures' \in Nat
    BY <1>1, <1>5 DEF FailCall, TypeOK
  <2>2. call' \in [Entrants -> Call]
    <3>1. NoCall \in Call
      BY DEF NoCall, Call, Answers
    <3>2. QED BY <3>1, <1>1, <1>5 DEF FailCall, TypeOK
  <2>3. QED BY <2>1, <2>2, <1>1, <1>2, QuietFrame DEF IInv, TypeOK, docs
<1>6. QED BY <1>3, <1>4, <1>5

LEMMA NextPreserves == IInv /\ [Next]_vars => IInv'
<1> SUFFICES ASSUME IInv, [Next]_vars PROVE IInv'
  OBVIOUS
<1>1. ASSUME NEW s \in Servers, RunStep(s) PROVE IInv'
  BY <1>1, ClaimPreserves, ScanPreserves, WriteResultPreserves, WriteTallyPreserves,
     WriteEventPreserves, ClosePreserves DEF RunStep
<1>2. CASE UNCHANGED vars
  BY <1>2 DEF vars, docs, IInv, TypeOK, RunsOK, RunOK, LeaseOK, LeaseExclusive, SealedOK,
              Finalized, AtWork
<1>3. QED BY <1>1, <1>2, EntrantPreserves, WakePreserves, FailRunPreserves, OthersPreserve
          DEF Next

-----------------------------------------------------------------------------
(* The theorems *)

\* Every state is well typed: times are times, results are of entries that were
\* scored, and a run at work always has the token of its claim.
THEOREM TypeCorrect == Spec => []TypeOK
<1>1. IInv => TypeOK
  BY DEF IInv
<1>2. QED BY <1>1, InitTyped, NextPreserves, PTL DEF Spec

\* No two runs ever hold the same token, however many servers claim the contest,
\* however old the time they claim it with (claim, finalize.service.ts).
THEOREM OneHolder == Spec => []LeaseExclusive
<1>1. IInv => LeaseExclusive
  BY DEF IInv, LeaseOK
<1>2. QED BY <1>1, InitTyped, NextPreserves, PTL DEF Spec

\* An entry with a result is handed in and its answer never changes again, since
\* the result and submittedAt are one update and a save filters on submittedAt.
THEOREM SealedOnceRanked == Spec => RankedEntriesSealed
<1>1. IInv /\ [Next]_vars => [KeepsRankedSealed]_vars
  <2> SUFFICES ASSUME IInv, Next, NEW e \in Entrants, entry[e].result # NoResult
               PROVE  entry[e].submittedAt # Never /\ entry'[e].answer = entry[e].answer
    BY DEF KeepsRankedSealed
  <2>1. entry[e].submittedAt # Never
    BY DEF IInv, SealedOK
  <2>2. entry[e] \in Entry /\ entry \in [Entrants -> Entry]
    BY DEF IInv, TypeOK
  <2>3. UNCHANGED entry => entry'[e].answer = entry[e].answer
    OBVIOUS
  <2>4. ASSUME NEW o \in Entrants, EntrantStep(o) PROVE entry'[e].answer = entry[e].answer
    <3>1. CASE StartMark(o)
      BY <3>1, <2>2 DEF StartMark, Entry
    <3>2. CASE SaveWrite(o)
      <4>1. CASE o = e
        BY <4>1, <3>2, <2>1 DEF SaveWrite
      <4>2. CASE o # e
        BY <4>2, <3>2, <2>2 DEF SaveWrite
      <4>3. QED BY <4>1, <4>2
    <3>3. CASE SubmitWrite(o)
      BY <3>3, <2>2 DEF SubmitWrite, Entry
    <3>4. QED BY <2>4, <3>1, <3>2, <3>3
              DEF EntrantStep, StartBegin, CountStart, SaveBegin, SubmitBegin, CountSubmit, docs
  <2>5. ASSUME NEW s \in Servers, NEW o \in Entrants, WriteResult(s, o)
        PROVE  entry'[e].answer = entry[e].answer
    <3> DEFINE d == WithResult(entry[o], ResultOf(o, run[s].scored), run[s].scored[o].auto)
    <3>1. entry' = [entry EXCEPT ![o] = d]
      BY <2>2, <2>5 DEF WriteResult
    <3>2. entry[o] \in Entry
      BY DEF IInv, TypeOK
    <3>3. d.answer = entry[o].answer
      BY <3>2 DEF WithResult, Entry
    <3> HIDE DEF d
    <3>4. QED BY <3>1, <3>3, <2>2
  <2>6. ASSUME NEW s \in Servers, RunStep(s) PROVE entry'[e].answer = entry[e].answer
    BY <2>6, <2>5, <2>3 DEF RunStep, Claim, Scan, WriteTally, WriteEvent, Close, docs
  <2>7. QED BY <2>1, <2>3, <2>4, <2>6 DEF Next, Wake, FailRun, FailCall, Cancel, Tick, docs
<1>2. QED BY <1>1, InitTyped, NextPreserves, PTL DEF Spec, RankedEntriesSealed

-----------------------------------------------------------------------------
(* The lease implements ownership *)

LEMMA OwnerIsHolder ==
  ASSUME IInv, NEW s \in Owners
  PROVE  Owner = s
<1>1. \A t \in Owners : t = s
  BY DEF IInv, LeaseOK, LeaseExclusive, Owners
<1>2. Owner \in Owners
  BY DEF Owner
<1>3. QED BY <1>1, <1>2

LEMMA SameOwner ==
  ASSUME Owners' = Owners
  PROVE  Owner' = Owner
  BY DEF Owner

LEMMA InitOwnership == Init => Ownership!Init
<1> SUFFICES ASSUME Init PROVE Owner = NoOne /\ Finalized = FALSE
  BY DEF Ownership!Init
<1>1. \A s \in Servers : ~AtWork(s)
  BY DEF Init, AtWork, Idle, Working
<1>2. Owners = {}
  BY <1>1 DEF Owners
<1>3. QED BY <1>2 DEF Init, Owner, Finalized

\* A claim is a Take: the other tokens at work are below the new one.
LEMMA ClaimTakes ==
  ASSUME IInv, IInv', NEW s \in Servers, Claim(s)
  PROVE  [Ownership!Next]_<<Owner, Finalized>>
<1>1. run \in [Servers -> Run] /\ contest \in Contest /\ ~AtWork(s)
  BY DEF IInv, TypeOK, Claim, AtWork, Working
<1>2. CASE Claimable(run[s].now)
  <2>1. contest' = [contest EXCEPT !.lockedUntil = run[s].now + Lease]
    BY <1>2 DEF Claim
  <2>2. run'[s].step = "scan" /\ run'[s].token = run[s].now + Lease
    BY <1>1, <1>2 DEF Claim
  <2>3. contest'.lockedUntil = run[s].now + Lease /\ contest'.finalizedAt = contest.finalizedAt
    BY <1>1, <2>1 DEF Contest
  <2>4. s \in Owners'
    BY <2>2, <2>3 DEF Owners, AtWork, Working
  <2>5. Owner' = s
    <3>1. \A t \in Owners' : t = s
      BY <2>4 DEF IInv, LeaseOK, LeaseExclusive, Owners
    <3>2. Owner' \in Owners'
      BY <2>4 DEF Owner
    <3>3. QED BY <3>1, <3>2
  <2>6. ~Finalized /\ (Finalized' <=> Finalized)
    BY <1>2, <2>3 DEF Claimable, Finalized
  <2>7. Ownership!Take(s)
    BY <2>5, <2>6 DEF Ownership!Take, Finalized
  <2>8. QED BY <2>7 DEF Ownership!Next
<1>3. CASE ~Claimable(run[s].now)
  <2>1. contest' = contest /\ run' = [run EXCEPT ![s] = Idle]
    BY <1>3 DEF Claim
  <2>2. ~AtWork(s)' /\ \A t \in Servers \ {s} : run'[t] = run[t]
    BY <1>1, <2>1 DEF AtWork, Idle, Working
  <2>3. Owners' = Owners
    BY <1>1, <2>1, <2>2 DEF Owners, AtWork
  <2>4. QED BY <2>1, <2>3, SameOwner DEF Finalized
<1>4. QED BY <1>2, <1>3

\* A run that stops is a Lose if it was the owner, and a stutter if not.
LEMMA StopLoses ==
  ASSUME IInv, NEW s \in Servers, AtWork(s), ~AtWork(s)', UNCHANGED contest,
         \A t \in Servers \ {s} : run'[t] = run[t]
  PROVE  [Ownership!Next]_<<Owner, Finalized>>
<1>1. CASE s \in Owners
  <2>1. Owner = s /\ \A t \in Owners : t = s
    BY <1>1, OwnerIsHolder DEF IInv, LeaseOK, LeaseExclusive, Owners
  <2>2. Owners' = {}
    BY <2>1 DEF Owners, AtWork
  <2>3. Owner' = NoOne
    BY <2>2 DEF Owner
  <2>4. Finalized' = Finalized
    BY DEF Finalized
  <2>5. CASE Owner = NoOne
    BY <2>3, <2>4, <2>5
  <2>6. CASE Owner # NoOne
    BY <2>3, <2>4, <2>6 DEF Ownership!Next, Ownership!Lose
  <2>7. QED BY <2>5, <2>6
<1>2. CASE s \notin Owners
  <2>1. Owners' = Owners
    BY <1>2 DEF Owners, AtWork
  <2>2. QED BY <2>1, SameOwner DEF Finalized
<1>3. QED BY <1>1, <1>2

\* The close of the holder is the owner's Finish; any other close changes nothing.
LEMMA CloseFinishes ==
  ASSUME IInv, IInv', NEW s \in Servers, Close(s)
  PROVE  [Ownership!Next]_<<Owner, Finalized>>
<1>1. run \in [Servers -> Run] /\ contest \in Contest /\ AtWork(s)
      /\ run[s].now \in Nat /\ run[s].token \in Nat
  BY RunFields DEF IInv, TypeOK, Close, AtWork, Working, RunOK
<1>2. run'[s] = Again(s) /\ \A t \in Servers \ {s} : run'[t] = run[t]
  BY <1>1 DEF Close
<1>3. ~AtWork(s)'
  BY <1>2, OffRun DEF AtWork
<1>4. CASE HoldsLease(s)
  <2>1. contest'.lockedUntil = Never /\ contest'.finalizedAt = run[s].now
    BY <1>1, <1>4 DEF Close, ClosedBy, Contest
  <2>2. Owner = s
    BY <1>1, <1>4, OwnerIsHolder DEF Owners, HoldsLease
  <2>3. ~Finalized /\ Finalized'
    BY <1>1, <1>4, <2>1, Numbers DEF Finalized, HoldsLease, IInv, LeaseOK
  <2>4. Owners' = {}
    <3>1. \A t \in Servers : AtWork(t)' => run'[t].token \in Nat
      BY DEF IInv, RunsOK, RunOK, AtWork
    <3>2. QED BY <3>1, <2>1, Numbers DEF Owners
  <2>5. Owner' = NoOne
    BY <2>4 DEF Owner
  <2>6. Ownership!Finish(s)
    BY <2>2, <2>3, <2>5 DEF Ownership!Finish, Finalized
  <2>7. QED BY <2>6 DEF Ownership!Next
<1>5. CASE ~HoldsLease(s)
  <2>1. contest' = contest
    BY <1>5 DEF Close
  <2>2. QED BY <1>1, <1>2, <1>3, <2>1, StopLoses
<1>6. QED BY <1>4, <1>5

\* Any step that leaves the tokens at work and the lock alone is a stutter.
LEMMA SameLease ==
  ASSUME contest'.lockedUntil = contest.lockedUntil,
         contest'.finalizedAt = contest.finalizedAt,
         \A t \in Servers : (AtWork(t)' <=> AtWork(t)) /\ (AtWork(t) => run'[t].token = run[t].token)
  PROVE  UNCHANGED <<Owner, Finalized>>
<1>1. Owners' = Owners
  BY DEF Owners
<1>2. QED BY <1>1, SameOwner DEF Finalized

LEMMA NextOwnership ==
  ASSUME IInv, IInv', [Next]_vars
  PROVE  [Ownership!Next]_<<Owner, Finalized>>
<1>1. run \in [Servers -> Run] /\ contest \in Contest
  BY DEF IInv, TypeOK
<1>2. ASSUME UNCHANGED run, contest'.lockedUntil = contest.lockedUntil,
             contest'.finalizedAt = contest.finalizedAt
      PROVE  UNCHANGED <<Owner, Finalized>>
  BY <1>2, SameLease DEF AtWork
<1>3. ASSUME NEW e \in Entrants, EntrantStep(e)
      PROVE  UNCHANGED <<Owner, Finalized>>
  <2>1. UNCHANGED run
    BY <1>3 DEF EntrantStep, StartBegin, StartMark, CountStart, SaveBegin, SaveWrite,
                SubmitBegin, SubmitWrite, CountSubmit
  <2>2. contest'.lockedUntil = contest.lockedUntil /\ contest'.finalizedAt = contest.finalizedAt
    BY <1>1, <1>3 DEF EntrantStep, StartBegin, StartMark, CountStart, SaveBegin, SaveWrite,
                      SubmitBegin, SubmitWrite, CountSubmit, docs, Contest
  <2>3. QED BY <2>1, <2>2, <1>2
<1>4. CASE Cancel
  BY <1>1, <1>2, <1>4 DEF Cancel, Contest
<1>5. CASE Tick \/ \E e \in Entrants : FailCall(e)
  BY <1>2, <1>5 DEF Tick, FailCall, docs
<1>6. ASSUME NEW s \in Servers, Wake(s)
      PROVE  UNCHANGED <<Owner, Finalized>>
  <2>1. ~AtWork(s) /\ ~AtWork(s)' /\ \A t \in Servers \ {s} : run'[t] = run[t]
    BY <1>1, <1>6 DEF Wake, AtWork, Idle, Working
  <2>2. contest' = contest
    BY <1>6 DEF Wake, docs
  <2>3. QED BY <2>1, <2>2, SameLease DEF AtWork
<1>7. ASSUME NEW s \in Servers, FailRun(s)
      PROVE  [Ownership!Next]_<<Owner, Finalized>>
  <2>1. PICK r \in {Idle, Again(s)} : run' = [run EXCEPT ![s] = r]
    BY <1>7 DEF FailRun
  <2>2. AtWork(s) /\ ~AtWork(s)' /\ \A t \in Servers \ {s} : run'[t] = run[t]
    BY <1>1, <1>7, <2>1, OffRun DEF FailRun, AtWork
  <2>3. contest' = contest
    BY <1>7 DEF FailRun, docs
  <2>4. QED BY <2>2, <2>3, StopLoses
<1>8. ASSUME NEW s \in Servers, NEW e \in Entrants,
             Scan(s, e) \/ WriteResult(s, e) \/ WriteEvent(s, e) \/ WriteTally(s)
      PROVE  UNCHANGED <<Owner, Finalized>>
  <2>1. contest' = contest
    BY <1>8 DEF Scan, WriteResult, WriteEvent, WriteTally, docs
  <2>2. run[s] \in Run
    BY <1>1
  <2>3. AtWork(s) /\ AtWork(s)' /\ run'[s].token = run[s].token
    <3>1. run[s].step \in Working
      BY <1>8 DEF Scan, WriteResult, WriteEvent, WriteTally, Working
    <3>2. CASE Scan(s, e)
      BY <1>1, <3>1, <3>2, <2>2 DEF Scan, AtWork, Working, Run
    <3>3. CASE WriteResult(s, e) \/ WriteEvent(s, e)
      BY <1>1, <3>1, <3>3, <2>2 DEF WriteResult, WriteEvent, AtWork, Run
    <3>4. CASE WriteTally(s)
      BY <1>1, <3>1, <3>4, <2>2 DEF WriteTally, AtWork, Working, Run
    <3>5. QED BY <1>8, <3>2, <3>3, <3>4
  <2>4. \A t \in Servers \ {s} : run'[t] = run[t]
    BY <1>1, <1>8 DEF Scan, WriteResult, WriteEvent, WriteTally
  <2>5. QED BY <2>1, <2>3, <2>4, SameLease DEF AtWork
<1>9. ASSUME NEW s \in Servers, RunStep(s)
      PROVE  [Ownership!Next]_<<Owner, Finalized>>
  BY <1>8, <1>9, ClaimTakes, CloseFinishes, EntrantsAssumption DEF RunStep
<1>10. CASE UNCHANGED vars
  BY <1>2, <1>10 DEF vars, docs
<1>11. QED BY <1>3, <1>4, <1>5, <1>6, <1>7, <1>9, <1>10 DEF Next

\* Claims, closes and failures, seen as ownership, are those of OneFinalizer: the
\* lease has one owner, only the owner closes the contest, and it is closed once.
THEOREM LeaseImplementsOwnership == Spec => OwnedAndClosedOnce
<1>1. Init => Ownership!Init
  BY InitOwnership
<1>2. IInv /\ IInv' /\ [Next]_vars => [Ownership!Next]_<<Owner, Finalized>>
  BY NextOwnership
<1>3. Spec => []IInv
  BY InitTyped, NextPreserves, PTL DEF Spec
<1>4. QED BY <1>1, <1>2, <1>3, PTL
          DEF Spec, OwnedAndClosedOnce, Ownership!Spec, Ownership!ownership

-----------------------------------------------------------------------------
(* What one undisturbed run makes of the entries *)

Right(e) == ResultOf(e, FinalScores)
RightEvent(e) == EventOf(e, FinalScores)
Started == {e \in Entrants : entry[e].started}

\* Nothing is finalized, ranked or worked on before the end, and no run reads
\* the clock ahead of time.
EndOK ==
    /\ \A s \in Servers : run[s].now <= clock
    /\ \A s \in Servers : AtWork(s) => EndAt <= clock
    /\ Finalized => EndAt <= clock
    /\ \A e \in Entrants : entry[e].result # NoResult \/ event[e] # NoResult
                             => EndAt <= clock

\* What a run has scored and written is right, as long as no request is late.
RunRight(r) ==
    /\ r.step = "scan" => \A e \in Entrants \ r.todo : r.scored[e] = FinalScores[e]
    /\ r.step \in {"write", "events"} => r.scored = FinalScores
    /\ r.step = "write" => \A e \in Started \ r.todo : entry[e].result = Right(e)
    /\ r.step = "events" =>
         /\ \A e \in Started : entry[e].result = Right(e)
         /\ tally = TallyOf(FinalScores)
         /\ \A e \in Started \ r.todo : event[e] = RightEvent(e)

\* A result is right or there is none; so for an event.
EntryRight(e) ==
    /\ entry[e].result # NoResult => e \in Started /\ entry[e].result = Right(e)
    /\ event[e] # NoResult => e \in Started /\ event[e] = RightEvent(e)

\* After the close there is a right one for every entry that started.
ClosedRight ==
    Finalized =>
        /\ \A e \in Started : entry[e].result = Right(e) /\ event[e] = RightEvent(e)
        /\ tally = TallyOf(FinalScores)
        /\ contest.startedCount = Cardinality(Started)
        /\ contest.submittedCount = contest.startedCount

AllRight ==
    /\ \A s \in Servers : RunRight(run[s])
    /\ \A e \in Entrants : EntryRight(e)
    /\ ClosedRight

FollowOK == EndOK /\ (~late => AllRight)

-----------------------------------------------------------------------------
(* That results follow entries: what a step leaves right *)

LEMMA FinalsTyped ==
  ASSUME TypeOK
  PROVE  /\ FinalScores \in [Entrants -> Scored \cup {NoResult}]
         /\ Starters(FinalScores) = Started
         /\ \A e \in Entrants : FinalScores[e] =
              IF entry[e].started THEN ScoreOf(entry[e]) ELSE NoResult
<1>1. \A e \in Entrants : entry[e] \in Entry
  BY DEF TypeOK
<1>2. \A e \in Entrants : ScoreOf(entry[e]) \in Scored
  BY <1>1, ScoreOfType
<1>3. \A e \in Entrants : FinalScores[e] =
        IF entry[e].started THEN ScoreOf(entry[e]) ELSE NoResult
  BY DEF FinalScores
<1>4. FinalScores \in [Entrants -> Scored \cup {NoResult}]
  <2>1. \A e \in Entrants : (IF entry[e].started THEN ScoreOf(entry[e]) ELSE NoResult)
                              \in Scored \cup {NoResult}
    BY <1>2
  <2>2. QED BY <2>1 DEF FinalScores
<1>5. Starters(FinalScores) = Started
  BY <1>2, <1>3, NullAssumption DEF Starters, Started
<1>6. QED BY <1>3, <1>4, <1>5

\* The flag and the time that a result brings with it do not change the score
\* that the entry would get, so a repeated run scores it as the first one did.
LEMMA ResultKeepsScore ==
  ASSUME NEW d \in Entry, NEW r \in Result
  PROVE  /\ ScoreOf(WithResult(d, r, IsAuto(d))) = ScoreOf(d)
         /\ WithResult(d, r, IsAuto(d)).started = d.started
         /\ WithResult(d, r, IsAuto(d)).result = r
<1> DEFINE w == WithResult(d, r, IsAuto(d))
<1>1. CASE IsAuto(d)
  <2>1. w = [d EXCEPT !.result = r, !.submittedAt = EndAt, !.auto = TRUE]
    BY <1>1 DEF WithResult
  <2>2. w.started = d.started /\ w.result = r /\ w.answer = d.answer /\ w.auto = TRUE
    BY <2>1 DEF Entry
  <2> HIDE DEF w
  <2>3. IsAuto(w) = TRUE /\ IsAuto(d) = TRUE
    BY <1>1, <2>2 DEF IsAuto, Entry
  <2>4. ScoreOf(w) = ScoreOf(d)
    BY <2>2, <2>3 DEF ScoreOf
  <2>5. QED BY <2>2, <2>4 DEF w
<1>2. CASE ~IsAuto(d)
  <2>1. w = [d EXCEPT !.result = r]
    BY <1>2 DEF WithResult
  <2>2. w.started = d.started /\ w.result = r /\ w.answer = d.answer /\ w.auto = d.auto
        /\ w.submittedAt = d.submittedAt
    BY <2>1 DEF Entry
  <2> HIDE DEF w
  <2>3. ScoreOf(w) = ScoreOf(d)
    BY <2>2 DEF ScoreOf, IsAuto
  <2>4. QED BY <2>2, <2>3 DEF w
<1>3. QED BY <1>1, <1>2

\* Growth: the final scores stand, and what is written is right.
Growth ==
    /\ FinalScores' = FinalScores /\ Started' = Started
    /\ \A e \in Entrants :
         \/ entry'[e].result = entry[e].result
         \/ e \in Started /\ entry'[e].result = Right(e)
    /\ \A e \in Entrants :
         \/ event'[e] = event[e]
         \/ e \in Started /\ event'[e] = RightEvent(e)
    /\ tally' = tally \/ tally' = TallyOf(FinalScores)

LEMMA GrowthKeeps ==
  ASSUME Growth
  PROVE  /\ \A r : RunRight(r) => RunRight(r)'
         /\ \A e \in Entrants : EntryRight(e) => EntryRight(e)'
         /\ contest'.finalizedAt = contest.finalizedAt
            /\ contest'.startedCount = contest.startedCount
            /\ contest'.submittedCount = contest.submittedCount
            /\ ClosedRight => ClosedRight'
<1>1. FinalScores' = FinalScores /\ Started' = Started
  BY DEF Growth
<1>2. \A e \in Entrants : Right(e)' = Right(e) /\ RightEvent(e)' = RightEvent(e)
  BY <1>1 DEF Right, RightEvent
<1>3. TallyOf(FinalScores)' = TallyOf(FinalScores)
  BY <1>1
<1>4. Started \subseteq Entrants
  BY DEF Started
<1>5. \A e \in Entrants : entry[e].result = Right(e) => entry'[e].result = Right(e)
  BY DEF Growth
<1>6. \A e \in Entrants : event[e] = RightEvent(e) => event'[e] = RightEvent(e)
  BY DEF Growth
<1>7. tally = TallyOf(FinalScores) => tally' = TallyOf(FinalScores)
  BY DEF Growth
<1>8. ASSUME NEW r, RunRight(r) PROVE RunRight(r)'
  <2>1. (r.step = "scan" => \A e \in Entrants \ r.todo : r.scored[e] = FinalScores[e])'
    BY <1>1, <1>8 DEF RunRight
  <2>2. (r.step \in {"write", "events"} => r.scored = FinalScores)'
    BY <1>1, <1>8 DEF RunRight
  <2>3. (r.step = "write" => \A e \in Started \ r.todo : entry[e].result = Right(e))'
    BY <1>1, <1>2, <1>4, <1>5, <1>8 DEF RunRight
  <2>4. (r.step = "events" =>
           /\ \A e \in Started : entry[e].result = Right(e)
           /\ tally = TallyOf(FinalScores)
           /\ \A e \in Started \ r.todo : event[e] = RightEvent(e))'
    BY <1>1, <1>2, <1>3, <1>4, <1>5, <1>6, <1>7, <1>8 DEF RunRight
  <2>5. QED BY <2>1, <2>2, <2>3, <2>4 DEF RunRight
<1>9. ASSUME NEW e \in Entrants, EntryRight(e) PROVE EntryRight(e)'
  BY <1>1, <1>2, <1>9 DEF EntryRight, Growth
<1>10. ASSUME contest'.finalizedAt = contest.finalizedAt,
              contest'.startedCount = contest.startedCount,
              contest'.submittedCount = contest.submittedCount,
              ClosedRight
       PROVE  ClosedRight'
  BY <1>1, <1>2, <1>3, <1>4, <1>5, <1>6, <1>7, <1>10 DEF ClosedRight, Finalized
<1>11. QED BY <1>8, <1>9, <1>10

\* A step of one run that writes only what is right, and does not close.
LEMMA RunGrowth ==
  ASSUME IInv, FollowOK, NEW s \in Servers, NEW r, run' = [run EXCEPT ![s] = r],
         clock' = clock, late' = late,
         contest'.finalizedAt = contest.finalizedAt,
         contest'.startedCount = contest.startedCount,
         contest'.submittedCount = contest.submittedCount,
         r.now <= clock, r.step \in Working => EndAt <= clock,
         \A e \in Entrants : entry'[e].result # entry[e].result \/ event'[e] # event[e]
                               => EndAt <= clock,
         ~late => Growth /\ RunRight(r)'
  PROVE  FollowOK'
<1>1. run \in [Servers -> Run]
  BY DEF IInv, TypeOK
<1>2. run'[s] = r /\ \A t \in Servers \ {s} : run'[t] = run[t]
  BY <1>1
<1>3. EndOK'
  BY <1>2 DEF FollowOK, EndOK, AtWork, Finalized
<1>4. ASSUME ~late PROVE AllRight'
  <2>1. Growth /\ RunRight(r)' /\ AllRight
    BY <1>4 DEF FollowOK
  <2>2. ASSUME NEW t \in Servers PROVE RunRight(run[t])'
    <3>1. CASE t = s
      BY <3>1, <1>2, <2>1 DEF RunRight
    <3>2. CASE t # s
      <4>1. SUFFICES ASSUME NEW p, p = run[t], p = run'[t] PROVE RunRight(run[t])'
        BY <3>2, <1>2
      <4>2. RunRight(p)
        BY <2>1, <4>1 DEF AllRight
      <4>3. RunRight(p)'
        BY <2>1, <4>2, GrowthKeeps
      <4>4. QED BY <4>1, <4>3 DEF RunRight
    <3>3. QED BY <3>1, <3>2
  <2>3. QED BY <2>1, <2>2, GrowthKeeps DEF AllRight
<1>5. QED BY <1>3, <1>4 DEF FollowOK

\* A step that writes no result, event or count, with the scores as they were.
LEMMA StillGrowth ==
  ASSUME TypeOK, UNCHANGED <<entry, event, tally>>
  PROVE  Growth
<1>1. FinalScores' = FinalScores /\ Started' = Started
  BY DEF FinalScores, Started
<1>2. QED BY <1>1 DEF Growth

LEMMA InitFollows == Init => FollowOK
<1> SUFFICES ASSUME Init PROVE FollowOK
  OBVIOUS
<1>1. \A s \in Servers : run[s] = Idle
  BY DEF Init
<1>2. Idle.step = "idle" /\ Idle.now = 0
  BY DEF Idle
<1>3. \A e \in Entrants : entry[e].result = NoResult /\ event[e] = NoResult
  BY DEF Init
<1>4. ~Finalized
  BY DEF Init, Finalized
<1>5. EndOK
  BY <1>1, <1>2, <1>3, <1>4 DEF EndOK, AtWork, Working, Init
<1>6. AllRight
  BY <1>1, <1>2, <1>3, <1>4 DEF AllRight, RunRight, EntryRight, ClosedRight
<1>7. QED BY <1>5, <1>6 DEF FollowOK

\* Before the end there is nothing that could be wrong.
LEMMA EarlyRight ==
  ASSUME TypeOK, EndOK, clock < EndAt
  PROVE  AllRight
<1>1. clock \in Nat /\ EndAt \in Nat
  BY Numbers DEF TypeOK
<1>2. /\ \A s \in Servers : ~AtWork(s)
      /\ ~Finalized
      /\ \A e \in Entrants : entry[e].result = NoResult /\ event[e] = NoResult
  BY <1>1 DEF EndOK
<1>3. \A s \in Servers : RunRight(run[s])
  BY <1>2 DEF RunRight, AtWork, Working
<1>4. QED BY <1>2, <1>3 DEF AllRight, EntryRight, ClosedRight

\* A step of an entrant, the admin or the clock: it writes before the end, or is
\* late, or writes nothing that results are made of.
LEMMA QuietFollows ==
  ASSUME IInv, TypeOK', FollowOK, UNCHANGED <<run, event, tally>>,
         clock' >= clock, contest'.finalizedAt = contest.finalizedAt,
         \A e \in Entrants : entry'[e].result = entry[e].result,
         \/ late'
         \/ clock' = clock /\ clock < EndAt
         \/ /\ UNCHANGED <<entry, late>>
            /\ contest'.startedCount = contest.startedCount
            /\ contest'.submittedCount = contest.submittedCount
  PROVE  FollowOK'
<1>1. TypeOK /\ clock \in Nat /\ clock' \in Nat /\ EndAt \in Nat
  BY Numbers DEF IInv, TypeOK
<1>2. \A s \in Servers : run[s].now \in Nat
  BY RunFields
<1>3. EndOK'
  BY <1>1, <1>2 DEF FollowOK, EndOK, AtWork, Finalized
<1>4. CASE late'
  BY <1>3, <1>4 DEF FollowOK
<1>5. CASE clock' = clock /\ clock < EndAt
  <2>1. TypeOK' /\ EndOK' /\ (clock < EndAt)' => AllRight'
    BY EarlyRight, PTL
  <2>2. QED BY <2>1, <1>1, <1>3, <1>5 DEF FollowOK
<1>6. CASE /\ UNCHANGED <<entry, late>>
           /\ contest'.startedCount = contest.startedCount
           /\ contest'.submittedCount = contest.submittedCount
  <2>1. SUFFICES ASSUME ~late PROVE AllRight'
    BY <1>3, <1>6 DEF FollowOK
  <2>2. Growth
    BY <1>1, <1>6, StillGrowth
  <2>3. AllRight
    BY <2>1 DEF FollowOK
  <2>4. (\A s \in Servers : RunRight(run[s]))'
    BY <2>2, <2>3, GrowthKeeps DEF AllRight, RunRight
  <2>5. QED BY <1>6, <2>2, <2>3, <2>4, GrowthKeeps DEF AllRight
<1>7. QED BY <1>4, <1>5, <1>6

LEMMA EntrantFollows ==
  ASSUME IInv, IInv', FollowOK, NEW e \in Entrants, EntrantStep(e)
  PROVE  FollowOK'
<1>1. TypeOK /\ TypeOK' /\ clock \in Nat /\ EndAt \in Nat
  BY Numbers DEF IInv, TypeOK
<1>2. entry \in [Entrants -> Entry] /\ contest \in Contest
  BY <1>1 DEF TypeOK
<1>3. Writes => late' \/ clock < EndAt
  <2>1. EndAt <= clock \/ clock < EndAt
    BY <1>1
  <2>2. Writes /\ EndAt <= clock => late'
    BY Zenon DEF Writes
  <2>3. QED BY <2>1, <2>2
<1>4. clock' = clock /\ clock' >= clock /\ UNCHANGED <<run, event, tally>>
  BY <1>1 DEF EntrantStep, StartBegin, StartMark, CountStart, SaveBegin, SaveWrite,
              SubmitBegin, SubmitWrite, CountSubmit, docs
<1>5. CASE StartBegin(e) \/ SubmitBegin(e) \/ \E a \in Picks : SaveBegin(e, a)
  <2>1. UNCHANGED <<contest, entry, late>>
    BY <1>5 DEF StartBegin, SubmitBegin, SaveBegin, docs
  <2>2. QED BY <2>1, <1>1, <1>4, QuietFollows
<1>6. CASE StartMark(e)
  <2>1. \A o \in Entrants : entry'[o].result = entry[o].result
    BY <1>2, <1>6 DEF StartMark, Entry
  <2>2. UNCHANGED contest /\ (late' \/ clock < EndAt)
    BY <1>3, <1>6 DEF StartMark
  <2>3. QED BY <2>1, <2>2, <1>1, <1>4, QuietFollows
<1>7. CASE CountStart(e) \/ CountSubmit(e)
  <2>1. UNCHANGED entry /\ contest'.finalizedAt = contest.finalizedAt
    BY <1>2, <1>7 DEF CountStart, CountSubmit, Contest
  <2>2. late' \/ clock < EndAt
    BY <1>3, <1>7 DEF CountStart, CountSubmit
  <2>3. QED BY <2>1, <2>2, <1>1, <1>4, QuietFollows
<1>8. CASE SaveWrite(e)
  <2>1. UNCHANGED contest
    BY <1>8 DEF SaveWrite
  <2>2. CASE entry[e].submittedAt = Never
    <3>1. \A o \in Entrants : entry'[o].result = entry[o].result
      BY <2>2, <1>2, <1>8 DEF SaveWrite, Entry
    <3>2. late' \/ clock < EndAt
      BY <2>2, <1>3, <1>8 DEF SaveWrite
    <3>3. QED BY <2>1, <3>1, <3>2, <1>1, <1>4, QuietFollows
  <2>3. CASE entry[e].submittedAt # Never
    <3>1. UNCHANGED <<entry, late>>
      BY <2>3, <1>8 DEF SaveWrite
    <3>2. QED BY <2>1, <3>1, <1>1, <1>4, QuietFollows
  <2>4. QED BY <2>2, <2>3
<1>9. CASE SubmitWrite(e)
  <2>1. UNCHANGED contest
    BY <1>9 DEF SubmitWrite
  <2>2. CASE entry[e].submittedAt = Never
    <3>1. \A o \in Entrants : entry'[o].result = entry[o].result
      BY <2>2, <1>2, <1>9 DEF SubmitWrite, Entry
    <3>2. late' \/ clock < EndAt
      BY <2>2, <1>3, <1>9 DEF SubmitWrite
    <3>3. QED BY <2>1, <3>1, <3>2, <1>1, <1>4, QuietFollows
  <2>3. CASE entry[e].submittedAt # Never
    <3>1. UNCHANGED <<entry, late>>
      BY <2>3, <1>9 DEF SubmitWrite
    <3>2. QED BY <2>1, <3>1, <1>1, <1>4, QuietFollows
  <2>4. QED BY <2>2, <2>3
<1>10. QED BY <1>5, <1>6, <1>7, <1>8, <1>9 DEF EntrantStep

LEMMA OthersFollow ==
  ASSUME IInv, IInv', FollowOK,
         Cancel \/ Tick \/ (\E e \in Entrants : FailCall(e)) \/ UNCHANGED vars
  PROVE  FollowOK'
<1>1. TypeOK /\ TypeOK' /\ clock \in Nat /\ contest \in Contest
  BY DEF IInv, TypeOK
<1>2. /\ UNCHANGED <<run, event, tally, entry, late>> /\ clock' >= clock
      /\ contest'.finalizedAt = contest.finalizedAt
      /\ contest'.startedCount = contest.startedCount
      /\ contest'.submittedCount = contest.submittedCount
  BY <1>1 DEF Cancel, Tick, FailCall, vars, docs, Contest
<1>3. QED BY <1>1, <1>2, QuietFollows

\* A run that waits for a claim, or is not running, has nothing to be right about.
LEMMA OffRight ==
  ASSUME NEW r, r.step \in {"idle", "claim"}
  PROVE  RunRight(r) /\ r.step \notin Working
  BY DEF RunRight, Working

LEMMA OffFollows ==
  ASSUME IInv, FollowOK, NEW s \in Servers, Wake(s) \/ FailRun(s)
  PROVE  FollowOK'
<1>1. TypeOK /\ clock \in Nat
  BY DEF IInv, TypeOK
<1>2. UNCHANGED <<clock, contest, entry, tally, event, late>>
  BY DEF Wake, FailRun, docs
<1>3. \E r : run' = [run EXCEPT ![s] = r] /\ r.step \in {"idle", "claim"} /\ r.now <= clock
  <2>1. Idle.step = "idle" /\ Idle.now = 0 /\ 0 <= clock
    BY <1>1 DEF Idle
  <2>2. \A now : [Idle EXCEPT !.step = "claim", !.now = now].step = "claim"
                 /\ [Idle EXCEPT !.step = "claim", !.now = now].now = now
    BY DEF Idle
  <2>3. run[s].now <= clock
    BY DEF FollowOK, EndOK
  <2>4. CASE Wake(s)
    <3>1. run' = [run EXCEPT ![s] = [Idle EXCEPT !.step = "claim", !.now = clock]]
      BY <2>4 DEF Wake
    <3>2. clock <= clock
      BY <1>1
    <3>3. QED BY <3>1, <3>2, <2>2
  <2>5. CASE FailRun(s)
    <3>1. run' = [run EXCEPT ![s] = Again(s)] \/ run' = [run EXCEPT ![s] = Idle]
      BY <2>5 DEF FailRun
    <3>2. Again(s).step = "claim" /\ Again(s).now = run[s].now
      BY <2>2 DEF Again
    <3>3. QED BY <3>1, <3>2, <2>1, <2>3
  <2>6. QED BY <2>4, <2>5
<1>4. PICK r : run' = [run EXCEPT ![s] = r] /\ r.step \in {"idle", "claim"} /\ r.now <= clock
  BY <1>3
<1>5. Growth
  BY <1>1, <1>2, StillGrowth
<1>6. RunRight(r)' /\ r.step \notin Working
  BY <1>4, OffRight DEF RunRight
<1>7. QED BY <1>2, <1>4, <1>5, <1>6, RunGrowth

LEMMA ClaimFollows ==
  ASSUME IInv, FollowOK, NEW s \in Servers, Claim(s)
  PROVE  FollowOK'
<1>1. TypeOK /\ clock \in Nat /\ contest \in Contest /\ run[s].now \in Nat /\ EndAt \in Nat
      /\ run[s].now <= clock
  BY RunFields, Numbers DEF IInv, TypeOK, FollowOK, EndOK
<1>2. UNCHANGED <<clock, entry, tally, event, late>>
  BY DEF Claim
<1>3. Growth
  BY <1>1, <1>2, StillGrowth
<1>4. CASE Claimable(run[s].now)
  <2>1. SUFFICES ASSUME NEW r, r = [step |-> "scan", now |-> run[s].now,
                                    token |-> run[s].now + Lease,
                                    todo |-> Entrants, scored |-> Unscored]
                 PROVE  FollowOK'
    OBVIOUS
  <2>2. run' = [run EXCEPT ![s] = r]
        /\ contest' = [contest EXCEPT !.lockedUntil = run[s].now + Lease]
    BY <1>4, <2>1 DEF Claim
  <2>3. contest'.finalizedAt = contest.finalizedAt
        /\ contest'.startedCount = contest.startedCount
        /\ contest'.submittedCount = contest.submittedCount
    BY <2>2, <1>1 DEF Contest
  <2>4. EndAt <= clock
    BY <1>1, <1>4 DEF Claimable
  <2>5. r.now <= clock /\ r.step = "scan" /\ r.todo = Entrants
    BY <2>1, <1>1
  <2>6. RunRight(r)'
    BY <2>5 DEF RunRight
  <2>7. QED BY <1>2, <1>3, <2>2, <2>3, <2>4, <2>5, <2>6, RunGrowth
<1>5. CASE ~Claimable(run[s].now)
  <2>1. run' = [run EXCEPT ![s] = Idle] /\ contest' = contest
    BY <1>5 DEF Claim
  <2>2. Idle.step = "idle" /\ Idle.now <= clock
    BY <1>1 DEF Idle
  <2>3. RunRight(Idle)' /\ Idle.step \notin Working
    BY <2>2 DEF RunRight, Working
  <2>4. QED BY <1>2, <1>3, <2>1, <2>2, <2>3, RunGrowth
<1>6. QED BY <1>4, <1>5

LEMMA ScanFollows ==
  ASSUME IInv, FollowOK, NEW s \in Servers, NEW e \in Entrants, Scan(s, e)
  PROVE  FollowOK'
<1> SUFFICES ASSUME NEW read, NEW todo, NEW step,
                    read = [run[s].scored EXCEPT ![e] =
                              IF entry[e].started THEN ScoreOf(entry[e]) ELSE NoResult],
                    step = IF run[s].todo \ {e} = {} THEN "write" ELSE "scan",
                    todo = IF run[s].todo \ {e} = {} THEN Starters(read)
                                                     ELSE run[s].todo \ {e}
             PROVE  FollowOK'
  OBVIOUS
<1>1. TypeOK /\ run[s] \in Run /\ run[s].step = "scan" /\ AtWork(s)
  BY RunFields DEF Scan, AtWork, Working, IInv
<1>2. run[s].scored \in [Entrants -> Scored \cup {NoResult}]
  BY RunFields
<1>3. run[s].now <= clock /\ EndAt <= clock
  BY <1>1 DEF FollowOK, EndOK
<1>4. SUFFICES ASSUME NEW r, r = [run[s] EXCEPT !.scored = read, !.todo = todo, !.step = step]
               PROVE  FollowOK'
  OBVIOUS
<1>5. run' = [run EXCEPT ![s] = r]
  BY <1>4 DEF Scan
<1>6. r.now = run[s].now /\ r.scored = read /\ r.todo = todo /\ r.step = step
  BY <1>1, <1>4 DEF Run
<1>7. UNCHANGED <<clock, docs, call, failures, late>>
  BY DEF Scan
<1>8. Growth
  BY <1>1, <1>7, StillGrowth DEF docs
<1>9. ASSUME ~late PROVE RunRight(r)
  <2>1. RunRight(run[s])
    BY <1>9 DEF FollowOK, AllRight
  <2>2. \A o \in Entrants \ run[s].todo : run[s].scored[o] = FinalScores[o]
    BY <2>1, <1>1 DEF RunRight
  <2>3. /\ FinalScores \in [Entrants -> Scored \cup {NoResult}]
        /\ FinalScores[e] = IF entry[e].started THEN ScoreOf(entry[e]) ELSE NoResult
        /\ Starters(FinalScores) = Started
    BY <1>1, FinalsTyped
  <2>4. read \in [Entrants -> Scored \cup {NoResult}] /\ read[e] = FinalScores[e]
        /\ \A o \in Entrants \ {e} : read[o] = run[s].scored[o]
    BY <1>2, <2>3
  <2>5. \A o \in Entrants \ (run[s].todo \ {e}) : read[o] = FinalScores[o]
    BY <2>2, <2>4
  <2>6. CASE run[s].todo \ {e} = {}
    <3>1. read = FinalScores
      BY <2>3, <2>4, <2>5, <2>6
    <3>2. r.step = "write" /\ r.scored = FinalScores /\ r.todo = Started
      BY <2>6, <3>1, <1>6, <2>3
    <3>3. QED BY <3>2 DEF RunRight
  <2>7. CASE run[s].todo \ {e} # {}
    <3>1. r.step = "scan" /\ r.todo = run[s].todo \ {e}
      BY <2>7, <1>6
    <3>2. QED BY <3>1, <2>5, <1>6 DEF RunRight
  <2>8. QED BY <2>6, <2>7
<1>10. ~late => RunRight(r)'
  BY <1>8, <1>9, GrowthKeeps
<1>11. r.now <= clock
  BY <1>3, <1>6
<1>12. QED BY <1>3, <1>5, <1>7, <1>8, <1>10, <1>11, RunGrowth DEF docs

LEMMA WriteResultFollows ==
  ASSUME IInv, FollowOK, NEW s \in Servers, NEW e \in Entrants, WriteResult(s, e)
  PROVE  FollowOK'
<1>1. /\ TypeOK /\ run[s] \in Run /\ run[s].step = "write" /\ AtWork(s)
      /\ e \in run[s].todo /\ run[s].todo \subseteq Starters(run[s].scored)
      /\ run[s].scored \in [Entrants -> Scored \cup {NoResult}]
  BY RunFields DEF WriteResult, AtWork, Working, IInv, RunOK
<1>2. entry \in [Entrants -> Entry] /\ entry[e] \in Entry
  BY <1>1 DEF TypeOK
<1>3. run[s].now <= clock /\ EndAt <= clock
  BY <1>1 DEF FollowOK, EndOK
<1>4. SUFFICES ASSUME NEW r, r = [run[s] EXCEPT !.todo = run[s].todo \ {e}]
               PROVE  FollowOK'
  OBVIOUS
<1>5. run' = [run EXCEPT ![s] = r]
  BY <1>4 DEF WriteResult
<1>6. r.now = run[s].now /\ r.scored = run[s].scored /\ r.todo = run[s].todo \ {e}
      /\ r.step = "write"
  BY <1>1, <1>4 DEF Run
<1>7. UNCHANGED <<clock, contest, tally, event, call, failures, late>>
  BY DEF WriteResult
<1>8. ASSUME ~late PROVE Growth /\ RunRight(r)'
  <2>1. RunRight(run[s])
    BY <1>8 DEF FollowOK, AllRight
  <2>2. run[s].scored = FinalScores
        /\ \A o \in Started \ run[s].todo : entry[o].result = Right(o)
    BY <2>1, <1>1 DEF RunRight
  <2>3. /\ FinalScores[e] = IF entry[e].started THEN ScoreOf(entry[e]) ELSE NoResult
        /\ Starters(FinalScores) = Started
    BY <1>1, FinalsTyped
  <2>4. e \in Started /\ FinalScores[e].auto = IsAuto(entry[e])
    BY <2>2, <2>3, <1>1 DEF Started, ScoreOf
  <2>5. Right(e) \in Result
    BY <1>1, <2>2, ResultOfType DEF Right
  <2>6. SUFFICES ASSUME NEW d, d = WithResult(entry[e], Right(e), IsAuto(entry[e]))
                 PROVE  Growth /\ RunRight(r)'
    OBVIOUS
  <2>7. ScoreOf(d) = ScoreOf(entry[e]) /\ d.started = entry[e].started /\ d.result = Right(e)
    BY <2>5, <2>6, <1>2, ResultKeepsScore
  <2>8. entry' = [entry EXCEPT ![e] = d]
    BY <2>2, <2>4, <2>6, <1>2 DEF WriteResult, Right
  <2>9. entry'[e] = d /\ \A o \in Entrants \ {e} : entry'[o] = entry[o]
    BY <2>8, <1>2
  <2>10. \A o \in Entrants : /\ entry'[o].started = entry[o].started
                             /\ ScoreOf(entry'[o]) = ScoreOf(entry[o])
    BY <2>7, <2>9
  <2>11. FinalScores' = FinalScores /\ Started' = Started
    BY <2>10 DEF FinalScores, Started
  <2>12. Growth
    BY <2>4, <2>7, <2>9, <2>11, <1>7 DEF Growth
  <2>13. \A o \in Entrants : Right(o)' = Right(o)
    BY <2>11 DEF Right
  <2>14. Started \subseteq Entrants
    BY DEF Started
  <2>15. \A o \in Started \ r.todo : entry'[o].result = Right(o)
    BY <2>2, <2>7, <2>9, <2>14, <1>6
  <2>16. RunRight(r)'
    BY <2>2, <2>11, <2>13, <2>14, <2>15, <1>6 DEF RunRight
  <2>17. QED BY <2>12, <2>16
<1>9. r.now <= clock
  BY <1>3, <1>6
<1>10. QED BY <1>3, <1>5, <1>7, <1>8, <1>9, RunGrowth

LEMMA WriteTallyFollows ==
  ASSUME IInv, FollowOK, NEW s \in Servers, WriteTally(s)
  PROVE  FollowOK'
<1>1. TypeOK /\ run[s] \in Run /\ run[s].step = "write" /\ AtWork(s) /\ run[s].todo = {}
  BY RunFields DEF WriteTally, AtWork, Working, IInv
<1>2. run[s].now <= clock /\ EndAt <= clock
  BY <1>1 DEF FollowOK, EndOK
<1>3. SUFFICES ASSUME NEW r, r = [run[s] EXCEPT !.step = "events",
                                                !.todo = Starters(run[s].scored)]
               PROVE  FollowOK'
  OBVIOUS
<1>4. run' = [run EXCEPT ![s] = r]
  BY <1>3 DEF WriteTally
<1>5. r.now = run[s].now /\ r.scored = run[s].scored /\ r.todo = Starters(run[s].scored)
      /\ r.step = "events"
  BY <1>1, <1>3 DEF Run
<1>6. UNCHANGED <<clock, contest, entry, event, call, failures, late>>
      /\ tally' = TallyOf(run[s].scored)
  BY DEF WriteTally
<1>7. ASSUME ~late PROVE Growth /\ RunRight(r)'
  <2>1. RunRight(run[s])
    BY <1>7 DEF FollowOK, AllRight
  <2>2. run[s].scored = FinalScores /\ \A o \in Started : entry[o].result = Right(o)
    BY <2>1, <1>1 DEF RunRight
  <2>3. Starters(FinalScores) = Started
    BY <1>1, FinalsTyped
  <2>4. FinalScores' = FinalScores /\ Started' = Started
    BY <1>6 DEF FinalScores, Started
  <2>5. Growth
    BY <2>2, <2>4, <1>6 DEF Growth
  <2>6. Started \subseteq Entrants /\ \A o \in Entrants : Right(o)' = Right(o)
    BY <2>4 DEF Started, Right
  <2>7. \A o \in Started : entry'[o].result = Right(o)
    BY <2>2, <1>6
  <2>8. tally' = TallyOf(FinalScores)
    BY <2>2, <1>6
  <2>9. Started \ r.todo = {}
    BY <2>2, <2>3, <1>5
  <2>10. RunRight(r)'
    BY <2>2, <2>4, <2>6, <2>7, <2>8, <2>9, <1>5 DEF RunRight
  <2>11. QED BY <2>5, <2>10
<1>8. r.now <= clock
  BY <1>2, <1>5
<1>9. QED BY <1>2, <1>4, <1>6, <1>7, <1>8, RunGrowth

LEMMA WriteEventFollows ==
  ASSUME IInv, FollowOK, NEW s \in Servers, NEW e \in Entrants, WriteEvent(s, e)
  PROVE  FollowOK'
<1>1. /\ TypeOK /\ run[s] \in Run /\ run[s].step = "events" /\ AtWork(s)
      /\ e \in run[s].todo /\ run[s].todo \subseteq Starters(run[s].scored)
  BY RunFields DEF WriteEvent, AtWork, Working, IInv, RunOK
<1>2. event \in [Entrants -> Event \cup {NoResult}]
  BY <1>1 DEF TypeOK
<1>3. run[s].now <= clock /\ EndAt <= clock
  BY <1>1 DEF FollowOK, EndOK
<1>4. SUFFICES ASSUME NEW r, r = [run[s] EXCEPT !.todo = run[s].todo \ {e}]
               PROVE  FollowOK'
  OBVIOUS
<1>5. run' = [run EXCEPT ![s] = r]
  BY <1>4 DEF WriteEvent
<1>6. r.now = run[s].now /\ r.scored = run[s].scored /\ r.todo = run[s].todo \ {e}
      /\ r.step = "events"
  BY <1>1, <1>4 DEF Run
<1>7. UNCHANGED <<clock, contest, entry, tally, call, failures, late>>
      /\ event' = [event EXCEPT ![e] = EventOf(e, run[s].scored)]
  BY DEF WriteEvent
<1>8. ASSUME ~late PROVE Growth /\ RunRight(r)'
  <2>1. RunRight(run[s])
    BY <1>8 DEF FollowOK, AllRight
  <2>2. /\ run[s].scored = FinalScores
        /\ \A o \in Started : entry[o].result = Right(o)
        /\ tally = TallyOf(FinalScores)
        /\ \A o \in Started \ run[s].todo : event[o] = RightEvent(o)
    BY <2>1, <1>1 DEF RunRight
  <2>3. e \in Started
    BY <2>2, <1>1, FinalsTyped
  <2>4. event'[e] = RightEvent(e) /\ \A o \in Entrants \ {e} : event'[o] = event[o]
    BY <2>2, <1>2, <1>7 DEF RightEvent
  <2>5. FinalScores' = FinalScores /\ Started' = Started
    BY <1>7 DEF FinalScores, Started
  <2>6. Growth
    BY <2>3, <2>4, <2>5, <1>7 DEF Growth
  <2>7. /\ Started \subseteq Entrants
        /\ \A o \in Entrants : Right(o)' = Right(o) /\ RightEvent(o)' = RightEvent(o)
    BY <2>5 DEF Started, Right, RightEvent
  <2>8. \A o \in Started : entry'[o].result = Right(o)
    BY <2>2, <1>7
  <2>9. \A o \in Started \ r.todo : event'[o] = RightEvent(o)
    BY <2>2, <2>4, <2>7, <1>6
  <2>10. tally' = TallyOf(FinalScores)
    BY <2>2, <1>7
  <2>11. RunRight(r)'
    BY <2>2, <2>5, <2>7, <2>8, <2>9, <2>10, <1>6 DEF RunRight
  <2>12. QED BY <2>6, <2>11
<1>9. r.now <= clock
  BY <1>3, <1>6
<1>10. QED BY <1>3, <1>5, <1>7, <1>8, <1>9, RunGrowth

\* The run that closes has written everything, and so has every run before it
\* that got as far; what is still to be written by others is the same again.
LEMMA CloseFollows ==
  ASSUME IInv, FollowOK, NEW s \in Servers, Close(s)
  PROVE  FollowOK'
<1>1. /\ TypeOK /\ run \in [Servers -> Run] /\ contest \in Contest
      /\ run[s].step = "events" /\ run[s].todo = {} /\ AtWork(s)
  BY DEF Close, AtWork, Working, IInv, TypeOK
<1>2. run[s].now <= clock /\ EndAt <= clock
  BY <1>1 DEF FollowOK, EndOK
<1>3. UNCHANGED <<clock, entry, tally, event, call, failures, late>>
  BY DEF Close
<1>4. SUFFICES ASSUME NEW r, r = Again(s) PROVE FollowOK'
  OBVIOUS
<1>5. run' = [run EXCEPT ![s] = r] /\ r.step = "claim" /\ r.now = run[s].now
  BY <1>4 DEF Close, Again, Idle
<1>6. RunRight(r)' /\ r.step \notin Working /\ r.now <= clock
  BY <1>2, <1>5 DEF RunRight, Working
<1>7. Growth
  BY <1>1, <1>3, StillGrowth
<1>8. CASE ~HoldsLease(s)
  <2>1. contest' = contest
    BY <1>8 DEF Close
  <2>2. QED BY <2>1, <1>3, <1>5, <1>6, <1>7, RunGrowth
<1>9. CASE HoldsLease(s)
  <2>1. run'[s] = r /\ \A t \in Servers \ {s} : run'[t] = run[t]
    BY <1>1, <1>5
  <2>2. EndOK'
    BY <2>1, <1>2, <1>3, <1>6 DEF FollowOK, EndOK, AtWork
  <2>3. ASSUME ~late PROVE AllRight'
    <3>1. AllRight /\ RunRight(run[s])
      BY <2>3 DEF FollowOK, AllRight
    <3>2. /\ run[s].scored = FinalScores
          /\ \A o \in Started : entry[o].result = Right(o) /\ event[o] = RightEvent(o)
          /\ tally = TallyOf(FinalScores)
      BY <3>1, <1>1 DEF RunRight
    <3>3. Starters(run[s].scored) = Started
      BY <3>2, <1>1, FinalsTyped
    <3>4. contest'.startedCount = Cardinality(Started)
          /\ contest'.submittedCount = Cardinality(Started)
      BY <3>3, <1>1, <1>9 DEF Close, ClosedBy, Contest
    <3>5. FinalScores' = FinalScores /\ Started' = Started
      BY <1>7 DEF Growth
    <3>6. /\ Started \subseteq Entrants
          /\ \A o \in Entrants : Right(o)' = Right(o) /\ RightEvent(o)' = RightEvent(o)
      BY <3>5 DEF Started, Right, RightEvent
    <3>7. ClosedRight'
      <4>1. \A o \in Started : entry'[o].result = Right(o) /\ event'[o] = RightEvent(o)
        BY <3>2, <1>3
      <4>2. tally' = TallyOf(FinalScores)
        BY <3>2, <1>3
      <4>3. QED BY <4>1, <4>2, <3>4, <3>5, <3>6 DEF ClosedRight
    <3>8. \A e \in Entrants : EntryRight(e)'
      BY <3>1, <1>7, GrowthKeeps DEF AllRight
    <3>9. ASSUME NEW t \in Servers PROVE RunRight(run[t])'
      <4>1. CASE t = s
        BY <4>1, <2>1, <1>6 DEF RunRight
      <4>2. CASE t # s
        <5>1. SUFFICES ASSUME NEW p, p = run[t], p = run'[t] PROVE RunRight(run[t])'
          BY <4>2, <2>1
        <5>2. RunRight(p)'
          BY <5>1, <3>1, <1>7, GrowthKeeps DEF AllRight
        <5>3. QED BY <5>1, <5>2 DEF RunRight
      <4>3. QED BY <4>1, <4>2
    <3>10. QED BY <3>7, <3>8, <3>9 DEF AllRight
  <2>4. QED BY <2>2, <2>3, <1>3 DEF FollowOK
<1>10. QED BY <1>8, <1>9

LEMMA NextFollows == IInv /\ IInv' /\ FollowOK /\ [Next]_vars => FollowOK'
<1> SUFFICES ASSUME IInv, IInv', FollowOK, [Next]_vars PROVE FollowOK'
  OBVIOUS
<1>1. ASSUME NEW s \in Servers, RunStep(s) PROVE FollowOK'
  BY <1>1, ClaimFollows, ScanFollows, WriteResultFollows, WriteTallyFollows,
     WriteEventFollows, CloseFollows DEF RunStep
<1>2. CASE UNCHANGED vars
  BY <1>2, OthersFollow
<1>3. CASE Cancel \/ Tick \/ \E e \in Entrants : FailCall(e)
  BY <1>3, OthersFollow
<1>4. QED BY <1>1, <1>2, <1>3, EntrantFollows, OffFollows DEF Next

LEMMA FollowImplies == IInv /\ FollowOK => ResultsFollowEntries
<1> SUFFICES ASSUME IInv, FollowOK, Finalized, ~late
             PROVE  /\ \A e \in Entrants : IF entry[e].started
                         THEN /\ entry[e].result = ResultOf(e, FinalScores)
                              /\ event[e] = EventOf(e, FinalScores)
                         ELSE entry[e].result = NoResult /\ event[e] = NoResult
                    /\ tally = TallyOf(FinalScores)
                    /\ contest.startedCount = Cardinality({e \in Entrants : entry[e].started})
                    /\ contest.submittedCount = contest.startedCount
  BY DEF ResultsFollowEntries
<1>1. ClosedRight /\ \A e \in Entrants : EntryRight(e)
  BY DEF FollowOK, AllRight
<1>2. \A e \in Entrants : e \in Started <=> entry[e].started
  BY DEF Started
<1>3. QED BY <1>1, <1>2 DEF ClosedRight, EntryRight, Right, RightEvent, Started

\* Every step of a run is safe to repeat: after the close, with any number of
\* interrupted, repeated and overlapping runs, the entries, the events, the
\* question's counts and the contest's counters are what one undisturbed run
\* makes of the entries, unless a request wrote after the end.
THEOREM ResultsAreOfTheEntries == Spec => []ResultsFollowEntries
<1>1. Init => IInv /\ FollowOK
  BY InitTyped, InitFollows
<1>2. IInv /\ FollowOK /\ [Next]_vars => (IInv /\ FollowOK)'
  BY NextPreserves, NextFollows
<1>3. QED BY <1>1, <1>2, FollowImplies, PTL DEF Spec

\* Nothing is ranked, rewarded with an event or closed before the contest's end,
\* whatever clock readings the servers claimed it with.
THEOREM NothingBeforeTheEnd == Spec => []EndOK
<1>1. Init => IInv /\ FollowOK
  BY InitTyped, InitFollows
<1>2. IInv /\ FollowOK /\ [Next]_vars => (IInv /\ FollowOK)'
  BY NextPreserves, NextFollows
<1>3. FollowOK => EndOK
  BY DEF FollowOK
<1>4. QED BY <1>1, <1>2, <1>3, PTL DEF Spec

=============================================================================
