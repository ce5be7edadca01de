------------------------------ MODULE MCPages ------------------------------
(***************************************************************************)
(* The pages for TLC, one topic at a time:                                 *)
(*   entries, answers   Scoring and Results: every list of scored entries, *)
(*                      in every order, and every answer sheet against     *)
(*                      every key, built up one entry or answer at a time; *)
(*   question           QuestionForm: every question the editor can make;  *)
(*   offers, list       Offers, Paging;                                    *)
(*   counts, results    ContestPage while only its counters change, and    *)
(*                      while only its course does;                        *)
(*   typing             Typing.                                            *)
(***************************************************************************)
EXTENDS Results, QuestionForm, Offers, Paging, ContestPage, Typing

CONSTANTS
    s1, s2,                             \* servers
    MaxEntries, Scores, Spans,          \* the lists of scored entries
    MaxAnswers, MaxPicked, Questions, Options, Points   \* the answer sheets and keys

ASSUME EntriesAssumption == Scores \subseteq Int /\ Spans \in Nat
ASSUME SheetAssumption == MaxPicked \in Nat /\ Points \subseteq Nat \ {0}

VARIABLES
    topic,      \* what this behaviour is about; the rest stays as it is
    entries,    \* the scored entries so far
    key,        \* the questions of the contest
    answers     \* one entry's answers so far

sheetVars == <<entries, key, answers>>
vars == <<topic, sheetVars, draft, offersVars, pagingVars, pageVars, typingVars>>

Topics == {"entries", "answers", "question", "offers", "list", "counts", "results",
           "typing"}

\* Lists of options without repeats: saveQuestions and saveAnswer remove them.
OptionLists == UNION {{p \in [1 .. n -> Options] : IsInjective(p)}
                      : n \in 0 .. MaxPicked}

\* A question of the contest; publishing asks for a correct option.  The key has
\* questions 1 and 2 at most; a deleted question may still have answers.
Question(q) == [id : {q}, points : Points, correctOptionIds : OptionLists \ {<<>>}]
Keys == UNION {{k \in [1 .. n -> UNION {Question(q) : q \in 1 .. 2}] :
                   \A i \in 1 .. n : k[i].id = i} : n \in 0 .. 2}

Rest(t) == topic # t
SheetRest == entries = <<>> /\ answers = <<>>

\* Results are out and shown: nothing of ContestPage has to happen.
PageRest ==
    /\ counts = 0 /\ timer = {} /\ owed = {} /\ reading = {} /\ sends = {} /\ lastSent = 0
    /\ course = [over |-> TRUE, cancelled |-> FALSE, out |-> TRUE, due |-> FALSE]
    /\ raced = FALSE /\ shows = "results" /\ live = Nothing /\ sock = Off
    /\ data = [p \in TabPages |-> [over |-> TRUE, cancelled |-> FALSE, out |-> TRUE]]
    /\ want = {} /\ failed = {} /\ moves = 0

Init ==
    /\ topic \in Topics
    /\ SheetRest
    /\ key \in IF topic = "answers" THEN Keys ELSE {<<>>}
    /\ FormInit /\ (Rest("question") => draft = NewQuestion("single"))
    /\ OffersInit /\ (Rest("offers") => user = [role |-> "candidate", hosting |-> FALSE, free |-> 0])
    /\ PagingInit /\ (Rest("list") => direction = 1 /\ at = [i \in Items |-> Absent])
    /\ IF topic \in {"counts", "results"} THEN PageInit ELSE PageRest
    /\ TypingInit

\* An entry is scored; its time is that of an entrant who joined and was done so many
\* steps after the start of a contest of Spans.
Score(s, joined, done) ==
    /\ topic = "entries"
    /\ Len(entries) < MaxEntries
    /\ entries' = Append(entries, [id |-> Len(entries) + 1, score |-> s,
                                   timeUsed |-> TimeUsed(0, Spans, joined, done)])
    /\ UNCHANGED <<key, answers>>

\* An entry holds at most one answer to a question, and none that is empty.
Answer(q, picked) ==
    /\ topic = "answers"
    /\ Len(answers) < MaxAnswers
    /\ \A i \in DOMAIN answers : answers[i].questionId # q
    /\ answers' = Append(answers, [questionId |-> q, optionIds |-> picked])
    /\ UNCHANGED <<entries, key>>

Sheet ==
    /\ \/ \E s \in Scores, joined, done \in 0 .. Spans : Score(s, joined, done)
       \/ \E q \in Questions, picked \in OptionLists \ {<<>>} : Answer(q, picked)
    /\ UNCHANGED <<draft, offersVars, pagingVars, pageVars, typingVars>>

Shape == topic = "question" /\ FormNext
         /\ UNCHANGED <<sheetVars, offersVars, pagingVars, pageVars, typingVars>>
Offer == topic = "offers" /\ OffersNext
         /\ UNCHANGED <<sheetVars, draft, pagingVars, pageVars, typingVars>>
List == topic = "list" /\ PagingNext
        /\ UNCHANGED <<sheetVars, draft, offersVars, pageVars, typingVars>>
Watch == /\ PageNext
         /\ \/ topic = "counts" /\ UNCHANGED course
            \/ topic = "results" /\ UNCHANGED counts
         /\ UNCHANGED <<sheetVars, draft, offersVars, pagingVars, typingVars>>
Type == topic = "typing" /\ TypingNext
        /\ UNCHANGED <<sheetVars, draft, offersVars, pagingVars, pageVars>>

Next == (Sheet \/ Shape \/ Offer \/ List \/ Watch \/ Type) /\ UNCHANGED topic

\* Of a topic that rests no fair action is enabled.
Spec == Init /\ [][Next]_vars /\ PageFairness /\ TypingFairness

-----------------------------------------------------------------------------

\* rank returns every entry once; its rank is one more than the number ahead of
\* it, so ties share it and the next one skips, and its percentile is the share
\* of the others it beat, ties at their average (scoring.ts, rank).
RankIsPlace ==
    LET S == ToSet(entries)
        ranked == Rank(entries)
    IN /\ Len(ranked) = Len(entries)
       /\ \A e \in S : \E k \in DOMAIN ranked :
            ranked[k] = [id |-> e.id, rank |-> PlaceIn(e, S),
                         percentile |-> PercentileIn(e, S)]
       /\ \A k \in 1 .. Len(ranked) - 1 : ranked[k].rank <= ranked[k + 1].rank

\* An entry earns a question's points exactly when the options it picked are the
\* correct ones as a set; what it answered outside the key counts for nothing
\* (scoring.ts, scoreAnswers and isCorrect).
ScoreIsPointsOfRightAnswers ==
    LET S == ToSet(answers)
        result == ScoreAnswers(answers, key)
        rightOnes == {q \in ToSet(key) : \E a \in S :
                        /\ a.questionId = q.id
                        /\ ToSet(a.optionIds) = ToSet(q.correctOptionIds)}
    IN /\ result.correct = {q.id : q \in rightOnes}
       /\ result.answered = {q.id : q \in ToSet(key)} \cap {a.questionId : a \in S}
       /\ result.score = SumOf([i \in DOMAIN key |-> IF key[i] \in rightOnes THEN key[i].points ELSE 0])

\* The review adds up to the result above it: what the questions earned is the score,
\* and the answered and the correct ones are those that were counted when the contest
\* was finalized, by other code (contests.service.ts, results; ContestResults.tsx,
\* Review; scoring.ts).
ReviewAddsUp ==
    LET result == ScoreAnswers(answers, key)
        Names(S) == {q.id : q \in S}
    IN /\ SumOf([i \in DOMAIN key |-> Reviewed(key[i], answers).earned]) = result.score
       /\ Names(Counted("correct", answers, key)) = result.correct
       /\ Names(Counted("wrong", answers, key)) = result.answered \ result.correct
       /\ Names(Counted("unanswered", answers, key)) = Names(ToSet(key)) \ result.answered

\* The board shows a ranked viewer exactly once, in the top or below it, unless others
\* tie with them across the end of the top; and all its pages together are the board
\* (contests.service.ts, results and leaderboard; ContestResults.tsx, Leaderboard).
BoardShowsMe ==
    LET ranked == Rank(entries)
        board == Board(ranked)
    IN /\ Leaderboard(board) = board
       /\ \A me \in ToSet(ranked) :
            LET top == me \in ToSet(TopRows(ranked))
                below == MeOutside(me, ranked)
            IN /\ ~(top /\ below)
               /\ top \/ below \/ (me.rank <= Top /\ \E o \in ToSet(TopRows(ranked)) : o.rank = me.rank)

=============================================================================
