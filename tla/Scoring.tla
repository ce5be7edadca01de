------------------------------ MODULE Scoring ------------------------------
(***************************************************************************)
(* The pure algorithms that finalizing a contest runs: scoreAnswers,       *)
(* timeUsedMs and rank of finalize/scoring.ts, each beside a reference     *)
(* definition that says what it computes.                                  *)
(***************************************************************************)
EXTENDS Integers, FiniteSets, Sequences, SequencesExt

(* One entry's score *)

\* Mutant: a wrong option picked beside the right ones is forgiven.
IsCorrectForgiving(picked, correct) == ToSet(correct) \subseteq ToSet(picked)

\* Two lists of option ids of the same length, and every picked one is wanted.
IsCorrect(picked, correct) ==
    /\ Len(picked) = Len(correct)
    /\ \A i \in DOMAIN picked : picked[i] \in ToSet(correct)

\* The key's question of an answer; empty when the question is gone.
KeyOf(answer, key) == {q \in ToSet(key) : q.id = answer.questionId}

\* The loop of scoreAnswers: one pass over the answers, adding up.
ScoreAnswers(answers, key) ==
    LET Count(acc, answer) ==
          IF KeyOf(answer, key) = {} \/ answer.optionIds = <<>> THEN acc
          ELSE LET q == CHOOSE q \in KeyOf(answer, key) : TRUE
                   right == IsCorrect(answer.optionIds, q.correctOptionIds)
               IN [score |-> acc.score + (IF right THEN q.points ELSE 0),
                   answered |-> acc.answered \cup {q.id},
                   correct |-> acc.correct \cup (IF right THEN {q.id} ELSE {})]
        after[i \in 0 .. Len(answers)] ==
          IF i = 0 THEN [score |-> 0, answered |-> {}, correct |-> {}]
          ELSE Count(after[i - 1], answers[i])
    IN after[Len(answers)]

\* From the start, or the join if that was later, to the submit; at most to the end.
TimeUsed(startAt, endAt, joinedAt, submittedAt) ==
    LET larger(a, b) == IF a > b THEN a ELSE b
        smaller(a, b) == IF a < b THEN a ELSE b
    IN larger(0, smaller(submittedAt, endAt) - larger(startAt, joinedAt))

-----------------------------------------------------------------------------
(* The ranking *)

Ahead(a, b) == a.score > b.score \/ (a.score = b.score /\ a.timeUsed < b.timeUsed)
Tied(a, b) == a.score = b.score /\ a.timeUsed = b.timeUsed

\* The percentile of the group of exact ties from i up to before j of n, as a
\* fraction: from twice its average position, and 1 for a lone entry.
Percentile(n, i, j) == IF n = 1 THEN <<1, 1>> ELSE <<2 * n - (i + j - 1), 2 * (n - 1)>>

\* Mutant: the next rank after a tie does not skip (4, 4, 5).
PlacedDense(s, i, j, k) ==
    [id |-> s[k].id,
     rank |-> 1 + Cardinality({<<s[m].score, s[m].timeUsed>> : m \in 1 .. i - 1}),
     percentile |-> Percentile(Len(s), i, j)]

\* The k-th of the sorted list s, in the group from i up to before j.
Placed(s, i, j, k) == [id |-> s[k].id, rank |-> i, percentile |-> Percentile(Len(s), i, j)]

\* Array.sort: those ahead come first, and ties keep their order.
Before(entries, j, i) ==
    Ahead(entries[j], entries[i]) \/ (Tied(entries[j], entries[i]) /\ j < i)

Sorted(entries) ==
    [k \in DOMAIN entries |->
        entries[CHOOSE i \in DOMAIN entries :
           Cardinality({j \in DOMAIN entries : Before(entries, j, i)}) = k - 1]]

\* [i, j) is one group of exact ties of the sorted list s.
IsGroup(s, i, j) ==
    /\ \A k \in i .. j - 1 : Tied(s[k], s[i])
    /\ i = 1 \/ ~Tied(s[i - 1], s[i])
    /\ j = Len(s) + 1 \/ ~Tied(s[j], s[i])

\* The nested loops of rank: sort, and place each entry in its group.
Rank(entries) ==
    LET s == Sorted(entries)
        group(k) == CHOOSE g \in (1 .. k) \X (k + 1 .. Len(s) + 1) : IsGroup(s, g[1], g[2])
    IN [k \in DOMAIN s |-> Placed(s, group(k)[1], group(k)[2], k)]

-----------------------------------------------------------------------------
(* Reference definitions *)

\* The sum of a list of numbers.
SumOf(list) ==
    LET upTo[i \in 0 .. Len(list)] == IF i = 0 THEN 0 ELSE upTo[i - 1] + list[i]
    IN upTo[Len(list)]

\* An entry's place among a set of entries: one more than are ahead of it.
PlaceIn(e, S) == 1 + Cardinality({o \in S : Ahead(o, e)})

\* Twice the number of others it beat, a tie counting half.
BeatenIn(e, S) == 2 * Cardinality({o \in S : Ahead(e, o)})
                  + Cardinality({o \in S : Tied(o, e)}) - 1

\* The share of the others it beat; who has no others beat all of them.
PercentileIn(e, S) ==
    IF S = {e} THEN <<1, 1>> ELSE <<BeatenIn(e, S), 2 * (Cardinality(S) - 1)>>

=============================================================================
