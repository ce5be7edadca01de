------------------------------ MODULE Results ------------------------------
(***************************************************************************)
(* What the results page shows of a finalized contest: the board, its top, *)
(* its pages by offset and the viewer's own row; and the review of the     *)
(* viewer's answers.  Nothing changes any more, so these are functions of  *)
(* the ranked entries, and of the answers and the key.                     *)
(***************************************************************************)
EXTENDS Scoring

CONSTANTS
    Top,            \* RESULTS_TOP and TOP
    PageLimit       \* rows of a page of the leaderboard

ASSUME BoardAssumption == Top \in Nat /\ PageLimit \in Nat \ {0}

-----------------------------------------------------------------------------
(* The board: an entry's id stands for its username too, which is unique *)

\* The order of the board: by rank and then by name.
Outranks(a, b) == a.rank < b.rank \/ (a.rank = b.rank /\ a.id < b.id)

\* The ranked entries in that order: the n-th has n - 1 above it.
Board(ranked) ==
    LET rows == ToSet(ranked)
    IN [n \in 1 .. Cardinality(rows) |->
           CHOOSE row \in rows : Cardinality({o \in rows : Outranks(o, row)}) = n - 1]

FirstOf(rows, n) == SubSeq(rows, 1, IF Len(rows) < n THEN Len(rows) ELSE n)

TopRows(ranked) == FirstOf(Board(ranked), Top)

\* Mutant: the next offset skips the row that was read ahead.
LeaderboardSkipping(board) ==
    LET From[offset \in 0 .. Len(board) + PageLimit + 1] ==
          LET rows == SubSeq(board, offset + 1, Len(board))
          IN FirstOf(rows, PageLimit)
             \o (IF Len(rows) > PageLimit THEN From[offset + PageLimit + 1] ELSE <<>>)
    IN From[0]

\* "Show all": page after page, each from the offset in the cursor, until no row
\* follows.
Leaderboard(board) ==
    LET From[offset \in 0 .. Len(board) + PageLimit] ==
          LET rows == SubSeq(board, offset + 1, Len(board))
          IN FirstOf(rows, PageLimit)
             \o (IF Len(rows) > PageLimit THEN From[offset + PageLimit] ELSE <<>>)
    IN From[0]

\* The viewer's own row, below the others.
MeOutside(me, ranked) == me.rank > Top /\ me \notin ToSet(TopRows(ranked))

-----------------------------------------------------------------------------
(* The review *)

\* Mutant: the review forgives a wrong option beside the right ones.
ReviewedForgiving(q, answers) ==
    LET mine == {i \in DOMAIN answers : answers[i].questionId = q.id}
        picked == IF mine = {} THEN <<>>
                  ELSE answers[CHOOSE i \in mine : \A j \in mine : j <= i].optionIds
    IN [picked |-> picked,
        earned |-> IF picked # <<>> /\ IsCorrectForgiving(picked, q.correctOptionIds)
                   THEN q.points ELSE 0]

\* A question of the key with the viewer's picks, and what they earned.
Reviewed(q, answers) ==
    LET mine == {i \in DOMAIN answers : answers[i].questionId = q.id}
        picked == IF mine = {} THEN <<>>
                  ELSE answers[CHOOSE i \in mine : \A j \in mine : j <= i].optionIds
    IN [picked |-> picked,
        earned |-> IF picked # <<>> /\ IsCorrect(picked, q.correctOptionIds) THEN q.points ELSE 0]

StatusOf(q, answers) ==
    IF Reviewed(q, answers).picked = <<>> THEN "unanswered"
    ELSE IF Reviewed(q, answers).earned > 0 THEN "correct" ELSE "wrong"

Counted(status, answers, key) == {q \in ToSet(key) : StatusOf(q, answers) = status}

=============================================================================
