--------------------------- MODULE MCAnswerSheet ---------------------------
(* AnswerSheet for TLC: model values for the questions.                    *)
EXTENDS AnswerSheet

CONSTANTS q1, q2

=============================================================================
