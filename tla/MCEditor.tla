------------------------------ MODULE MCEditor ------------------------------
(***************************************************************************)
(* Editor for TLC: drafts that lack only questions, a description too, or   *)
(* all but a title; questions that may lack an answer.                     *)
(***************************************************************************)
EXTENDS Editor, TLC

CONSTANTS good, bad, none, unsent

MCCalls == Saves \cup {Act, Elsewhere}
MCQuestions == {good, bad}
MCComplete == {good}

Draft(description, start, length) ==
    [title |-> "title", description |-> description, start |-> start, length |-> length,
     capacity |-> none]
New == Draft("", none, none)
Undescribed == Draft("", 2, 60)
Ready == Draft("text", 2, 60)
MCDrafts == {New, Undescribed, Ready}

MCTypedTitles == {"title", " title", "other", "t"}
MCSentTitle == ("title" :> "title") @@ (" title" :> "title") @@ ("other" :> "other")
               @@ ("t" :> unsent)

\* Another page sends a new length, or takes the start away.
Body(start, length) ==
    [title |-> unsent, description |-> unsent, start |-> start, length |-> length,
     capacity |-> unsent]
MCBodies == {Body(unsent, 30), Body(none, unsent)}

\* Long editing in one visit; two visits; another tab; a failure; then the Details card
\* of a new draft, half of its inputs at a time, and all of them with a failure.
Describing == [draft |-> Undescribed, cards |-> {"description"}]
Questioning == [draft |-> Ready, cards |-> {"date"}]
Detailing(inputs) == [visits |-> 1, length |-> 0, others |-> 0, draft |-> New, cards |-> inputs]
MCBudgets ==
    {[visits |-> 1, edits |-> 3, length |-> 1, others |-> 0, fails |-> 0] @@ Questioning,
     [visits |-> 2, edits |-> 2, length |-> 2, others |-> 0, fails |-> 0] @@ Describing,
     [visits |-> 1, edits |-> 1, length |-> 2, others |-> 1, fails |-> 0] @@ Describing,
     [visits |-> 1, edits |-> 2, length |-> 2, others |-> 0, fails |-> 1] @@ Questioning,
     [edits |-> 3, fails |-> 0] @@ Detailing({"title", "date", "timed", "length"}),
     [edits |-> 3, fails |-> 0] @@ Detailing({"description", "length", "capacityOn", "capacity"}),
     [edits |-> 2, fails |-> 1] @@ Detailing(DOMAIN CardValues)}

=============================================================================
