---------------------------- MODULE QuestionForm ----------------------------
(***************************************************************************)
(* One question as the editor's card changes it, beside what the server    *)
(* makes of it: the limits of a save, its normalization, the checks before *)
(* publishing, and the picks that saveAnswer takes from an entrant.        *)
(*                                                                         *)
(* A text is told apart by whether it is blank; an option id by the order  *)
(* in which the options were added.                                        *)
(***************************************************************************)
EXTENDS Scoring

CONSTANTS
    MinOptions, MaxOptions,     \* LIMITS.contest.options
    MinPoints, MaxPoints,       \* LIMITS.contest.points
    MaxOptionId                 \* bound: options added to a question

ASSUME LimitsAssumption ==
    /\ {MinOptions, MaxOptions, MaxOptionId} \subseteq Nat /\ MaxOptions >= 2
    /\ {MinPoints, MaxPoints} \subseteq Int /\ 1 \in MinPoints .. MaxPoints

VARIABLE draft      \* the question: kind, prompt, options, correctOptionIds, points

Kinds == {"single", "multiple"}
Ids(q) == {q.options[i].id : i \in DOMAIN q.options}
IsAnId(q, id) == id \in Ids(q)

\* filter: what a list has at the places that are kept, in its order.
Filtered(list, places) ==
    [n \in 1 .. Cardinality(places) |->
        list[CHOOSE i \in places : Cardinality({j \in places : j <= i}) = n]]

\* newQuestion: two empty options; made is how many ids were drawn.
NewQuestion(kind) ==
    [kind |-> kind, blank |-> TRUE, points |-> 1, made |-> 2,
     options |-> <<[id |-> 1, blank |-> TRUE], [id |-> 2, blank |-> TRUE]>>,
     correctOptionIds |-> <<>>]

FormInit == \E kind \in Kinds : draft = NewQuestion(kind)

\* Mutant: a single choice keeps the marks it had.
SetKindAlone(kind) == draft' = [draft EXCEPT !.kind = kind]

\* A single choice keeps the first mark.
SetKind(kind) ==
    draft' = [draft EXCEPT !.kind = kind,
                !.correctOptionIds = IF kind = "single" /\ @ # <<>> THEN <<@[1]>> ELSE @]

\* mark: toggled, or the only one.
Mark(id) ==
    /\ IsAnId(draft, id)
    /\ draft' = [draft EXCEPT !.correctOptionIds =
          IF draft.kind = "single" THEN <<id>>
          ELSE IF id \in ToSet(@) THEN Filtered(@, {i \in DOMAIN @ : @[i] # id})
          ELSE Append(@, id)]

WriteOption(id, blank) ==
    /\ IsAnId(draft, id)
    /\ draft' = [draft EXCEPT !.options =
          [i \in DOMAIN @ |-> IF @[i].id = id THEN [@[i] EXCEPT !.blank = blank] ELSE @[i]]]

AddOption ==
    /\ Len(draft.options) < MaxOptions /\ draft.made < MaxOptionId
    /\ draft' = [draft EXCEPT !.options = Append(@, [id |-> draft.made + 1, blank |-> TRUE]),
                              !.made = @ + 1]

\* Mutant: the mark of an option that is removed stays.
RemoveOptionAlone(id) ==
    /\ IsAnId(draft, id) /\ Len(draft.options) > MinOptions
    /\ draft' = [draft EXCEPT !.options = Filtered(@, {i \in DOMAIN @ : @[i].id # id})]

\* Its mark goes with it.
RemoveOption(id) ==
    /\ IsAnId(draft, id) /\ Len(draft.options) > MinOptions
    /\ draft' = [draft EXCEPT !.options = Filtered(@, {i \in DOMAIN @ : @[i].id # id}),
                              !.correctOptionIds = Filtered(@, {i \in DOMAIN @ : @[i] # id})]

WritePrompt(blank) == draft' = [draft EXCEPT !.blank = blank]

\* What is typed is rounded down, 1 if that is 0 or no number, and clamped.
SetPoints(typed) ==
    LET n == IF typed = 0 THEN 1 ELSE typed
    IN draft' = [draft EXCEPT !.points =
          IF n < MinPoints THEN MinPoints ELSE IF n > MaxPoints THEN MaxPoints ELSE n]

FormNext ==
    \/ \E kind \in Kinds : SetKind(kind)
    \/ AddOption
    \/ \E id \in 1 .. MaxOptionId :
          Mark(id) \/ RemoveOption(id) \/ \E blank \in BOOLEAN : WriteOption(id, blank)
    \/ \E blank \in BOOLEAN : WritePrompt(blank)
    \/ \E typed \in MinPoints - 2 .. MaxPoints + 1 : SetPoints(typed)

FormSpec == FormInit /\ [][FormNext]_draft

\* The first problem with a question, as its collapsed row shows it.
IssueOf(q) ==
    IF q.blank THEN "No question text"
    ELSE IF Len(q.options) < MinOptions THEN "Needs 2 options"
    ELSE IF \E i \in DOMAIN q.options : q.options[i].blank THEN "An option is empty"
    ELSE IF q.correctOptionIds = <<>> THEN "No correct option"
    ELSE "none"

-----------------------------------------------------------------------------
(* The server *)

\* QuestionDto and OptionDto, and the ids of saveQuestions.
TakesSave(q) ==
    /\ Len(q.options) <= MaxOptions /\ Len(q.correctOptionIds) <= MaxOptions
    /\ q.points \in MinPoints .. MaxPoints
    /\ \A i, j \in DOMAIN q.options : q.options[i].id = q.options[j].id => i = j

\* Repeated marks, and marks on options that do not exist, are dropped.
Stored(q) ==
    LET once == [i \in DOMAIN q.correctOptionIds |->
                    \A j \in 1 .. i - 1 : q.correctOptionIds[j] # q.correctOptionIds[i]]
        kept == {i \in DOMAIN once : once[i] /\ q.correctOptionIds[i] \in Ids(q)}
    IN [q EXCEPT !.correctOptionIds = Filtered(@, kept)]

\* The four checks of publishChecks about questions.
PassesPublishChecks(q) ==
    /\ Len(q.options) \in MinOptions .. MaxOptions
    /\ q.correctOptionIds # <<>>
    /\ q.kind = "single" => Len(q.correctOptionIds) <= 1
    /\ ~q.blank /\ \A i \in DOMAIN q.options : ~q.options[i].blank

\* What saveAnswer takes: options of the question, one at most of a single choice.
Takeable(q) ==
    {picked \in SeqOf(Ids(q), IF q.kind = "single" THEN 1 ELSE MaxOptions) : IsInjective(picked)}

-----------------------------------------------------------------------------

\* Whatever the host does to a card, the server takes it, and stores it as it is
\* shown.  A card without an issue is a question that publishing accepts, and the
\* other way round, although the card never looks at the kind; and then some pick of
\* an entrant earns its points (ContestEditor.tsx, QuestionEditor and issueOf;
\* contest-hosting.service.ts, saveQuestions; publish-checks.ts; saveAnswer).
CardsAreQuestions ==
    /\ TakesSave(draft) /\ Stored(draft) = draft
    /\ (IssueOf(draft) = "none") <=> PassesPublishChecks(Stored(draft))
    /\ IssueOf(draft) = "none" =>
          \E picked \in Takeable(draft) : IsCorrect(picked, draft.correctOptionIds)

=============================================================================
