SPECIFICATION FairSpec
CONSTANTS
    q1 = q1
    q2 = q2
    NoPick = NoPick
    Screens = {1, 2}
    Questions = {q1}
    Options = {"a", "b"}
    MaxPicks = 2
    MaxFailures = 1
INVARIANTS
    OneAnswerEach
    ShownIsSaved
    HandInCoversShown
PROPERTIES
    SheetIsFinal
    SubmitIsAnswered
CHECK_DEADLOCK FALSE
