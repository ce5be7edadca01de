SPECIFICATION Spec
CONSTANTS
    MaxEntries = 4
    Scores = {0, 1, 2}
    Spans = 1
    MaxAnswers = 2
    MaxPicked = 2
    Questions = {1, 2, 3}
    Options = {"a", "b", "c"}
    Points = {1, 2}
    Top = 2
    PageLimit = 2
    MinOptions = 2
    MaxOptions = 3
    MinPoints = 1
    MaxPoints = 3
    MaxOptionId = 4
    Capacity = 2
    Starts = {2, 3}
    Length = 2
    LeadTime = 2
    LastTime = 6
    Unset = Unset
    Items = {1, 2, 3}
    Dates = {1, 2}
    Limit = 1
    MaxEdits = 2
    s1 = s1
    s2 = s2
    Servers = {s1, s2}
    Home = s1
    MaxChanges = 2
    MaxMoves = 3
    Nothing = Nothing
    Idle = 1
    Expiry = 3
    MaxKeys = 4
    MaxLost = 2
INVARIANTS
    RankIsPlace
    ScoreIsPointsOfRightAnswers
    ReviewAddsUp
    BoardShowsMe
    CardsAreQuestions
    PagePhasesAgree
    OffersAccepted
    NothingHidden
    PagesShowEachOnce
    CountsRight
PROPERTIES
    ResultsShow
    TypingEnds
CHECK_DEADLOCK FALSE
