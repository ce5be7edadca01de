SPECIFICATION EditorSpec
CONSTANTS
    good = good
    bad = bad
    none = none
    unsent = unsent
    Calls <- MCCalls
    Questions <- MCQuestions
    Complete <- MCComplete
    Titles = {"title", "other"}
    Descriptions = {"", "text"}
    Blank = {""}
    Starts = {2}
    Lengths = {30, 60}
    MaxCapacity = 1
    Lead = 1
    MaxQuestions = 2
    Drafts <- MCDrafts
    Bodies <- MCBodies
    None = none
    Unsent = unsent
    MaxTime = 2
    MaxAge = 1
    TypedTitles <- MCTypedTitles
    SentTitle <- MCSentTitle
    TypedNumbers = {0, 1, 2}
    DefaultLength = 60
    DefaultCapacity = 1
    MaxVisits = 2
    Budgets <- MCBudgets
INVARIANTS
    RestMeansSaved
    PublishedStaysPublishable
    SavingAgainRepairs
    DeletedLeavesNothing
CHECK_DEADLOCK FALSE
