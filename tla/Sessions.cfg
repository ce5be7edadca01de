SPECIFICATION FairSpec
CONSTANTS
    t1 = t1
    t2 = t2
    Tabs = {t1, t2}
    Locks = TRUE
    Grace = 0
    Idle = 2
    MaxAge = 2
    MaxTime = 2
    MaxTokens = 4
    MaxFailures = 1
INVARIANTS
    RefreshesKeepCookie
    ElsewhereUnaffected
PROPERTIES
    OldTokensStayDead
    RefreshEnds
CHECK_DEADLOCK FALSE
