SPECIFICATION Spec
CONSTANTS
    e1 = e1
    e2 = e2
    s1 = s1
    s2 = s2
    Never = Never
    NoResult = NoResult
    NoOne = NoOne
    Entrants <- OneEntrant
    Servers <- MCServers
    EndAt = 1
    Lease = 1
    RatedMinStarters = 2
    Picks = {"right"}
    MaxTime = 2
    MaxFailures = 1

INVARIANT
    CancelledNeverFinalized
CHECK_DEADLOCK FALSE
