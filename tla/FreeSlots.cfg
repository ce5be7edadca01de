SPECIFICATION Spec
CONSTANTS
    ada = ada
    root = root
    c1 = c1
    c2 = c2
    k1 = k1
    k2 = k2
    None = None
    Hosts <- MCHosts
    Admins <- MCAdmins
    Contests <- MCContests
    Calls <- MCCalls
    Months <- MCMonths
    MonthOf <- MCMonthOf
    Limit = 1
    StartTimes <- MCStartTimes
    Duration = 1
    Lead = 1
    MaxAge = 1
    MaxTime = 4
    MaxLost = 1
SYMMETRY Symmetry
INVARIANTS
    SlotsAccounted
    FreeLimitHeld
CHECK_DEADLOCK FALSE
