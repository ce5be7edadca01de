SPECIFICATION Spec
CONSTANTS
    u1 = u1
    u2 = u2
    k1 = k1
    k2 = k2
    Nobody = Nobody
    Unlimited = Unlimited
    Users <- MCUsers
    Calls <- MCCalls
    Capacities <- MCCapacities
    StartTimes <- MCStartTimes
    FirstCapacity = 1
    FirstStart = 1
    Duration = 1
    Lead = 1
    MaxAge = 1
    MaxTime = 3
    MaxEntries = 2
    MaxLeaks = 1
PROPERTY
    NoPeekAndGo
CHECK_DEADLOCK FALSE
