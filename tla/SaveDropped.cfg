SPECIFICATION Spec
CONSTANTS
    q1 = q1
    q2 = q2
    NoPick = NoPick
    Screens = {1, 2}
    Questions = {q1}
    Options = {"a"}
    MaxPicks = 2
    MaxFailures = 0
INVARIANTS
    SuccessMeansWritten
CHECK_DEADLOCK FALSE
