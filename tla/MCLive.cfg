SPECIFICATION PartsSpec
CONSTANTS
    x = x
    y = y
    w1 = w1
    w2 = w2
    s1 = s1
    Node = {x, y}
    Direct = Direct
    Via <- Swapping
    RoundLifetime = 2
    MaxReceiptAge = 1
    DrainInterval = 2
    MaxGen = 2
    CommitLag = 0
    MaxLate = 0
    MaxTime = 9
    MaxReboots = 0
    Stable = 3
PROPERTIES
    HandoverCompletes
    BriefCandidateServes
    RemovalReleases
CHECK_DEADLOCK FALSE
