SPECIFICATION Spec
CONSTANTS
    x = x
    y = y
    Node = {x, y}
    Direct = Direct
    Via <- AllDirect
    RoundLifetime = 2
    MaxReceiptAge = 1
    DrainInterval = 1
    MaxGen = 3
    CommitLag = 0
    MaxLate = 0
    MaxTime = 4
    MaxReboots = 0
CHECK_DEADLOCK FALSE
INVARIANTS
    AtMostTwoGenerations
