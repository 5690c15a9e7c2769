SPECIFICATION UndisturbedSpec
CONSTANTS
    x = x
    y = y
    Node = {x, y}
    Direct = Direct
    Via <- Swapping
    RoundLifetime = 2
    MaxReceiptAge = 1
    DrainInterval = 1
    MaxGen = 2
    CommitLag = 1
    MaxLate = 0
    MaxTime = 5
    MaxReboots = 0
CHECK_DEADLOCK FALSE
INVARIANTS
    SelectedIsReceived
    RelaysReachTunnel
    CompletedEverywhere
PROPERTIES
    RetiredOnlyDrained
    KeepsPromise
