SPECIFICATION MCSpec
CONSTANTS
    x = x
    y = y
    Node = {x, y}
    Direct = Direct
    Via <- AllDirect
    RoundLifetime = 1
    MaxReceiptAge = 1
    DrainInterval = 1
    MaxGen = 1
    CommitLag = 0
    MaxLate = 1
    MaxTime = 2
    MaxReboots = 1
    Request = {"r1", "r2"}
    Collection = {"retirement", "handover"}
    ReadOnly = {"retirement"}
    Member = {x, y}
    Limit = 1
    MaxAge = 2
    MaxClock = 2
    MaxRound = 2
    MaxSubmit = 3
    MaxFault = 1
    NoIntent = NoIntent
SYMMETRY Symmetry
CHECK_DEADLOCK FALSE
INVARIANTS
    ReceiptsStayTrue
    CollectorBounded
    HistoryKept
PROPERTIES
    BatchMovesForward
    CheckpointFollows
