SPECIFICATION Spec
CONSTANTS
    w1 = w1
    w2 = w2
    s1 = s1
    Worker = {w1, w2}
    Site = {s1}
    Courses <- OnlyTogether
    Finalize = TRUE
    Release = TRUE
    MaxAddress = 0
    MaxBoot = 0
SYMMETRY Symmetry
VIEW LiveReceipts
CHECK_DEADLOCK FALSE
INVARIANTS
    LaterWithdrawalsKeepEvidence
