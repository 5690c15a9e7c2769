SPECIFICATION Spec
CONSTANTS
    w1 = w1
    w2 = w2
    s1 = s1
    Worker = {w1, w2}
    Site = {s1}
    Courses <- AllCourses
    Finalize = TRUE
    Release = TRUE
    MaxAddress = 1
    MaxBoot = 1
SYMMETRY Symmetry
VIEW LiveReceipts
CHECK_DEADLOCK FALSE
INVARIANTS
    NoReturn
    ReleasedTogether
PROPERTIES
    EvidenceKept
