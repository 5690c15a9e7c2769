CONSTANTS
    Slots = 2
    MaxUid = 2
    MaxActions = 4
    MaxAddress = 2
    Courses <- MCCourses
    PromptGC = FALSE
    PromptAck = TRUE
SPECIFICATION Spec
INVARIANTS
    OwnedCompute
    NothingLeftBehind
    CancelledNeverPublished
    
    AddressesDistinct

    
CHECK_DEADLOCK FALSE
