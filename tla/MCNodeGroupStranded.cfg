CONSTANTS
    Slots = 2
    MaxUid = 1
    MaxActions = 4
    MaxAddress = 2
    Courses <- MCCourses
    PromptGC = TRUE
    PromptAck = TRUE
SPECIFICATION FairSpec
PROPERTY DeletionCompletes
CHECK_DEADLOCK FALSE
