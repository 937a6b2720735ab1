\* Two invocations, one after the other; LiME may lag behind insmod, and the
\* image lies outside the case directory.
SPECIFICATION FairSpec
CONSTANTS
    Runs = {r1, r2}
    Choices <- MCFewChoices
    Overlap = FALSE
    LimeAsync = TRUE
    DiskMayFill = TRUE
    Outside = TRUE
    None = None
    Torn = Torn
CHECK_DEADLOCK FALSE
INVARIANTS
    SavedBeforeSuccess
PROPERTIES
    Terminates ImplementsWriter
