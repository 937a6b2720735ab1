\* forensic-considerations.md:302: writes outside --out never happen.
SPECIFICATION Spec
CONSTANTS
    Runs = {r1, r2}
    Choices <- MCChoices
    Overlap = FALSE
    LimeAsync = FALSE
    DiskMayFill = FALSE
    Outside = FALSE
    None = None
    Torn = Torn
CHECK_DEADLOCK FALSE
INVARIANTS
    WritesInsideOut
