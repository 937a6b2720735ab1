\* Two overlapping invocations; signals, crashes and a full disk at any point.
SPECIFICATION Spec
CONSTANTS
    Runs = {r1, r2}
    Choices <- MCChoices
    Overlap = TRUE
    LimeAsync = FALSE
    DiskMayFill = TRUE
    Outside = FALSE
    None = None
    Torn = Torn
SYMMETRY Symmetry
CHECK_DEADLOCK FALSE
INVARIANTS
    TypeOK ExecuteGate ManifestTellsTheTruth HashIsOfOwnImage
    FailuresAreTold
PROPERTIES
    RemovesOwnModule
