\* Three calls in sequence; timeouts, cancellation and orphans at any point.
SPECIFICATION FairSpec
CONSTANTS
    Calls = {c1, c2, c3}
    Orphans = TRUE
    None = None
CHECK_DEADLOCK FALSE
INVARIANTS
    TypeOK SuccessIsReal NoneLeftBehind
PROPERTIES
    Implements ReturnsUnlessHeld
