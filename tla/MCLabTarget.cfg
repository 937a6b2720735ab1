\* One parent with two children; signals, kills and errors anywhere.
SPECIFICATION FairSpec
CONSTANTS
    Children = 2
    MaxConns = 1
CHECK_DEADLOCK FALSE
INVARIANTS
    TypeOK NobodyForgotten OutsideIn
PROPERTIES
    StopEnds
