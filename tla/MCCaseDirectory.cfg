\* Two acquisitions, one after the other, and a build at any time.
SPECIFICATION Spec
CONSTANTS
    Runs = {r1, r2}
    Keys = {"region"}
    MaxBuilds = 1
    MaxEdits = 60
    Special = Special
    None = None
    Torn = Torn
SYMMETRY Symmetry
VIEW Archived
CHECK_DEADLOCK FALSE
INVARIANTS
    Provenance
PROPERTIES
    ImplementsPackager
