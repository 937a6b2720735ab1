\* forensic-considerations.md:136-137: every hash in the bundle agrees.
SPECIFICATION Spec
CONSTANTS
    Order <- MCOrder
    Directories <- MCDirectories
    AuditLog = "audit.log"
    ManifestJson = "manifest.json"
    Tarball = "bundle.tar.gz"
    AcquireManifest = "acquire-manifest.json"
    Contents = {1}
    Absent = 0
    Special = Special
    Garbled = {}
    Keys = {}
    MaxBuilds = 1
    MaxEdits = 0
    None = None
    Torn = Torn
CHECK_DEADLOCK FALSE
INVARIANTS
    EveryHashAgrees
