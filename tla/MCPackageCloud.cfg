\* pkgbuild.go:193-195: no data, no cloud section.
SPECIFICATION Spec
CONSTANTS
    Order <- MCOrder
    Directories <- MCDirectories
    AuditLog = "audit.log"
    ManifestJson = "manifest.json"
    Tarball = "bundle.tar.gz"
    AcquireManifest = "acquire-manifest.json"
    Contents = {1}
    Absent = 0
    Special = Special
    Garbled = {}
    Keys = {"region"}
    MaxBuilds = 1
    MaxEdits = 0
    None = None
    Torn = Torn
CHECK_DEADLOCK FALSE
INVARIANTS
    CloudNeedsData
