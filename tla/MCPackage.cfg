\* Builds in a case directory that other commands write to; crashes and errors anywhere.
SPECIFICATION FairSpec
CONSTANTS
    Order <- MCOrder
    Directories <- MCDirectories
    AuditLog = "audit.log"
    ManifestJson = "manifest.json"
    Tarball = "bundle.tar.gz"
    AcquireManifest = "acquire-manifest.json"
    Contents = {1, 2}
    Absent = 0
    Special = Special
    Garbled = {2}
    Keys = {}
    MaxBuilds = 1
    MaxEdits = 1
    None = None
    Torn = Torn
CHECK_DEADLOCK FALSE
INVARIANTS
    TypeOK HashChain NoSilentOmission OneManifest CarriedForward
PROPERTIES
    BuildEnds
