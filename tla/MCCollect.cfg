\* Two runs in one case directory; signals, crashes and failed writes at any point.
SPECIFICATION FairSpec
CONSTANTS
    Items <- MCItems
    Optional = {"nft"}
    Sources <- MCSources
    Entries <- MCEntries
    Fifos = {"etc/cron_d"}
    Dest <- MCDest
    MaxRuns = 2
    MaxFaults = 1
    None = None
    Torn = Torn
VIEW Current
CHECK_DEADLOCK FALSE
INVARIANTS
    TypeOK EveryItemIsAccounted OutputsAreOfTheRow GoodCopyIsWhole
    CutShortIsVisible SuccessIsRecorded
PROPERTIES
    CollectEnds
