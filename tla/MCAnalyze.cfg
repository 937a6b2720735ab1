\* Two runs with the same --out; failed writes, signals and crashes at any point.
SPECIFICATION FairSpec
CONSTANTS
    Plugins <- MCPlugins
    PluginLists <- MCLists
    OutputOf <- MCOutputOf
    MaxRuns = 2
    None = None
    Torn = Torn
CHECK_DEADLOCK FALSE
INVARIANTS
    TypeOK EveryPluginHasARow ExitPolicy CutShortFails NamedOutputIsThere
    ReportAgrees
PROPERTIES
    AnalyzeEnds
