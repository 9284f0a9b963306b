SPECIFICATION MCSpec
CONSTANTS
    MirrorCap = 2
    ClientCap = 3
    TailLines = 1
    FetchChunk = 2
    LogCap = 3
    DigestEvery = 2
    BackendCap = 4
    MaxFetches = 3
    ScScenarios <- MCScenarios
    GcShapes <- MCShapes
INVARIANTS ScreenFollows HistoryIsTrue ViewStays ViewIsWindow
CHECK_DEADLOCK FALSE
