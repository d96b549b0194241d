SPECIFICATION Spec
CONSTANTS
    vs = vs
    avs = avs
    Procs = {vs, avs}
    Host <- MCHost
    Contents <- MCContents
    ScanOf <- MCScanOf
    MaxPics = 15
    IntMax = 30
    Int64Max = 63
    DefaultRate <- MCRate
    Block = 8
    Mib = 2
    Width = 2
    Height = 2
    SizeMax = 8191
    MaxSlots = 4096
    Scenes <- MCScenes
INVARIANTS
    TypeOK
    NothingLeaks
    LoadedTrue
    LoadedSafe
    NoPartialLeft
    ClipTrue
    BudgetKept
    FrameTrue
CHECK_DEADLOCK FALSE
