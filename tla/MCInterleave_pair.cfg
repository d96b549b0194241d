CONSTANTS
    Length = 3
    Files = {}
    Pairs <- MCPairs
    Faults = {"idx", "poc", "view"}
    IdxCap = 1
    PsCap = 2
    PocCap = 2
SPECIFICATION SpecPair
INVARIANTS
    PairsTrue
    CountTrue
    SeekPointsTrue
    SeekAtBoundary
    RefeedTrue
    HandsOverStream
