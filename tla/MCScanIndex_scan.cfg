\* Streams of four pictures cut, wrapped and ordered in every way; the POC
\* buffer and the seek point list may fail to grow.
SPECIFICATION Spec
CONSTANTS
    Length = 4
    Files <- ScanFiles
    Faults = {"idx", "poc"}
    IdxCap = 1
    PsCap = 2
    PocCap = 2
INVARIANTS
    TypeOK
    CountTrue
    SeekPointsTrue
    HandsOverStream
    SeekAtBoundary
    RefeedTrue
