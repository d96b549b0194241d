\* A stream cut in mid-GOP whose slices name a PPS that is yet to come.
SPECIFICATION Spec
CONSTANTS
    Length = 4
    Files <- OtherPps
    Faults = {}
    IdxCap = 256
    PsCap = 16
    PocCap = 1024
INVARIANTS
    CountTrue
