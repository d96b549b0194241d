\* Every stream of five pictures; opening and seeking may fail.
SPECIFICATION Spec
CONSTANTS
    NumPics = 5
    Streams <- AllStreams
    Budget = 4
    MaxSlots = 3
    Alt = FALSE
    Faults = {"open", "alloc"}
INVARIANTS
    TypeOK
    NoSpuriousError
    DiscardSparesTarget
    NearestSeekPoint
    WindowCached
