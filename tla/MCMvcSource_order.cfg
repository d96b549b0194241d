SPECIFICATION Spec
CONSTANTS
    NumPics = 6
    Streams <- GopStreams
    Budget = 4
    MaxSlots = 4096
    Alt = FALSE
    Faults = {"order"}
INVARIANTS
    ServedTrue
