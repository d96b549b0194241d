\* Open GOPs, two output frames per picture; a decode, an allocation or a
\* cache buffer may fail at any point.
SPECIFICATION FairSpec
CONSTANTS
    NumPics = 4
    Streams <- OpenGops
    Budget = 6
    MaxSlots = 4096
    Alt = TRUE
    Faults = {"alloc", "decode", "cache"}
PROPERTIES
    ImplementsServer
INVARIANTS
    CacheCoherent
    ServedTrue
    LabelsTrue
