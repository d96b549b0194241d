\* Every fault but the cache's, on every stream of four pictures that starts with an IDR and has leading ones,
\* one whose first picture has one view only among them.
SPECIFICATION FairSpec
CONSTANTS
    NumPics = 4
    Streams <- LoneBaseToo
    Budget = 4
    MaxSlots = 4096
    Alt = FALSE
    Faults = {"open", "alloc", "decode", "order"}
PROPERTIES
    RequestAnswered
    DriftIsLoud
INVARIANTS
    CacheBounded
