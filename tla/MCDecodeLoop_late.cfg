SPECIFICATION Spec
CONSTANTS
    Pictures = 3
    Slots = 2
    StuckLimit = 2
    Files <- MCFiles
    Faults <- LateFault
INVARIANT FedOnceInOrder
