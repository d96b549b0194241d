SPECIFICATION Spec
CONSTANTS
    Pictures = 4
    Slots = 2
    StuckLimit = 2
    Files <- MCFiles
    Faults <- StreamFaults
INVARIANTS
    TypeOK
    FedOnceInOrder
PROPERTY ImplementsPictureSource
