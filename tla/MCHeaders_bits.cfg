\* Headers of every shape, whole and cut; a word of 30 bits.
SPECIFICATION Spec
CONSTANTS
    Streams <- MCStreams
    Width = 30
    Buf <- MCBuf
INVARIANTS
    ReadsBack
    CutRefused
    SetsInForce
