SPECIFICATION Spec
CONSTANTS
    BlockSize = 4
    MacSize = 3
    BlocksPerChunk = 2
    MaxSize = 34
    MaxOffset = 2
INVARIANTS
    SizesRoundTrip
    ReadsAreCovered
    RangesHoldChunks
