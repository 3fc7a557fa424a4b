SPECIFICATION MCSpec
CONSTANTS
    BlockSize = 2
    MacSize = 2
    BlocksPerChunk = 1
    Repository = "SD-Connect"
    v1 = v1
    v2 = v2
    v3 = v3
    Files = {f1, f2}
    Shared = {f2}
    Segmented = {f1}
    Versions <- ThreeVersions
    PlainSize <- Plain
    HeaderSize <- Header
    MaxSize = 10
    ReadSize = 2
    Overlap = FALSE
    Events <- AllEvents
    Rewritten = {f1}
    None = None
INVARIANTS
    ReadsOneVersion
    FreshAfterClear
    CacheMatchesSize
    SizesAddUp
PROPERTY ImplementsRemoteFiles
CHECK_DEADLOCK FALSE
