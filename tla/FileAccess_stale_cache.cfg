SPECIFICATION Spec
CONSTANTS
    BlockSize = 2
    MacSize = 2
    BlocksPerChunk = 1
    Repository = "SD-Connect"
    v1 = v1
    v2 = v2
    v3 = v3
    Files = {f1}
    Shared = {}
    Segmented = {f1}
    Versions <- TwoVersions
    PlainSize <- Plain
    HeaderSize <- Header
    MaxSize = 10
    ReadSize = 2
    Overlap = TRUE
    Events <- WritesOnly
    Rewritten = {f1}
    None = None
INVARIANT FreshAfterClear
CHECK_DEADLOCK FALSE
