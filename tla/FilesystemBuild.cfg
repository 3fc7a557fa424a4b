SPECIFICATION FairSpec
CONSTANTS
    Stems <- StemOrder
    Clean <- CleanStem
    Strip <- StripStem
    Storages <- SomeStorages
    Project = "p"
    Repositories = {"SD-Connect", "SD-Apply"}
    Workers = {w1, w2}
    Events <- Failures
    NoMark = NoMark
    NoOwner = NoOwner
    NoNode = NoNode
    Idle = Idle
INVARIANTS
    ObjectsAreFiles
    NodesAreFound
    TreeSizesAddUp
    PoolInv
PROPERTIES
    PoolSpec
    BuildEnds
