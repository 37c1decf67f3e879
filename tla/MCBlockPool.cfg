CONSTANTS
    attn = attn
    state = state
    NoGroup = NoGroup
    NumLcmBlocks = 3
    Groups <- MCGroups
    Packing <- MCPacking
    ShardCount <- MCShardCount
    MaxBlocks = 3
    MaxLoad = 1
SPECIFICATION Spec
INVARIANTS
    TypeOK
    EmptyParentsQueuedOnce
    CachesMatchOccupancy
    NoFatalCheck
    CapacityFormulaExact
PROPERTIES
    PacksDensely
    LandsInItsBucket
