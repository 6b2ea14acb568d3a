SPECIFICATION Spec
CONSTANTS
    Block = {0}
    BlockSize = 8
    PageSize = 2
    BucketCaps <- Caps
    Size = {1, 2, 3, 5, 8}
    MaxRestart = 1
CHECK_DEADLOCK FALSE
INVARIANTS
    ChunksTile
    FreeChunksCoalesced
    BucketsHoldFreeChunks
    BitmapIsExact
    FreeHeadersKept
