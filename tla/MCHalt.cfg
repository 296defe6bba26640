SPECIFICATION Spec
CONSTANTS
    n1 = n1
    n2 = n2
    n3 = n3
    wallet = wallet
    shop = shop
    ZeroAddr = ZeroAddr
    Undecodable = Undecodable
    MaxU64 = 1
    Capacity = 1
    MaxTxsPerBlock = 1
    MaxTxsDecoded = 1
    BlocksOutCapacity = 1
    Validators <- MCPair
    Allocations <- MCAllocations
    SeedTxs <- MCSeedTxs
    Timestamps = {0}
    MaxHeight = 2
    MaxBlocks = 2
CHECK_DEADLOCK FALSE
INVARIANT
    ChainCanGrow
