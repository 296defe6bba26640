SPECIFICATION Spec
CONSTANTS
    n1 = n1
    n2 = n2
    n3 = n3
    wallet = wallet
    shop = shop
    ZeroAddr = ZeroAddr
    Undecodable = Undecodable
    MaxU64 = 1
    Capacity = 1
    MaxTxsPerBlock = 1
    MaxTxsDecoded = 1
    BlocksOutCapacity = 1
    Validators <- MCValidators
    Allocations <- MCAllocations
    SeedTxs <- MCSeedTxs
    Timestamps = {0}
    MaxHeight = 2
    MaxBlocks = 2
SYMMETRY MCSymmetry
CHECK_DEADLOCK FALSE
INVARIANTS
    TypeOK
    ReplicasAgree
    DecidedIsHeld
    StoresNeverFork
PROPERTY
    ReplicasImplementLedger
