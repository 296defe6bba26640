SPECIFICATION Spec
CONSTANTS
    wallet = wallet
    friend = friend
    shop = shop
    Self = self
    Peer = peer
    ZeroAddr = ZeroAddr
    Undecodable = Undecodable
    MaxU64 = 3
    Capacity = 2
    MaxTxsPerBlock = 2
    MaxTxsDecoded = 2
    BlocksOutCapacity = 1
    Allocations <- MCAllocations
    SeedTxs <- MCOneTx
    Bodies <- MCBodies
    Timestamps = {0}
    OwnVoteNeeded = TRUE
    SkipCertificates = FALSE
    ConformingPeers = TRUE
    PeersRepeat = FALSE
    MaxRestarts = 0
    MaxHeight = 2
    MaxBlocks = 2
    MaxMailbox = 2
INVARIANTS
    TypeOK
    VotedBlockHeld
    NeverMissing
    BroadcastFindsBlock
    PoolForgetsCommitted
    StoreIsCommitted
PROPERTY
    ImplementsLedger
