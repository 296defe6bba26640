SPECIFICATION Spec
CONSTANTS
    alice = alice
    bob = bob
    carol = carol
    ZeroAddr = ZeroAddr
    MaxU64 = 4
    Capacity = 4
    MaxTxs = 2
    Allocations <- MCAllocations
    Txs <- MCTxs
    Bodies <- MCBodies
INVARIANT
    LaterNoncesAreUnusable
