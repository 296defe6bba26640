SPECIFICATION Spec
CONSTANTS
    alice = alice
    bob = bob
    ZeroAddr = ZeroAddr
    Addresses <- MCAddresses
    Txs <- MCTxs
    Capacity = 3
INVARIANTS
    TypeOK
    Lockstep
    QueriesFollowHeld
PROPERTY
    ImplementsMempoolSpec
