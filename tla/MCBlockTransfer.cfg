SPECIFICATION Spec
CONSTANTS
    ZeroAddr = ZeroAddr
    Txs <- MCTxs
    FirstHeader <- MCHeader
    SomeSignature <- MCSignature
    LengthBase = 2
    MaxTxsDecoded = 4
    MaxTxs = 5
    MaxDamagedTxs = 2
    MaxDamage = 1
CHECK_DEADLOCK FALSE
INVARIANTS
    RoundTrips
    SizesAreExact
    DecodesOnlyEncodings
    RootIsPositional
    RootDeterminesBody
