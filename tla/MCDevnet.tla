------------------------------- MODULE MCDevnet -------------------------------
(* The roster of main.rs: three validators, all of whose votes are needed,   *)
(* a funded demo wallet and one payment of it queued on every node.          *)
EXTENDS Devnet

CONSTANTS n1, n2, n3, wallet, shop

LOCAL INSTANCE TLC

MCValidators == {n1, n2, n3}

MCPair == {n1, n2}

MCSymmetry == Permutations(MCValidators)

MCAllocations == <<<<wallet, 1>>>>

MCSeedTxs == <<Signed(wallet, shop, 1, 0)>>
===============================================================================
