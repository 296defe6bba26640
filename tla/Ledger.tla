-------------------------------- MODULE Ledger --------------------------------
(***************************************************************************)
(* What a validator promises of the chain it has finalized: blocks are     *)
(* appended above everything that is there, each one applies to the        *)
(* accounts its predecessors left, and the accounts change in no other way.*)
(* Heights may have gaps: a validator that missed a block goes on above it.*)
(* The ledger is not kept anywhere: a restart begins it anew.              *)
(***************************************************************************)
EXTENDS StateStore

CONSTANTS Allocations

VARIABLES
    chain,      \* height -> block
    accounts,
    starts      \* how often it was begun anew

Genesis == Bind(EmptyMap, 0, GenesisBlock)

Init ==
    /\ chain = Genesis
    /\ accounts = GenesisAccounts(Allocations)
    /\ starts = 0

(* What may be appended is left open but for the shape of a block: its     *)
(* height is above the chain and its transactions run.                     *)
Extends(block) == \A h \in DOMAIN chain : h < block.header.height

AppendBlock(block) ==
    /\ Extends(block)
    /\ BlockApplies(accounts, block.transactions)
    /\ chain' = Bind(chain, block.header.height, block)
    /\ accounts' = ApplyBlock(accounts, block.transactions)
    /\ UNCHANGED starts

StartOver ==
    /\ starts' = starts + 1
    /\ chain' = Genesis
    /\ accounts' = GenesisAccounts(Allocations)

(* The block appended is the one that chain' has and chain has not.        *)
Next ==
    \/ StartOver
    \/ \E h \in DOMAIN chain' :
          h = chain'[h].header.height /\ AppendBlock(chain'[h])

Spec == Init /\ [][Next]_<<chain, accounts, starts>>
===============================================================================
