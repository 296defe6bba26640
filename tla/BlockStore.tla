------------------------------ MODULE BlockStore ------------------------------
(***************************************************************************)
(* The block store of crates/storage/src/block_store.rs, a record of the   *)
(* code's two maps:                                                        *)
(*   blocks        hash -> block                                           *)
(*   height_index  height -> hash of the last block inserted at that height*)
(***************************************************************************)
EXTENDS ChainTypes, HashMaps, FiniteSets

EmptyStore == [blocks |-> EmptyMap, height_index |-> EmptyMap]

(* Faulty variant: heights counted here, not read from the header.         *)
StoreInsertByCount(store, block) ==
    [blocks       |-> Bind(store.blocks, BlockHash(block), block),
     height_index |-> Bind(store.height_index,
                           Cardinality(DOMAIN store.height_index),
                           BlockHash(block))]

StoreInsert(store, block) ==
    [blocks       |-> Bind(store.blocks, BlockHash(block), block),
     height_index |-> Bind(store.height_index, block.header.height,
                           BlockHash(block))]

(* get_by_hash finds a block.                                              *)
Stores(store, hash) == hash \in DOMAIN store.blocks

(* tip: none in an empty store, else what the largest height leads to.     *)
HasTip(store) == DOMAIN store.height_index # {}

(* Faulty variant: the smallest height.                                    *)
BottomBlock(store) ==
    LET heights == DOMAIN store.height_index
        height == CHOOSE h \in heights : \A k \in heights : k >= h
    IN  store.blocks[store.height_index[height]]

TipBlock(store) ==
    LET heights == DOMAIN store.height_index
        max_height == CHOOSE h \in heights : \A k \in heights : k <= h
    IN  store.blocks[store.height_index[max_height]]
===============================================================================
