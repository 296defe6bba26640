----------------------------- MODULE MCApplication ----------------------------
(* Two funded wallets pay into a shop.  `pay` and `gift` are each wallet's   *)
(* first transaction.                                                        *)
EXTENDS Application

CONSTANTS wallet, friend, shop

MCPay == Signed(wallet, shop, 1, 0)

MCGift == Signed(friend, shop, 1, 0)

MCAllocations == <<<<wallet, 1>>, <<friend, 1>>>>

MCNoTxs == <<>>

MCOneTx == <<MCPay>>

MCEmptyBodies == {<<>>}

MCGiftBodies == {<<MCGift>>}

MCBodies == {<<MCGift>>, <<MCGift, MCPay>>}
===============================================================================
