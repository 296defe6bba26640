--------------------------- MODULE MCBlockProduction --------------------------
(* Two funded senders and a recipient without an account.  The balances add *)
(* up to more than MaxU64, so a transfer can overflow its recipient.        *)
EXTENDS BlockProduction

CONSTANTS alice, bob, carol

(* Each is given its balance in two parts; alice's add up to one more than  *)
(* a u64 holds and the 3 that are left.                                     *)
MCAllocations == <<<<alice, 4>>, <<alice, 4>>, <<bob, 2>>, <<bob, 1>>>>

(* A rival pair for alice's nonce 0, a spend-it-all, a self-transfer, and   *)
(* transfers between the two that can overflow or depend on each other.     *)
MCTxs ==
    {Signed(alice, carol, 1, 0), Signed(alice, bob, 2, 0), Signed(alice, alice, 2, 1),
     Signed(alice, carol, 2, 1), Signed(alice, carol, 1, 2), Signed(bob, alice, 2, 0),
     Signed(bob, carol, 3, 0), Signed(bob, alice, 1, 1)}

(* Single transactions, and a block whose second transaction cannot apply   *)
(* after its first.                                                         *)
MCBodies ==
    {<<tx>> : tx \in MCTxs}
        \cup {<<Signed(bob, carol, 3, 0), Signed(bob, alice, 1, 1)>>}
===============================================================================
