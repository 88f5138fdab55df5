---------------------------- MODULE MCShopOrder ----------------------------
(* Instances of the shop: an order is named after the way it is paid.        *)
EXTENDS ShopOrder, TLC

CONSTANTS s1, s2, card, wallet1, wallet2, ipn, ipn2, webhook, redirect

MCMethodOf == [o \in Orders |->
    CASE o = card -> "card"
      [] o \in {wallet1, wallet2} -> "wallet"
      [] o \in {ipn, ipn2} -> "ipn"
      [] o = webhook -> "webhook"
      [] o = redirect -> "redirect"]

\* The card order renews a user; the orders of the wallet's owner invite nobody.
MCPurchases == Orders \ {card}
MCInvited == Orders \ {wallet1, wallet2}
MCAdjustments == {-1, 2}
MCServedTwice == [o \in Orders |-> 2]
MCServedOnceByWallet == [o \in Orders |-> IF o \in {wallet1, wallet2} THEN 1 ELSE 2]
\* Requests can be exchanged, and so can two orders of the same kind.
Symmetry == Permutations(Sessions) \cup Permutations({wallet1, wallet2})
=============================================================================
