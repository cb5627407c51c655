--------------------------- MODULE MCCommandQueue ---------------------------
(***************************************************************************)
(* Small instances of CommandQueue.  The call sites are those of the       *)
(* source; each is tagged with the line it stands for.                     *)
(***************************************************************************)
EXTENDS CommandQueue, TLC

Site(k, p, i, g, a) == [kind |-> k, priority |-> p, interruptible |-> i,
                        guard |-> g, await |-> a]

Purchase     == Site("PurchaseAuction", Critical, FALSE, FALSE, FALSE)    \* main.rs:4172
SellOrder    == Site("BazaarSellOrder", High, TRUE, FALSE, FALSE)         \* main.rs:4348
BuyOrder     == Site("BazaarBuyOrder", Normal, TRUE, FALSE, FALSE)        \* main.rs:4348
OrderCheck   == Site("ManageOrders", Normal, FALSE, TRUE, FALSE)          \* main.rs:6157
StartupClaim == Site("ClaimPurchasedItem", Critical, FALSE, FALSE, TRUE)  \* client.rs:9133
BoughtClaim  == Site("ClaimPurchasedItem", Normal, FALSE, FALSE, FALSE)   \* main.rs:2932
Listing      == Site("SellToAuction", High, FALSE, FALSE, FALSE)          \* main.rs:5099
SoldClaim    == Site("ClaimSoldItem", High, TRUE, TRUE, FALSE)            \* main.rs:5226

Mixed     == {Purchase, BuyOrder, OrderCheck}
Offers    == {SellOrder, BuyOrder, Purchase}
Awaiting  == {StartupClaim, Purchase}
Eventual  == {StartupClaim, SoldClaim, BuyOrder}
Claims    == {StartupClaim, BoughtClaim}
Listings  == {StartupClaim, Listing}
Symmetry == Permutations(Callers)
=============================================================================
