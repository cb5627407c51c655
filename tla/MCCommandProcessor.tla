------------------------- MODULE MCCommandProcessor -------------------------
(***************************************************************************)
(* Small instances of CommandProcessor: the requests of the source, with   *)
(* the line each stands for.                                               *)
(***************************************************************************)
EXTENDS CommandProcessor

VARIABLE part    \* of MCSpec: what a behaviour is about

Ask(k, p, i) == [kind |-> k, priority |-> p, interruptible |-> i,
                 guard |-> k = "ManageOrders"]

Purchase   == Ask("PurchaseAuction", Critical, FALSE)    \* main.rs:4172
BuyOrder   == Ask("BazaarBuyOrder", Normal, TRUE)        \* main.rs:4348
OrderCheck == Ask("ManageOrders", Normal, FALSE)         \* main.rs:6163
Claim      == Ask("ClaimPurchasedItem", Normal, FALSE)   \* main.rs:2932
Trade      == Ask("ClickSlot", Critical, FALSE)          \* main.rs:4904
Listing    == Ask("SellToAuction", High, FALSE)          \* main.rs:5099

Flips    == {Purchase, BuyOrder, OrderCheck}
Checks   == {OrderCheck}
Trades   == {Trade, Purchase}
Space    == {Claim, Listing, Trade}
Offers   == {BuyOrder, Purchase}
NoFlags  == {}
Inventory == {"inventoryFull", "slotsFew", "ahPause", "startup",
               "auctionLimit"}
FullOnly  == {"inventoryFull", "slotsFew"}
InStartup == {"startup"}
All       == Flips \cup Space

(* In one part the flags stay and windows open and close; in the other the *)
(* inventory, the AH pause and start-up refuse commands for lack of space. *)
Within(kinds, requests, windows, toggles) ==
    /\ \A c \in pending' \ pending :
          requested' # requested => \E r \in kinds : c.kind = r.kind
    /\ requested' <= requests /\ opened' <= windows
    /\ flags' = flags \/ toggles

MCNext ==
    /\ Next /\ UNCHANGED part
    /\ \/ part = "windows" /\ Within(Flips, 3, MaxWindows, FALSE)
       \/ part = "space" /\ Within(Space, 2, 0, TRUE)

MCInit == Init /\ part \in {"windows", "space"}
MCSpec == MCInit /\ [][MCNext]_<<vars, part>> /\ Fairness

(* Any request and any change of the flags, within the bounds alone *)
FreeSpec == /\ Init /\ part = "all"
            /\ [][Next /\ UNCHANGED part]_<<vars, part>>
            /\ Fairness

(* But for the commands of ExecutesCurrent, flips, their orders and order  *)
(* checks never drive the windows two at a time (main.rs:5682-5725).       *)
FlipsExecuteWhenFree == part = "windows" => ExecutesWhenFree
=============================================================================
