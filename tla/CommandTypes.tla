---------------------------- MODULE CommandTypes ----------------------------
(***************************************************************************)
(* The vocabulary shared by every module of this project: the kinds of     *)
(* command (src/src/types.rs, CommandType), their priorities, the states   *)
(* of the bot, and the classifications the code makes of them.             *)
(* The payload of a command (item, price, slot) is abstracted away.        *)
(***************************************************************************)
EXTENDS Integers, FiniteSets

CommandType ==
    { "BazaarBuyOrder", "BazaarSellOrder", "PurchaseAuction", "SendChat",
      "ClaimSoldItem", "ClaimPurchasedItem", "CheckCookie", "DiscoverOrders",
      "ExecuteOrders", "SellToAuction", "ManageOrders", "ClickSlot",
      "SwapProfile", "AcceptTrade", "CancelAuction", "SellInventoryBz",
      "GoToIsland" }

(* Smaller is more urgent: the derived Ord of the enum. *)
Critical == 1
High     == 2
Normal   == 3
Low      == 4
CommandPriority == Critical .. Low

BotState ==
    { "Startup", "Idle", "Purchasing", "Bazaar", "Selling", "Claiming",
      "GracePeriod", "ClaimingPurchased", "ClaimingSold", "ManagingOrders",
      "CheckingCookie", "BuyingCookie", "InstaSelling", "CancellingAuction",
      "SellingInventoryBz" }

AllowsCommands(s) == s \in {"Idle", "GracePeriod"}

(* Kinds the queue never trims, even over its limit. *)
Essential ==
    {"BazaarSellOrder", "SellToAuction", "ManageOrders", "PurchaseAuction"}

(* Kinds that expire or are cleared as bazaar recommendations. *)
BazaarOrder == {"BazaarBuyOrder", "BazaarSellOrder"}

-----------------------------------------------------------------------------
(* The order and the limit of the command queue, on sets of commands.      *)

(* c is served before d: more urgent, or as urgent and enqueued earlier.   *)
Before(c, d) ==
    c.priority < d.priority \/ (c.priority = d.priority /\ c.id < d.id)

(* What is left of the set P of commands once the droppable commands that  *)
(* are served last have been given up, as many as P is over the limit n.   *)
Bounded(P, n) ==
    LET droppable == {c \in P : c.kind \notin Essential}
        behind(c) == Cardinality({d \in droppable : Before(c, d)})
    IN  P \ {c \in droppable : behind(c) < Cardinality(P) - n}
=============================================================================
