-------------------------------- MODULE Stock --------------------------------
(***************************************************************************)
(* How what was bought gets to be sold (main.rs, bot/client.rs): a won     *)
(* auction is claimed, the inventory is uploaded from a cache, a server    *)
(* that knows prices answers with what to list, the commands list it, and  *)
(* a sold or expired auction is collected.  No task follows an item all    *)
(* the way: each acts on a cache (the inventory, the empty slots, the own  *)
(* auctions) and on two flags (the house is full, the slot is blocked)     *)
(* that other tasks set and clear.                                         *)
(*                                                                         *)
(* A command is executed in one step: AuctionHouse has its windows.  The   *)
(* queue holds no two equal commands: the second finds the work done.      *)
(* Prices come from COFL, or from a finder that is both the primary socket *)
(* and the one of the lister; the answer comes with the upload, for what   *)
(* is stale after it waits in the queue like what is stale before.         *)
(***************************************************************************)
EXTENDS Integers, FiniteSets

CONSTANTS
    Goods,          \* items, one of each name
    Priced,         \* those the server has a price for
    PriceServers,   \* "cofl", "finder", or "none": enable_ah_flips is off
    Room,           \* slots of the inventory, 36 in the game
    NearFull,       \* NEAR_FULL_SLOT_THRESHOLD
    HouseSlots,     \* auctions the house lets this account have
    MaxTrouble      \* bound of the model: auctions that end without a buyer,
                    \* and listings that fail

ASSUME StockAssumption ==
    /\ IsFiniteSet(Goods) /\ Priced \subseteq Goods
    /\ PriceServers \subseteq {"cofl", "finder", "none"}
    /\ {Room, NearFull, HouseSlots, MaxTrouble} \subseteq Nat

VARIABLES
    at,          \* server: where each item is
    server,      \* who knows the prices
    cached,      \* cached_inventory_json, and from it cached_empty_player_slots
    slotTask,    \* the rebuild a slot update has scheduled
    atLimit,     \* auction_at_limit
    slotBlocked, \* auction_slot_blocked
    jobs,        \* commands
    recently,    \* listed_recently
    selling,     \* a sellinventory under way
    trouble      \* counts what MaxTrouble bounds

cacheVars  == <<cached, slotTask>>
limitVars  == <<atLimit, slotBlocked>>
stockVars  == <<at, server, cacheVars, limitVars, jobs, recently, selling, trouble>>

Held(place)   == {i \in Goods : at[i] = place}
InHouse       == Held("active") \cup Held("sold") \cup Held("expired")
List(i)       == [is |-> "list", item |-> i]
ClaimSold     == [is |-> "claim sold"]
ClaimBought   == [is |-> "claim bought"]
EmptyCached   == Room - Cardinality(cached)
AlmostFull    == EmptyCached <= NearFull
ListAll(S)    == {List(i) : i \in S \cap Priced}

-----------------------------------------------------------------------------
(* The cache.  The contents of a window that opens are stored at once, and *)
(* a slot update schedules a rebuild unless one is scheduled.              *)
WindowOpens == cached' = Held("inventory")

SlotChanges == slotTask' = IF slotTask = "none" THEN "sleeping" ELSE slotTask

RebuildSlots ==
    /\ slotTask = "sleeping"
    /\ cached' = Held("inventory") /\ slotTask' = "done"
    /\ UNCHANGED <<at, server, limitVars, jobs, recently, selling, trouble>>

(* The flag is cleared after the rebuild: an update in between schedules   *)
(* none.                                                                   *)
RebuildEnds ==
    /\ slotTask = "done"
    /\ slotTask' = "none"
    /\ UNCHANGED <<at, server, cached, limitVars, jobs, recently, selling, trouble>>

-----------------------------------------------------------------------------
(* The game. *)

Bought(i) ==
    /\ at[i] = "away"
    /\ at' = [at EXCEPT ![i] = "won"]
    /\ jobs' = IF AlmostFull THEN jobs ELSE jobs \cup {ClaimBought}
    /\ UNCHANGED <<server, cacheVars, limitVars, recently, selling, trouble>>

(* A sale is told in chat: a slot is free, and COFL is asked what to list. *)
AuctionSold(i) ==
    /\ at[i] = "active"
    /\ at' = [at EXCEPT ![i] = "sold"]
    /\ atLimit' = FALSE
    /\ jobs' = jobs \cup {ClaimSold}
    /\ selling' = TRUE
    /\ UNCHANGED <<server, cacheVars, slotBlocked, recently, trouble>>

(* The end of an auction without a buyer is not. *)
Expires(i) ==
    /\ at[i] = "active" /\ trouble < MaxTrouble
    /\ at' = [at EXCEPT ![i] = "expired"]
    /\ trouble' = trouble + 1
    /\ UNCHANGED <<server, cacheVars, limitVars, jobs, recently, selling>>

-----------------------------------------------------------------------------
(* The commands. *)

Dropped(job) ==
    \/ job.is = "list" /\ (atLimit \/ slotBlocked)
    \/ job.is = "claim bought" /\ AlmostFull

Drop(job) ==
    /\ Dropped(job)
    /\ UNCHANGED <<at, cacheVars, limitVars, trouble>>

Listing(i) ==
    /\ WindowOpens
    /\ IF Cardinality(InHouse) >= HouseSlots
          THEN /\ atLimit' = TRUE
               /\ UNCHANGED <<at, slotTask, slotBlocked, trouble>>
       ELSE IF at[i] = "inventory"
          THEN /\ at' = [at EXCEPT ![i] = "active"] /\ SlotChanges
               /\ atLimit' = FALSE
               /\ UNCHANGED <<slotBlocked, trouble>>
       ELSE UNCHANGED <<at, slotTask, limitVars, trouble>>

(* It may end at a window that does not open, or with the slot blocked by  *)
(* an item that stays in it.                                               *)
ListingFails ==
    /\ trouble < MaxTrouble
    /\ trouble' = trouble + 1
    /\ slotBlocked' \in BOOLEAN /\ (slotBlocked => slotBlocked')
    /\ UNCHANGED <<at, cacheVars, atLimit>>

(* Sold and expired auctions are collected, the latter while there is room. *)
Collecting ==
    /\ WindowOpens
    /\ \E back \in SUBSET Held("expired") :
          /\ \/ back = Held("expired")
             \/ Cardinality(back \cup Held("inventory")) = Room
          /\ Cardinality(back \cup Held("inventory")) <= Room
          /\ at' = [i \in Goods |-> IF at[i] = "sold" THEN "gone"
                                    ELSE IF i \in back THEN "inventory" ELSE at[i]]
          /\ IF back = {} THEN UNCHANGED slotTask ELSE SlotChanges
    /\ slotBlocked' = FALSE
    /\ UNCHANGED <<atLimit, trouble>>

Claiming ==
    /\ WindowOpens
    /\ \E won \in SUBSET Held("won") :
          /\ \/ won = Held("won") \/ Cardinality(won \cup Held("inventory")) = Room
          /\ Cardinality(won \cup Held("inventory")) <= Room
          /\ at' = [i \in Goods |-> IF i \in won THEN "inventory" ELSE at[i]]
          /\ IF won = {} THEN UNCHANGED slotTask ELSE SlotChanges
    /\ UNCHANGED <<limitVars, trouble>>

Execute(job) ==
    /\ job \in jobs
    /\ jobs' = jobs \ {job}
    /\ \/ Drop(job)
       \/ /\ ~ Dropped(job)
          /\ \/ job.is = "list" /\ (Listing(job.item) \/ ListingFails)
             \/ job.is = "claim sold" /\ Collecting
             \/ job.is = "claim bought" /\ Claiming
    /\ UNCHANGED <<server, recently, selling>>

-----------------------------------------------------------------------------
(* The lister: every ten seconds it looks whether an upload is due: an       *)
(* auction has gone, the cache differs from what was sent, or 60 s passed. *)

Instructed(seen) ==
    /\ jobs' = jobs \cup ListAll(cached \ seen)
    /\ recently' = seen \cup (cached \cap Priced)

ListerTick ==
    /\ server = "finder" /\ ~ atLimit /\ ~ slotBlocked
    /\ Instructed(recently)
    /\ UNCHANGED <<at, server, cacheVars, limitVars, selling, trouble>>

(* /trex sellinv: all is asked for again, whatever the flags. *)
ForceList ==
    /\ server = "finder"
    /\ Instructed({})
    /\ UNCHANGED <<at, server, cacheVars, limitVars, selling, trouble>>

(* 300 s after an instruction the name may be instructed again. *)
Cooled(i) ==
    /\ i \in recently
    /\ recently' = recently \ {i}
    /\ UNCHANGED <<at, server, cacheVars, limitVars, jobs, selling, trouble>>

-----------------------------------------------------------------------------
(* The primary socket: an upload each minute to a finder, and sellinventory *)
(* after a sale and by the failsafe to COFL.                               *)

(* ListInstructions, or createAuction for each. *)
ListPriced == jobs' = jobs \cup ListAll(cached)

UploadInventory ==
    /\ server = "finder" /\ ~ atLimit
    /\ ListPriced
    /\ UNCHANGED <<at, server, cacheVars, limitVars, recently, selling, trouble>>

SellInventory ==
    /\ selling
    /\ selling' = FALSE
    /\ IF server = "cofl" THEN ListPriced ELSE UNCHANGED jobs
    /\ UNCHANGED <<at, server, cacheVars, limitVars, recently, trouble>>

-----------------------------------------------------------------------------
(* The timers. *)

PeriodicClaim ==
    /\ server # "none" /\ jobs = {}
    /\ jobs' = {ClaimSold}
    /\ UNCHANGED <<at, server, cacheVars, limitVars, recently, selling, trouble>>

IdleKeepsLimit ==            \* mutant: the flag is left to the next sale
    /\ server # "none"
    /\ slotBlocked' = FALSE
    /\ jobs' = jobs \cup {ClaimSold} \cup (IF AlmostFull THEN {} ELSE {ClaimBought})
    /\ selling' = TRUE
    /\ UNCHANGED <<at, server, cacheVars, atLimit, recently, trouble>>

(* The failsafe: no auction was listed for half an hour.  That may be at    *)
(* any moment, and is so after the last listing of a behaviour.            *)
IdleSells ==
    /\ server # "none"
    /\ atLimit' = FALSE /\ slotBlocked' = FALSE
    /\ jobs' = jobs \cup {ClaimSold} \cup (IF AlmostFull THEN {} ELSE {ClaimBought})
    /\ selling' = TRUE
    /\ UNCHANGED <<at, server, cacheVars, recently, trouble>>

-----------------------------------------------------------------------------
StockInit ==
    /\ at \in [Goods -> {"away", "inventory"}]
    /\ server \in PriceServers
    /\ cached = Held("inventory")
    /\ slotTask = "none"
    /\ atLimit = FALSE /\ slotBlocked = FALSE
    /\ jobs = {}
    /\ recently = {}
    /\ selling = FALSE
    /\ trouble = 0

StockTask == RebuildSlots \/ RebuildEnds

StockNext ==
    \/ StockTask
    \/ \E i \in Goods : Bought(i) \/ AuctionSold(i) \/ Expires(i) \/ Cooled(i)
    \/ \E job \in jobs : Execute(job)
    \/ ListerTick \/ ForceList \/ UploadInventory \/ SellInventory
    \/ PeriodicClaim \/ IdleSells

(* Tasks run, servers answer, auctions end, time passes. *)
StockFairness ==
    /\ WF_stockVars(RebuildSlots) /\ WF_stockVars(RebuildEnds)
    /\ \A i \in Goods : /\ WF_stockVars(AuctionSold(i) \/ Expires(i))
                        /\ WF_stockVars(Cooled(i))
                        /\ WF_stockVars(Execute(List(i)))
    /\ WF_stockVars(Execute(ClaimSold)) /\ WF_stockVars(Execute(ClaimBought))
    /\ WF_stockVars(ListerTick)
    /\ WF_stockVars(UploadInventory) /\ WF_stockVars(SellInventory)
    /\ WF_stockVars(IdleSells) /\ WF_stockVars(PeriodicClaim)

StockSpec == StockInit /\ [][StockNext]_stockVars /\ StockFairness
-----------------------------------------------------------------------------
StockTypeOK ==
    /\ at \in [Goods -> {"away", "won", "inventory", "active", "sold", "expired", "gone"}]
    /\ cached \subseteq Goods
    /\ {atLimit, slotBlocked, selling} \subseteq BOOLEAN
    /\ recently \subseteq Goods

(* Whatever is won is in the end sold and its coins are collected, though  *)
(* its claim is skipped while the inventory is nearly full ("The purchases *)
(* are safe in the AH collect bin and will be claimed once inventory       *)
(* drains", main.rs:5612-5614), the cache may be stale, a command fails or *)
(* is dropped, and nobody notices that a full house empties: "AH slots can *)
(* free up from expired auctions (which don't trigger ItemSold), so the    *)
(* bot must retry" (main.rs:6312-6314).                                    *)
PurchasesAreSold ==
    <>[](\A i \in Priced : at[i] \in {"away", "gone"})
=============================================================================
