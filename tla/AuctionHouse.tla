----------------------------- MODULE AuctionHouse -----------------------------
(***************************************************************************)
(* Listing, claiming and cancelling auctions (bot/client.rs): a command    *)
(* asks for the auction house, and the windows, signs and chat lines that  *)
(* follow drive it on.  Each window has a handler, spawned by its packet,  *)
(* that waits for the contents before it reads the step of the flow, and a *)
(* watchdog of five seconds; the claim, the cancellation and the retry of  *)
(* a stuck item have timers of their own, which know the flow they belong  *)
(* to by the bot state only.                                               *)
(*                                                                         *)
(* The server acts on a click when it is sent, and its packets and lines   *)
(* arrive in their order, at any later time.  The price of a command is    *)
(* its number, so that a listing tells whose price it carries.             *)
(***************************************************************************)
EXTENDS Integers, Sequences, FiniteSets

CONSTANTS
    Items,        \* what the inventory holds, one of each
    NoItem,
    Theirs,       \* the item of a co-op member's auction
    OwnOnly,      \* only_claim_own_auctions
    Limit,        \* auctions the house lets this account have
    MaxRetries,   \* MAX_AUCTION_STUCK_ITEM_RETRIES, 3 in the code
    MaxSells, MaxClaims, MaxCancels, MaxMoves, MaxResets   \* bounds of the model

ASSUME AuctionHouseAssumption ==
    /\ IsFiniteSet(Items) /\ NoItem \notin Items /\ Theirs \notin Items
    /\ OwnOnly \in BOOLEAN
    /\ {Limit, MaxRetries, MaxSells, MaxClaims, MaxCancels, MaxMoves,
        MaxResets} \subseteq Nat

Slots == 1 .. Cardinality(Items)

VARIABLES
    inventory,    \* server: what is in each slot of the player
    preview,      \* server: the item to be listed, in slot 13 of its window
    price,        \* server: the price that was last written on a sign
    auctions,     \* server: all auctions of the co-op, in order
    window,       \* server: the window that is open
    opened,       \* server: windows opened so far
    packets,      \* on their way to event_handler
    mode,         \* bot_state
    step,         \* auction_step
    context,      \* auction_item_name, auction_item_slot, auction_starting_bid
    cancel,       \* cancel_auction_item_name, cancel_auction_starting_bid
    aborted,      \* auction_sell_aborted
    stuck,        \* auction_stuck_item_retries
    blocked,      \* auction_slot_blocked
    atLimit,      \* auction_at_limit
    uuids,        \* claim_sold_uuid_queue
    own,          \* OWN_LISTINGS: items and prices of this account
    generation,   \* command_generation
    current,      \* last_window_id
    handlers,     \* window handlers: [window, kind, about, at, slots]
    watchdog,     \* of the window opened last: the generation then; 0 if it is over
    timers,       \* [is, since]: the timers of the flows
    begun,        \* how many commands of each kind, and moves, there were
    reported      \* history: what AuctionListed said

serverVars == <<inventory, preview, price, auctions, window, opened>>
flowVars   == <<step, context, cancel, aborted, uuids, own>>
flagVars   == <<stuck, blocked, atLimit>>
taskVars   == <<handlers, watchdog, timers, current>>
houseVars  == <<serverVars, packets, mode, flowVars, flagVars, generation, taskVars,
                begun, reported>>

NoWindow  == [id |-> 0, kind |-> "none", about |-> 0]
Empty     == [item |-> NoItem, by |-> 0, wanted |-> NoItem]
Mine      == {n \in DOMAIN auctions : auctions[n].item # Theirs}
InHouse(n) == n # 0 /\ auctions[n].at # "gone"
Claimable(n) == n # 0 /\ auctions[n].at = "sold"   \* or over without a buyer

-----------------------------------------------------------------------------
(* The server.  What a client step sends it takes at once.                 *)

OpensAfter(rest, kind, about) ==
    /\ opened' = opened + 1
    /\ window' = [id |-> opened + 1, kind |-> kind, about |-> about]
    /\ packets' = Append(rest, [is |-> "open", id |-> opened + 1, kind |-> kind,
                                about |-> about])

Opens(kind, about) == OpensAfter(packets, kind, about)

Sends(line, about) ==
    packets' = Append(packets, [is |-> line, id |-> 0, kind |-> "none", about |-> about])

SignOpens(kind) ==
    /\ window' = [NoWindow EXCEPT !.kind = kind]
    /\ Sends("sign", 0)
    /\ UNCHANGED opened

NothingOpens == UNCHANGED <<window, opened, packets>>
NoEffect     == UNCHANGED <<serverVars, packets>>
GoodsStay    == UNCHANGED <<inventory, preview, price, auctions>>

(* The item in the preview goes back to a free slot of the player. *)
PreviewReturns ==
    IF preview = Empty THEN UNCHANGED <<inventory, preview>>
    ELSE LET free == CHOOSE s \in Slots : inventory[s] = NoItem
         IN  /\ inventory' = [inventory EXCEPT ![free] = preview.item]
             /\ preview' = Empty

(* A click on a button of the window that is open: the house may skip      *)
(* windows on the way to the one that lists.                               *)
LeadsTo(kinds) == GoodsStay /\ \E k \in kinds : Opens(k, 0)
AsksOnSign(kind) ==
    /\ GoodsStay
    /\ IF preview = Empty THEN NothingOpens ELSE SignOpens(kind)
Reviews ==
    /\ GoodsStay
    /\ IF preview = Empty THEN NothingOpens ELSE Opens("confirm", 0)

ReturnsItem == PreviewReturns /\ NothingOpens /\ UNCHANGED <<price, auctions>>

Places(s) ==
    /\ \/ /\ inventory[s] # NoItem /\ preview = Empty
          /\ preview' = [item |-> inventory[s], by |-> generation, wanted |-> context.item]
          /\ inventory' = [inventory EXCEPT ![s] = NoItem]
          /\ NothingOpens
       \/ /\ inventory[s] # NoItem /\ preview # Empty
          /\ Sends("stuck", 0) /\ UNCHANGED <<inventory, preview, window, opened>>
       \/ inventory[s] = NoItem /\ UNCHANGED <<inventory, preview>> /\ NothingOpens
    /\ UNCHANGED <<price, auctions>>

(* The item is listed, or the house refuses and keeps it. *)
Lists ==
    /\ window' = NoWindow /\ UNCHANGED <<inventory, price, opened>>
    /\ \/ /\ preview # Empty
          /\ auctions' = Append(auctions, [item |-> preview.item, price |-> price,
                                           by |-> preview.by, wanted |-> preview.wanted,
                                           at |-> "active"])
          /\ preview' = Empty
          /\ Sends("started", Len(auctions) + 1)
       \/ UNCHANGED <<auctions, preview, packets>>

Leaves(n) == auctions' = [auctions EXCEPT ![n].at = "gone"]

(* In the auction's own window. *)
Collects(n) ==
    /\ IF Claimable(n) THEN Leaves(n) ELSE UNCHANGED auctions
    /\ Opens("manage", 0) \/ (window' = NoWindow /\ UNCHANGED <<opened, packets>>)
    /\ UNCHANGED <<inventory, preview, price>>

Withdraws(n) ==
    /\ auctions[n].at = "active" /\ Leaves(n)
    /\ inventory' = [inventory EXCEPT ![CHOOSE s \in Slots : inventory[s] = NoItem] =
                        auctions[n].item]
    /\ window' = NoWindow /\ Sends("cancelled", n) /\ UNCHANGED <<preview, price, opened>>

CollectsAll ==
    /\ auctions' = [n \in DOMAIN auctions |->
                       IF Claimable(n) THEN [auctions[n] EXCEPT !.at = "gone"]
                       ELSE auctions[n]]
    /\ window' = NoWindow /\ UNCHANGED <<inventory, preview, price, opened, packets>>

(* Closing the window that lists may leave the item where it is. *)
Close(id) ==
    /\ IF window.id = id /\ id # 0
       THEN /\ window' = NoWindow
            /\ PreviewReturns \/ UNCHANGED <<inventory, preview>>
       ELSE UNCHANGED <<window, inventory, preview>>
    /\ UNCHANGED <<price, auctions, opened>>

-----------------------------------------------------------------------------
(* What happens in the world: a buyer, the end of an auction, an inventory *)
(* that is rearranged.                                                     *)

clientVars == <<mode, flowVars, flagVars, generation, taskVars, reported>>

Sold(n) ==
    /\ auctions[n].at = "active"
    /\ auctions' = [auctions EXCEPT ![n].at = "sold"]
    /\ Sends("sold", n)
    /\ UNCHANGED <<inventory, preview, price, window, opened, begun, clientVars>>

Moves ==
    /\ begun.moves < MaxMoves
    /\ begun' = [begun EXCEPT !.moves = @ + 1]
    /\ \E s, t \in Slots :
          /\ s < t /\ inventory[s] # inventory[t]
          /\ inventory' = [inventory EXCEPT ![s] = inventory[t], ![t] = inventory[s]]
    /\ UNCHANGED <<preview, price, auctions, window, opened, packets, clientVars>>

(* No handler of the open window has found an item and has still to click. *)
Settled == \A h \in handlers : h.window = window.id => h.at \notin {"clears", "picks"}

-----------------------------------------------------------------------------
(* The commands.  A window that is still open is closed before a command   *)
(* asks for the house.                                                     *)

Asks(kind, about) ==
    /\ mode = "Idle"
    /\ generation' = generation + 1
    /\ IF window.id = current /\ current # 0
       THEN PreviewReturns \/ UNCHANGED <<inventory, preview>>
       ELSE UNCHANGED <<inventory, preview>>
    /\ Opens(kind, about)
    /\ UNCHANGED <<price, auctions, taskVars, own, reported>>

(* The slot is the one the item had when the command was queued. *)
SellToAuction ==
    /\ begun.sells < MaxSells /\ ~ atLimit /\ ~ blocked
    /\ begun' = [begun EXCEPT !.sells = @ + 1]
    /\ \E item \in Items, slot \in Slots :
          /\ inventory[slot] \in {item, NoItem}
          /\ context' = [item |-> item, slot |-> slot, price |-> generation + 1]
    /\ step' = "Initial" /\ aborted' = FALSE
    /\ Asks("house", 0) /\ mode' = "Selling"
    /\ UNCHANGED <<flagVars, cancel, uuids>>

ClaimSoldItem ==
    /\ begun.claims < MaxClaims
    /\ begun' = [begun EXCEPT !.claims = @ + 1]
    /\ IF uuids # <<>>
       THEN /\ uuids' = Tail(uuids)
            /\ IF InHouse(Head(uuids)) THEN Asks("view", Head(uuids))
               ELSE /\ mode = "Idle" /\ generation' = generation + 1
                    /\ Sends("missing", 0)
                    /\ UNCHANGED <<serverVars, taskVars, own, reported>>
       ELSE Asks("house", 0) /\ UNCHANGED uuids
    /\ mode' = "ClaimingSold"
    /\ UNCHANGED <<flagVars, step, context, cancel, aborted>>

ClaimPurchasedItem ==
    /\ begun.claims < MaxClaims
    /\ begun' = [begun EXCEPT !.claims = @ + 1]
    /\ uuids' = <<>>
    /\ Asks("house", 0) /\ mode' = "ClaimingPurchased"
    /\ UNCHANGED <<flagVars, step, context, cancel, aborted>>

CancelAuction ==
    /\ begun.cancels < MaxCancels
    /\ begun' = [begun EXCEPT !.cancels = @ + 1]
    /\ \/ \E n \in Mine : cancel' = [item |-> auctions[n].item, price |-> auctions[n].price]
       \/ cancel' = [item |-> NoItem, price |-> 0]   \* one that is gone
    /\ Asks("house", 0) /\ mode' = "CancellingAuction"
    /\ UNCHANGED <<flagVars, step, context, aborted, uuids>>

(* Half an hour without a listing: the flags may be stale (main.rs). *)
IdleInventory ==
    /\ begun.resets < MaxResets /\ mode = "Idle"
    /\ begun' = [begun EXCEPT !.resets = @ + 1]
    /\ atLimit' = FALSE /\ blocked' = FALSE
    /\ stuck' = IF blocked THEN 0 ELSE stuck
    /\ UNCHANGED <<serverVars, packets, mode, flowVars, generation, taskVars, reported>>

-----------------------------------------------------------------------------
(* event_handler *)

Take(is) == packets # <<>> /\ Head(packets).is = is
Done     == packets' = Tail(packets)

OnOpenScreen ==
    /\ Take("open") /\ Done
    /\ LET p == Head(packets)
       IN  /\ current' = p.id
           /\ handlers' = handlers \cup {[window |-> p.id, kind |-> p.kind,
                                          about |-> p.about, at |-> "starts", slots |-> {}]}
           /\ watchdog' = generation
    /\ UNCHANGED <<serverVars, mode, flowVars, flagVars, generation, timers, begun, reported>>

(* The server reads what is written on the sign that is open. *)
Writes(text) ==
    /\ IF window.kind \in {"priceSign", "durationSign"}
       THEN /\ price' = IF window.kind = "priceSign" THEN text ELSE price
            /\ OpensAfter(Tail(packets), "bin", 0)
       ELSE Done /\ UNCHANGED <<price, window, opened>>
    /\ UNCHANGED <<inventory, preview, auctions>>

Hours == 0    \* auction_duration_hours, which is no price

OnSign ==
    /\ Take("sign")
    /\ \/ /\ mode = "Selling" /\ ~ aborted /\ step = "PriceSign"
          /\ step' = "SetDuration" /\ Writes(context.price)
       \/ /\ mode = "Selling" /\ ~ aborted /\ step = "DurationSign"
          /\ step' = "ConfirmSell" /\ Writes(Hours)
       \/ /\ mode # "Selling" \/ aborted \/ step \notin {"PriceSign", "DurationSign"}
          /\ Done /\ UNCHANGED <<serverVars, step>>
    /\ UNCHANGED <<mode, context, cancel, aborted, uuids, own, flagVars, generation, taskVars,
                   begun, reported>>

(* The raw click on the preview and the raw close after it. *)
ClearsAndCloses(id) ==
    /\ IF window.id = id /\ id # 0
       THEN /\ window' = NoWindow
            /\ PreviewReturns
       ELSE UNCHANGED <<window, inventory, preview>>
    /\ UNCHANGED <<price, auctions, opened>>

Timer(is) == [is |-> is, since |-> opened]

MissesStuck ==                    \* mutant: the line is not known
    /\ Take("stuck") /\ Done
    /\ UNCHANGED <<serverVars, mode, flowVars, flagVars, generation, taskVars, begun, reported>>

OnStuck ==
    /\ Take("stuck") /\ Done
    /\ IF mode = "Selling"
       THEN /\ stuck' = stuck + 1
            /\ aborted' = TRUE
            /\ ClearsAndCloses(current)
            /\ IF stuck >= MaxRetries
               THEN /\ blocked' = TRUE /\ mode' = "Idle"
                    /\ UNCHANGED <<step, timers>>
               ELSE /\ step' = "Initial"
                    /\ timers' = timers \cup {Timer("retry")}
                    /\ UNCHANGED <<blocked, mode>>
       ELSE UNCHANGED <<serverVars, stuck, aborted, blocked, mode, step, timers>>
    /\ UNCHANGED <<context, cancel, uuids, own, atLimit, generation, handlers, watchdog,
                   current, begun, reported>>

(* "BIN Auction started": what was listed is taken from the context. *)
OnStarted ==
    /\ Take("started") /\ Done
    /\ own' = own \cup {<<context.item, context.price>>}
    /\ reported' = Append(reported, <<context.item, context.price>>)
    /\ atLimit' = FALSE /\ stuck' = 0
    /\ UNCHANGED <<serverVars, mode, step, context, cancel, aborted, uuids, blocked,
                   generation, taskVars, begun>>

OnSold ==
    /\ Take("sold") /\ Done
    /\ LET n == Head(packets).about
       IN  uuids' = IF \E k \in DOMAIN uuids : uuids[k] = n THEN uuids ELSE Append(uuids, n)
    /\ atLimit' = FALSE
    /\ UNCHANGED <<serverVars, mode, step, context, cancel, aborted, own, stuck, blocked,
                   generation, taskVars, begun, reported>>

OnCancelled ==
    /\ Take("cancelled") /\ Done
    /\ atLimit' = FALSE /\ blocked' = FALSE
    /\ UNCHANGED <<serverVars, mode, flowVars, stuck, generation, taskVars, begun, reported>>

OnMissing ==
    /\ Take("missing") /\ Done
    /\ IF mode \in {"ClaimingSold", "ClaimingPurchased"}
       THEN mode' = "Idle" /\ Close(current) /\ blocked' = FALSE
       ELSE UNCHANGED <<mode, serverVars, blocked>>
    /\ UNCHANGED <<flowVars, stuck, atLimit, generation, taskVars, begun, reported>>

-----------------------------------------------------------------------------
(* The handlers of windows *)

Ends(h)     == handlers' = handlers \ {h}
Goes(h, at) == handlers' = (handlers \ {h}) \cup {[h EXCEPT !.at = at]}
GoesTo(h, at, s) == handlers' = (handlers \ {h}) \cup {[h EXCEPT !.at = at, !.slots = s]}

(* click_window_slot refuses the click of a window that was replaced. *)
Click(h, effect) ==
    IF current = h.window /\ window.id = h.window THEN effect ELSE NoEffect

Quits(h) == /\ Ends(h) /\ Close(h.window) /\ UNCHANGED packets
            /\ mode' = "Idle"
Waits    == UNCHANGED <<serverVars, packets>>

handlerUnchanged == UNCHANGED <<context, cancel, uuids, own, stuck, generation, watchdog,
                                current, begun, reported>>

(* The state is read when the handler starts, in the list of auctions      *)
(* after its contents were cached.                                         *)
Starts(h) ==
    /\ h.at = "starts" /\ Waits
    /\ \/ mode # "Idle" /\ Goes(h, mode) /\ UNCHANGED mode
       \/ /\ mode = "Idle" /\ h.kind = "view" /\ mode' = "Purchasing"
          /\ Goes(h, "Purchasing")
       \/ /\ mode = "Idle" /\ h.kind # "view" /\ Ends(h) /\ UNCHANGED mode
    /\ UNCHANGED <<step, aborted, blocked, atLimit, timers>> /\ handlerUnchanged

(* The view of an auction that is no purchase (see Purchase). *)
GivesUpPurchase(h) ==
    /\ h.at = "Purchasing"
    /\ \/ Quits(h)
       \/ mode # "Purchasing" /\ Ends(h) /\ Waits /\ UNCHANGED mode
    /\ UNCHANGED <<step, aborted, blocked, atLimit, timers>> /\ handlerUnchanged

(* Selling: 300 ms after its start the handler reads the step of the flow, *)
(* and goes on by that, 200 ms later, whatever the state is then.          *)
Steps(h, from, kinds, to, at) ==
    /\ step \in from /\ h.kind \in kinds
    /\ step' = to /\ Goes(h, at) /\ Waits /\ UNCHANGED <<mode, atLimit>>

Full == Cardinality({n \in Mine : InHouse(n)}) >= Limit

Targets ==
    IF inventory[context.slot] # NoItem THEN {context.slot}
    ELSE {s \in Slots : inventory[s] = context.item}

ReadsManage(h) ==
    /\ step = "OpenManage" /\ h.kind = "manage"
    /\ IF Full THEN atLimit' = TRUE /\ Quits(h) /\ UNCHANGED step
       ELSE Steps(h, {"OpenManage"}, {"manage"}, "ClickCreate", "clicks create")

(* The item in the preview is seen, or the window does not show it.  There *)
(* is nothing to list, or it is a stack: the price is that of one.         *)
ReadsBin(h) ==
    /\ step \in {"OpenManage", "ClickCreate", "SelectBIN"} /\ h.kind = "bin"
    /\ \/ Quits(h)
       \/ preview # Empty /\ GoesTo(h, "clears", Targets) /\ Waits /\ UNCHANGED mode
       \/ Targets # {} /\ GoesTo(h, "picks", Targets) /\ Waits /\ UNCHANGED mode
    /\ UNCHANGED <<step, atLimit>>

Expected ==
    {<<"Initial", "house">>, <<"OpenManage", "manage">>, <<"OpenManage", "create">>,
     <<"ClickCreate", "create">>, <<"OpenManage", "bin">>, <<"ClickCreate", "bin">>,
     <<"SelectBIN", "bin">>, <<"SetDuration", "bin">>, <<"DurationSign", "duration">>,
     <<"ConfirmSell", "bin">>, <<"FinalConfirm", "confirm">>}

ReadsStep(h) ==
    /\ h.at = "Selling"
    /\ IF aborted
       THEN /\ Ends(h) /\ Close(h.window) /\ UNCHANGED <<packets, mode, step, atLimit>>
       ELSE \/ Steps(h, {"Initial"}, {"house"}, "OpenManage", "clicks manage")
            \/ ReadsManage(h)
            \/ Steps(h, {"OpenManage", "ClickCreate"}, {"create"}, "SelectBIN", "clicks BIN")
            \/ ReadsBin(h)
            \/ Steps(h, {"SetDuration"}, {"bin"}, "DurationSign", "clicks duration")
            \/ Steps(h, {"DurationSign"}, {"duration"}, "DurationSign", "clicks custom")
            \/ Steps(h, {"ConfirmSell"}, {"bin"}, "FinalConfirm", "clicks confirm")
            \/ Steps(h, {"FinalConfirm"}, {"confirm"}, "FinalConfirm", "clicks yes")
            \/ /\ <<step, h.kind>> \notin Expected
               /\ Ends(h) /\ Waits /\ UNCHANGED <<mode, step, atLimit>>
    /\ UNCHANGED <<aborted, blocked, timers>> /\ handlerUnchanged

ClicksOn(h) ==
    /\ \/ h.at = "clicks manage" /\ Click(h, LeadsTo({"manage", "create"})) /\ Ends(h)
       \/ h.at = "clicks create" /\ Click(h, LeadsTo({"create", "bin"})) /\ Ends(h)
       \/ h.at = "clicks BIN" /\ Click(h, LeadsTo({"bin"})) /\ Ends(h)
       \/ h.at = "clicks duration" /\ Click(h, LeadsTo({"duration"})) /\ Ends(h)
       \/ h.at = "clicks custom" /\ Click(h, AsksOnSign("durationSign")) /\ Ends(h)
       \/ h.at = "clicks confirm" /\ Click(h, Reviews) /\ Ends(h)
       \/ h.at = "clicks yes" /\ Click(h, Lists) /\ Goes(h, "listed")
    /\ UNCHANGED <<mode, step, aborted, blocked, atLimit, timers>> /\ handlerUnchanged

(* The item in the preview is sent back first; what was found in the       *)
(* inventory before that is used after it.                                 *)
Clears(h) ==
    /\ h.at = "clears" /\ Click(h, ReturnsItem)
    /\ Goes(h, IF h.slots = {} THEN "finds none" ELSE "picks")
    /\ UNCHANGED <<mode, step, aborted, blocked, atLimit, timers>> /\ handlerUnchanged

FindsNone(h) ==
    /\ h.at = "finds none" /\ Quits(h)
    /\ UNCHANGED <<step, aborted, blocked, atLimit, timers>> /\ handlerUnchanged

Picks(h) ==
    /\ h.at = "picks" /\ Goes(h, "prices")
    /\ \E s \in h.slots : Click(h, Places(s))
    /\ UNCHANGED <<mode, step, aborted, blocked, atLimit, timers>> /\ handlerUnchanged

Prices(h) ==
    /\ h.at = "prices" /\ Click(h, AsksOnSign("priceSign")) /\ Ends(h)
    /\ step' = "PriceSign"
    /\ UNCHANGED <<mode, aborted, blocked, atLimit, timers>> /\ handlerUnchanged

Listed(h) ==
    /\ h.at = "listed" /\ Quits(h)
    /\ UNCHANGED <<step, aborted, blocked, atLimit, timers>> /\ handlerUnchanged

-----------------------------------------------------------------------------
(* Claiming what was sold, and cancelling *)

IsOurs(n) == <<auctions[n].item, auctions[n].price>> \in own

QuitsClaim(h) == Quits(h) /\ blocked' = FALSE /\ UNCHANGED timers

ClaimsFromList(h) ==
    LET found == {n \in DOMAIN auctions : Claimable(n) /\ (OwnOnly => IsOurs(n))}
    IN  IF found = {} THEN QuitsClaim(h)
        ELSE \/ /\ ~ OwnOnly /\ Ends(h) /\ Click(h, CollectsAll)
                /\ mode' = "Idle" /\ blocked' = FALSE /\ UNCHANGED timers
             \/ /\ \E n \in found : Click(h, GoodsStay /\ Opens("view", n))
                /\ Ends(h) /\ UNCHANGED <<mode, blocked, timers>>

ClaimsFromView(h) ==
    IF h.about # 0 /\ ~ InHouse(h.about) THEN QuitsClaim(h)
    ELSE /\ Click(h, Collects(h.about)) /\ Ends(h)
         /\ timers' = timers \cup {Timer("claim")}
         /\ UNCHANGED <<mode, blocked>>

Claims(h) ==
    /\ h.at = "ClaimingSold"
    /\ \/ /\ h.kind = "house" /\ Ends(h) /\ Click(h, LeadsTo({"manage"}))
          /\ UNCHANGED <<mode, blocked, timers>>
       \/ h.kind = "manage" /\ ClaimsFromList(h)
       \/ h.kind = "view" /\ ClaimsFromView(h)
       \/ h.kind \notin {"house", "manage", "view"} /\ QuitsClaim(h)
    /\ UNCHANGED <<step, aborted, atLimit>> /\ handlerUnchanged

(* What was bought is collected with one click, or is not there. *)
ClaimsPurchased(h) ==
    /\ h.at = "ClaimingPurchased"
    /\ \/ /\ h.kind = "house" /\ Ends(h) /\ Click(h, LeadsTo({"bids"}))
          /\ UNCHANGED mode
       \/ /\ h.kind = "bids" /\ Ends(h) /\ Click(h, LeadsTo({"view"}))
          /\ UNCHANGED mode
       \/ h.kind # "house" /\ Quits(h)
    /\ UNCHANGED <<step, aborted, blocked, atLimit, timers>> /\ handlerUnchanged

Matches(n) == /\ auctions[n].at = "active"
              /\ auctions[n].item = cancel.item /\ auctions[n].price = cancel.price

CancelsInView(h) ==
    /\ timers' = timers \cup {Timer("cancel")}
    /\ IF h.about \in Mine /\ auctions[h.about].at = "active"
       THEN Click(h, Withdraws(h.about)) /\ Ends(h) /\ UNCHANGED mode
       ELSE Quits(h)

Cancels(h) ==
    /\ h.at = "CancellingAuction"
    /\ \/ /\ h.kind = "house" /\ Ends(h) /\ Click(h, LeadsTo({"manage"}))
          /\ UNCHANGED <<mode, timers>>
       \/ /\ h.kind = "manage" /\ UNCHANGED timers
          /\ IF \E n \in DOMAIN auctions : Matches(n)
             THEN /\ \E n \in DOMAIN auctions :
                        Matches(n) /\ Click(h, GoodsStay /\ Opens("view", n))
                  /\ Ends(h) /\ UNCHANGED mode
             ELSE Quits(h)
       \/ h.kind = "view" /\ CancelsInView(h)
       \/ /\ h.kind = "confirm" /\ Click(h, Lists) /\ Ends(h)
          /\ mode' = "Idle" /\ UNCHANGED timers
       \/ /\ h.kind \notin {"house", "manage", "view", "confirm"} /\ Ends(h) /\ Waits
          /\ UNCHANGED <<mode, timers>>
    /\ UNCHANGED <<step, aborted, blocked, atLimit>> /\ handlerUnchanged

-----------------------------------------------------------------------------
(* Timers.  They are longer than all a handler waits for.                  *)

Older(id) == \A h \in handlers : h.window > id

timerUnchanged == UNCHANGED <<packets, step, context, cancel, uuids, own, flagVars, generation,
                              handlers, current, begun, reported>>

Retry(t) ==
    /\ t.is = "retry" /\ Older(t.since) /\ timers' = timers \ {t}
    /\ IF mode = "Selling"
       THEN aborted' = FALSE /\ GoodsStay /\ Opens("house", 0)
       ELSE UNCHANGED <<aborted, serverVars, packets>>
    /\ UNCHANGED <<mode, step, context, cancel, uuids, own, flagVars, generation, handlers,
                   watchdog, current, begun, reported>>

GoesIdle(t, flow) ==
    /\ Older(t.since) /\ timers' = timers \ {t}
    /\ mode' = IF mode = flow THEN "Idle" ELSE mode
    /\ UNCHANGED <<serverVars, aborted, watchdog>> /\ timerUnchanged

WatchdogCloses ==                 \* mutant: the state is left as it is
    /\ watchdog # 0 /\ Older(current) /\ watchdog' = 0
    /\ IF generation = watchdog /\ mode # "Idle" THEN Close(current)
       ELSE UNCHANGED serverVars
    /\ UNCHANGED <<mode, aborted, timers>> /\ timerUnchanged

(* A watchdog whose window was replaced does nothing when it fires. *)
Watchdog ==
    /\ watchdog # 0 /\ Older(current) /\ watchdog' = 0
    /\ IF generation = watchdog /\ mode # "Idle"
       THEN Close(current) /\ mode' = "Idle"
       ELSE UNCHANGED <<serverVars, mode>>
    /\ UNCHANGED <<aborted, timers>> /\ timerUnchanged

-----------------------------------------------------------------------------
Init ==
    /\ inventory = CHOOSE f \in [Slots -> Items] : \A s, t \in Slots : f[s] = f[t] => s = t
    /\ preview = Empty /\ price = 0
    /\ auctions = <<[item |-> Theirs, price |-> 0, by |-> 0, wanted |-> Theirs,
                     at |-> "active"]>>
    /\ window = NoWindow /\ opened = 0 /\ packets = <<>>
    /\ mode = "Idle" /\ step = "Initial"
    /\ context = [item |-> NoItem, slot |-> 1, price |-> 0]
    /\ cancel = [item |-> NoItem, price |-> 0]
    /\ aborted = FALSE /\ stuck = 0 /\ blocked = FALSE /\ atLimit = FALSE
    /\ uuids = <<>> /\ own = {} /\ generation = 0 /\ current = 0
    /\ handlers = {} /\ watchdog = 0 /\ timers = {}
    /\ begun = [sells |-> 0, claims |-> 0, cancels |-> 0, moves |-> 0,
                resets |-> 0]
    /\ reported = <<>>

Event == \/ OnOpenScreen \/ OnSign \/ OnStuck \/ OnStarted \/ OnSold \/ OnCancelled
         \/ OnMissing

Handler(h) == \/ Starts(h) \/ GivesUpPurchase(h) \/ ReadsStep(h) \/ ClicksOn(h) \/ Clears(h)
              \/ FindsNone(h) \/ Picks(h) \/ Prices(h) \/ Listed(h) \/ Claims(h)
              \/ Cancels(h) \/ ClaimsPurchased(h)

Expires(t) == Retry(t) \/ (t.is = "claim" /\ GoesIdle(t, "ClaimingSold"))
                       \/ (t.is = "cancel" /\ GoesIdle(t, "CancellingAuction"))

Next ==
    \/ \E n \in DOMAIN auctions : Sold(n)
    \/ Moves
    \/ SellToAuction \/ ClaimSoldItem \/ ClaimPurchasedItem \/ CancelAuction
    \/ IdleInventory
    \/ Event
    \/ \E h \in handlers : Handler(h)
    \/ \E t \in timers : Expires(t)
    \/ Watchdog

(* The server's answers arrive, tasks and timers run. *)
Fairness ==
    /\ WF_houseVars(Event) /\ WF_houseVars(\E h \in handlers : Handler(h))
    /\ WF_houseVars(\E t \in timers : Expires(t))
    /\ WF_houseVars(Watchdog)

Spec == Init /\ [][Next]_houseVars /\ Fairness
-----------------------------------------------------------------------------
TypeOK ==
    /\ mode \in {"Idle", "Selling", "ClaimingSold", "ClaimingPurchased", "CancellingAuction",
                "Purchasing"}
    /\ stuck \in Nat /\ {aborted, blocked, atLimit} \subseteq BOOLEAN
    /\ \A s \in Slots : inventory[s] \in Items \cup {NoItem}
    /\ current \in 0 .. opened /\ window.id \in 0 .. opened

(* An auction carries the price of the command that picked its item: what  *)
(* one command leaves behind in the preview is never listed at the price   *)
(* of another, through every stuck item, retry, late window and watchdog   *)
(* (bot/client.rs:3032-3088, 8908-8935), as long as the inventory is not   *)
(* rearranged when an item was found and is not clicked yet (Settled).     *)
PriceIsItsOwn == \A n \in Mine : auctions[n].price = auctions[n].by

(* A flow comes to an end by its windows and timers, without the deadline  *)
(* of its command, as long as the server opens what it is asked for        *)
(* (bot/client.rs:3478-3488).                                              *)
FlowEnds == []<>(mode = "Idle")
=============================================================================
