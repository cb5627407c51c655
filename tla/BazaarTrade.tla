----------------------------- MODULE BazaarTrade -----------------------------
(***************************************************************************)
(* The bazaar, apart from its orders list (bot/client.rs): placing an      *)
(* order, selling the whole inventory, and checking, buying and eating a   *)
(* booster cookie.  A command asks for a page, and each page has a handler *)
(* of its own, spawned by its packet, that goes on from the step which     *)
(* the flow has then, at once or after a wait.                             *)
(*                                                                         *)
(* The server acts on what it is sent at once; its packets and lines       *)
(* arrive in their order at any later time, but the answer to an order     *)
(* within the 250 ms that the bot waits for it.  A command is a number:    *)
(* its item, amount and price are <<n, "item">> and so on.                 *)
(***************************************************************************)
EXTENDS Integers, Sequences

CONSTANTS
    MaxTrades, MaxSales, MaxCookies,    \* bounds of the model: commands
    MaxPreempts,                        \* ... and flips that come first
    MaxSlots                            \* Bazaar orders the account may have

ASSUME TradeAssumption ==
    {MaxTrades, MaxSales, MaxCookies, MaxPreempts, MaxSlots} \subseteq Nat

VARIABLES
    window,       \* server: the window or sign that is open
    opened,       \* server: windows opened so far
    signed,       \* server: what was written, [amount, price]
    standing,       \* server: the orders placed, oldest first
    taken,        \* server: how many of the slots for orders are in use
    cookies,      \* server: cookies bought by each CheckCookie
    packets,      \* on their way to event_handler
    mode,         \* bot_state
    order,        \* bazaar_item_name, _amount, _price_per_unit, _is_buy_order
    step,         \* bazaar_step
    cookieStep,   \* cookie_step
    atLimit,      \* bazaar_at_limit
    rejected,     \* bazaar_order_rejected
    generation,   \* command_generation
    current,      \* last_window_id
    handlers,     \* window handlers: [window, kind, step, buy, at]
    watchdog,     \* of the window opened last: the generation then; 0 if it is over
    begun,        \* how many commands of each kind there were
    told          \* history: BazaarOrderPlaced, oldest first

bazaarVars == <<window, opened, signed, standing, taken, cookies>>
flagVars   == <<atLimit, rejected>>
taskVars   == <<handlers, watchdog, current>>
tradeVars  == <<bazaarVars, packets, mode, order, step, cookieStep, flagVars, generation,
                taskVars, begun, told>>

NoWindow == [id |-> 0, kind |-> "none", item |-> 0]
Nothing  == [amount |-> <<0, "amount">>, price |-> <<0, "price">>]
Amount(n) == <<n, "amount">>
Price(n)  == <<n, "price">>

-----------------------------------------------------------------------------
(* The server *)

OpensAfter(rest, kind, item) ==
    /\ opened' = opened + 1
    /\ window' = [id |-> opened + 1, kind |-> kind, item |-> item]
    /\ packets' = Append(rest, [is |-> "open", id |-> opened + 1, kind |-> kind])

Opens(kind, item) == OpensAfter(packets, kind, item)

SignOpens(kind) ==
    /\ window' = [NoWindow EXCEPT !.kind = kind, !.item = window.item]
    /\ packets' = Append(packets, [is |-> "sign", id |-> 0, kind |-> kind])
    /\ UNCHANGED opened

GoodsStay == UNCHANGED <<signed, standing, taken, cookies>>
NoEffect  == UNCHANGED <<bazaarVars, packets>>
Leads(kind) == GoodsStay /\ Opens(kind, window.item)

Close(id) ==
    /\ window' = IF window.id = id THEN NoWindow ELSE window
    /\ GoodsStay /\ UNCHANGED <<opened, packets>>

(* Create Buy Order asks for the amount first; Create Sell Offer asks for  *)
(* the price, in a window or on a sign at once.                            *)
CreatesOrder(buy) ==
    /\ signed' = Nothing /\ UNCHANGED <<standing, taken, cookies>>
    /\ IF buy THEN Opens("amount", window.item)
       ELSE Opens("price", window.item) \/ SignOpens("price sign")

AnswersOrder(line) ==
    packets' = Append(packets, [is |-> line, id |-> 0, kind |-> "none"])

(* The confirming click: the order is placed, or there is no slot for it,  *)
(* or its price is refused.                                                *)
PlacesOrder(buy) ==
    /\ window' = NoWindow /\ UNCHANGED <<opened, signed, cookies>>
    /\ \/ /\ taken < MaxSlots /\ taken' = taken + 1
          /\ standing' = Append(standing, [item |-> window.item, price |-> signed.price,
                                       amount |-> IF buy THEN signed.amount
                                                  ELSE Amount(window.item)])
          /\ UNCHANGED packets
       \/ /\ taken = MaxSlots /\ UNCHANGED <<standing, taken>>
          /\ AnswersOrder("limit")
       \/ /\ taken < MaxSlots /\ UNCHANGED <<standing, taken>>
          /\ AnswersOrder("refused")

(* The Bazaar may open the page of the item again after a purchase. *)
BuysCookie ==
    /\ cookies' = [cookies EXCEPT ![begun.cookies] = @ + 1]
    /\ UNCHANGED <<signed, standing, taken>>
    /\ Opens("cookie", 0) \/ (window' = NoWindow /\ UNCHANGED <<opened, packets>>)

EatsCookie ==
    /\ window' = NoWindow /\ GoodsStay /\ UNCHANGED <<opened, packets>>

(* Orders come to their end: another run claims what one has brought, and  *)
(* a line says so; or it is cancelled, or ended by hand.                   *)
FreesSlot ==
    /\ taken > 0 /\ taken' = taken - 1
    /\ \/ mode = "Idle" /\ AnswersOrder("claimed")
       \/ UNCHANGED packets
    /\ UNCHANGED <<window, opened, signed, standing, cookies, mode, order, step, cookieStep,
                   flagVars, generation, taskVars, begun, told>>

-----------------------------------------------------------------------------
(* The commands *)

Begins(kind, max) == /\ mode = "Idle" /\ begun[kind] < max
                     /\ begun' = [begun EXCEPT ![kind] = @ + 1]
                     /\ generation' = generation + 1
commandUnchanged == UNCHANGED <<flagVars, taskVars, told>>

(* With the tag of its item the command skips the search. *)
BazaarOrder ==
    /\ Begins("orders", MaxTrades)
    /\ \E buy \in BOOLEAN :
          /\ ~ (buy /\ atLimit)
          /\ order' = [n |-> begun.orders + 1, buy |-> buy]
    /\ step' = "Initial" /\ mode' = "Bazaar"
    /\ GoodsStay /\ \E page \in {"search", "item"} : Opens(page, begun.orders + 1)
    /\ commandUnchanged /\ UNCHANGED cookieStep

SellInventoryBz ==
    /\ Begins("sales", MaxSales)
    /\ step' = "Initial" /\ mode' = "SellingInventoryBz"
    /\ GoodsStay /\ Opens("search", 0)
    /\ commandUnchanged /\ UNCHANGED <<order, cookieStep>>

CheckCookie ==
    /\ Begins("cookies", MaxCookies)
    /\ cookieStep' = "Initial" /\ mode' = "CheckingCookie"
    /\ GoodsStay /\ Opens("menu", 0)
    /\ commandUnchanged /\ UNCHANGED <<order, step>>

(* A flip preempts an order (main.rs); its own windows are of Purchase. *)
Preempts ==
    /\ mode = "Bazaar" /\ begun.flips < MaxPreempts
    /\ begun' = [begun EXCEPT !.flips = @ + 1]
    /\ mode' = "Purchasing" /\ generation' = generation + 1
    /\ GoodsStay /\ Opens("view", 0)
    /\ commandUnchanged /\ UNCHANGED <<order, step, cookieStep>>

FlipEnds ==
    /\ mode = "Purchasing" /\ mode' = "Idle"
    /\ Close(current)
    /\ UNCHANGED <<order, step, cookieStep, generation, begun>> /\ commandUnchanged

(* The deadline of the command, for the flows no watchdog ends. *)
TimesOut ==
    /\ mode \in {"CheckingCookie", "BuyingCookie"} /\ packets = <<>> /\ handlers = {}
    /\ mode' = "Idle"
    /\ UNCHANGED <<bazaarVars, packets, order, step, cookieStep, generation, begun>>
    /\ commandUnchanged

-----------------------------------------------------------------------------
(* event_handler *)

Take(is) == packets # <<>> /\ Head(packets).is = is
Done     == packets' = Tail(packets)

OnOpenScreen ==
    /\ Take("open") /\ Done
    /\ LET p == Head(packets)
       IN  /\ current' = p.id
           /\ handlers' = handlers \cup
                 {[window |-> p.id, kind |-> p.kind, at |-> "starts", step |-> "none",
                   order |-> order]}
           /\ watchdog' = generation
    /\ UNCHANGED <<bazaarVars, mode, order, step, cookieStep, flagVars, generation, begun, told>>

Writes(kind, text) ==
    IF window.kind = kind
    THEN /\ signed' = IF kind = "amount sign" THEN [signed EXCEPT !.amount = text]
                      ELSE [signed EXCEPT !.price = text]
         /\ OpensAfter(Tail(packets), IF kind = "amount sign" THEN "price" ELSE "confirm",
                       window.item)
         /\ UNCHANGED <<standing, taken, cookies>>
    ELSE Done /\ UNCHANGED bazaarVars

TakesForAmount ==                 \* mutant: a sign at once asks for the amount
    /\ Take("sign")
    /\ LET kind == Head(packets).kind
       IN  \/ /\ mode = "Bazaar" /\ step \in {"SetAmount", "SelectOrderType"}
              /\ Writes(kind, Amount(order.n))
              /\ step' = IF step = "SetAmount" THEN step ELSE "SetPrice"
           \/ /\ mode = "Bazaar" /\ step = "SetPrice"
              /\ Writes(kind, Price(order.n)) /\ UNCHANGED step
           \/ /\ mode # "Bazaar" \/ step \notin {"SetAmount", "SetPrice", "SelectOrderType"}
              /\ Done /\ UNCHANGED <<bazaarVars, step>>
    /\ UNCHANGED <<mode, order, cookieStep, flagVars, generation, taskVars, begun, told>>

(* What a sign is for is told by the step, not by the sign. *)
OnSign ==
    /\ Take("sign")
    /\ LET kind == Head(packets).kind
       IN  \/ /\ mode = "Bazaar" /\ step = "SetAmount"
              /\ Writes(kind, Amount(order.n)) /\ UNCHANGED step
           \/ /\ mode = "Bazaar" /\ step \in {"SetPrice", "SelectOrderType"}
              /\ step' = "SetPrice" /\ Writes(kind, Price(order.n))
           \/ /\ mode # "Bazaar" \/ step \notin {"SetAmount", "SetPrice", "SelectOrderType"}
              /\ Done /\ UNCHANGED <<bazaarVars, step>>
    /\ UNCHANGED <<mode, order, cookieStep, flagVars, generation, taskVars, begun, told>>

OnLimit ==
    /\ \/ Take("limit") /\ atLimit' = TRUE
       \/ Take("claimed") /\ atLimit' = FALSE
    /\ Done
    /\ UNCHANGED <<bazaarVars, mode, order, step, cookieStep, rejected, generation, taskVars,
                   begun, told>>

MissesRefusal ==                  \* mutant: the line is not known
    /\ Take("refused") /\ Done
    /\ UNCHANGED <<bazaarVars, mode, order, step, cookieStep, flagVars, generation, taskVars,
                   begun, told>>

OnRefused ==
    /\ Take("refused") /\ Done
    /\ rejected' = TRUE
    /\ UNCHANGED <<bazaarVars, mode, order, step, cookieStep, atLimit, generation, taskVars,
                   begun, told>>

-----------------------------------------------------------------------------
(* The handlers of windows.  A handler that waits for the contents of its  *)
(* window ends when another window was opened meanwhile.                   *)

Ends(h)     == handlers' = handlers \ {h}
Goes(h, at) == handlers' = (handlers \ {h}) \cup {[h EXCEPT !.at = at]}
Quits(h)    == Ends(h) /\ Close(h.window) /\ mode' = "Idle"
Superseded(h) == current # h.window
Click(h, effect) == IF window.id = h.window THEN effect ELSE NoEffect

handlerUnchanged == UNCHANGED <<order, atLimit, generation, watchdog, current, begun>>

(* What a handler does first: it reads the state and the step.  The page   *)
(* of the order to confirm is any that comes at SetPrice.                  *)
Flow == {"Bazaar", "SellingInventoryBz", "CheckingCookie", "BuyingCookie"}

Begin(h) ==
    [h EXCEPT !.at = mode, !.order = order,
              !.step = IF mode = "BuyingCookie" THEN cookieStep ELSE step]

Starts(h) ==
    /\ h.at = "starts"
    /\ LET b == Begin(h)
       IN  \/ /\ mode \notin Flow /\ Ends(h) /\ UNCHANGED <<step, rejected>>
           \/ /\ mode = "Bazaar" /\ step = "SetPrice"
              /\ step' = "Confirm" /\ rejected' = FALSE
              /\ handlers' = (handlers \ {h}) \cup {[b EXCEPT !.at = "confirms"]}
           \/ /\ mode = "Bazaar" /\ step = "Initial" /\ h.kind = "search"
              /\ step' = "SearchResults" /\ UNCHANGED rejected
              /\ handlers' = (handlers \ {h}) \cup {[b EXCEPT !.at = "searches"]}
           \/ /\ mode \in Flow
              /\ mode = "Bazaar" => step # "SetPrice" /\ <<step, h.kind>> # <<"Initial", "search">>
              /\ handlers' = (handlers \ {h}) \cup {b}
              /\ UNCHANGED <<step, rejected>>
    /\ NoEffect /\ UNCHANGED <<mode, cookieStep, told>> /\ handlerUnchanged

Bails(h) ==
    /\ h.at \in {"Bazaar", "searches", "confirms", "SellingInventoryBz"} /\ Superseded(h)
    /\ Ends(h)
    /\ NoEffect /\ UNCHANGED <<mode, step, cookieStep, rejected, told>> /\ handlerUnchanged

Searches(h) ==
    /\ h.at = "searches" /\ ~ Superseded(h)
    /\ \/ Ends(h) /\ Click(h, Leads("item")) /\ UNCHANGED mode
       \/ Quits(h)
    /\ UNCHANGED <<step, cookieStep, rejected, told>> /\ handlerUnchanged

(* The pages of the item, the amount and the price. *)
GoesOn(h) ==
    /\ h.at = "Bazaar" /\ ~ Superseded(h) /\ Ends(h)
    /\ \/ /\ h.step \in {"Initial", "SearchResults"} /\ h.kind = "item"
          /\ step' = "SelectOrderType" /\ Click(h, CreatesOrder(h.order.buy))
       \/ /\ h.step = "SelectOrderType" /\ h.kind = "amount" /\ h.order.buy
          /\ step' = "SetAmount" /\ Click(h, GoodsStay /\ SignOpens("amount sign"))
       \/ /\ h.step \in {"SelectOrderType", "SetAmount"} /\ h.kind = "price"
          /\ step' = "SetPrice" /\ Click(h, GoodsStay /\ SignOpens("price sign"))
    /\ UNCHANGED <<mode, cookieStep, rejected, told>> /\ handlerUnchanged

(* Nothing on this page is for this step, or the contents do not come. *)
FindsNothing(h) ==
    /\ h.at = "Bazaar" /\ ~ Superseded(h) /\ Ends(h)
    /\ NoEffect /\ UNCHANGED <<mode, step, cookieStep, rejected, told>> /\ handlerUnchanged

Confirms(h) ==
    /\ h.at = "confirms" /\ ~ Superseded(h)
    /\ \/ /\ Goes(h, "waits") /\ UNCHANGED mode
          /\ Click(h, IF window.kind = "confirm" THEN PlacesOrder(h.order.buy)
                      ELSE GoodsStay /\ UNCHANGED <<window, opened, packets>>)
       \/ Quits(h)
    /\ UNCHANGED <<step, cookieStep, rejected, told>> /\ handlerUnchanged

(* 250 ms later.  Whatever the answer, and whatever the state is by now.   *)
Answered == \A k \in DOMAIN packets : packets[k].is \notin {"limit", "refused"}

Tells(h) ==
    /\ h.at = "waits" /\ Answered
    /\ told' = IF atLimit \/ rejected THEN told
               ELSE Append(told, [item |-> h.order.n, amount |-> Amount(order.n),
                                  price |-> Price(order.n)])
    /\ Quits(h)
    /\ UNCHANGED <<step, cookieStep, rejected>> /\ handlerUnchanged

-----------------------------------------------------------------------------
(* Selling the inventory *)

SellsInventory(h) ==
    /\ h.at = "SellingInventoryBz" /\ ~ Superseded(h)
    /\ \/ /\ h.step = "Initial" /\ h.kind = "search" /\ step' = "SearchResults"
          /\ Ends(h) /\ UNCHANGED mode
          /\ Click(h, GoodsStay /\ \/ Opens("sale", 0)
                                   \/ /\ AnswersOrder("nothing")
                                      /\ UNCHANGED <<window, opened>>)
       \/ h.step = "SearchResults" /\ step' = "Initial" /\ Quits(h)
       \/ /\ h.step # "SearchResults" /\ ~ (h.step = "Initial" /\ h.kind = "search")
          /\ Ends(h) /\ NoEffect /\ UNCHANGED <<mode, step>>
    /\ UNCHANGED <<cookieStep, rejected, told>> /\ handlerUnchanged

OnNothingToSell ==
    /\ Take("nothing") /\ Done
    /\ IF mode = "SellingInventoryBz"
       THEN /\ step' = "Initial" /\ mode' = "Idle" /\ GoodsStay
            /\ window' = IF window.id = current THEN NoWindow ELSE window
            /\ UNCHANGED opened
       ELSE UNCHANGED <<step, mode, bazaarVars>>
    /\ UNCHANGED <<order, cookieStep, flagVars, generation, taskVars, begun, told>>

-----------------------------------------------------------------------------
(* The cookie.  No handler of it minds another window but by its clicks;   *)
(* each of them waits for half a second or a little more, so that they go  *)
(* on in turn.                                                             *)

cookieUnchanged == UNCHANGED <<step, rejected, told>>

InTurn(h) ==
    \A g \in handlers :
        g.at \in {"starts", "CheckingCookie", "BuyingCookie"} => g.window >= h.window

(* The menu shows how long the cookie will last; there is enough of it, or *)
(* no money, or one is bought.                                             *)
ReadsMenu(h) ==
    /\ h.at = "CheckingCookie" /\ InTurn(h) /\ Ends(h)
    /\ \/ mode' = "Idle" /\ Close(h.window) /\ UNCHANGED cookieStep
       \/ /\ mode' = "BuyingCookie" /\ cookieStep' = "Initial"
          /\ GoodsStay /\ Opens("search", 0)
    /\ cookieUnchanged /\ handlerUnchanged

CookieClick(h, effect) == IF Superseded(h) THEN NoEffect ELSE Click(h, effect)

FindsCookie(h) ==
    /\ h.at = "BuyingCookie" /\ InTurn(h) /\ Ends(h)
    /\ \/ /\ h.step = "Initial" /\ h.kind = "search" /\ cookieStep' = "ItemDetail"
          /\ CookieClick(h, Leads("cookie"))
       \/ /\ h.step = "ItemDetail" /\ cookieStep' = "BuyConfirm"
          /\ CookieClick(h, IF h.kind = "cookie" THEN Leads("buy") ELSE NoEffect)
       \/ /\ h.step = "WaitingForCookie" /\ Close(h.window) /\ UNCHANGED cookieStep
       \/ /\ h.step = "Initial" /\ h.kind # "search" /\ NoEffect /\ UNCHANGED cookieStep
    /\ UNCHANGED mode /\ cookieUnchanged /\ handlerUnchanged

ClaimsLate(h) ==                  \* mutant: the step is not claimed
    /\ h.at = "BuyingCookie" /\ InTurn(h) /\ h.step \in {"BuyConfirm", "ConsumingCookie"}
    /\ UNCHANGED cookieStep
    /\ \/ /\ h.step = "BuyConfirm" /\ Goes(h, "looks")
          /\ CookieClick(h, IF h.kind = "buy" THEN BuysCookie
                            ELSE IF h.kind = "cookie" THEN Leads("buy") ELSE NoEffect)
       \/ /\ h.step = "ConsumingCookie" /\ Goes(h, "eats")
          /\ CookieClick(h, IF h.kind = "gui" THEN EatsCookie ELSE NoEffect)
    /\ UNCHANGED mode /\ cookieUnchanged /\ handlerUnchanged

(* The two steps that must not be taken twice are claimed. *)
ClaimsStep(h) ==
    /\ h.at = "BuyingCookie" /\ InTurn(h) /\ h.step \in {"BuyConfirm", "ConsumingCookie"}
    /\ IF cookieStep # h.step
       THEN Ends(h) /\ Close(h.window) /\ UNCHANGED cookieStep
       ELSE \/ /\ h.step = "BuyConfirm" /\ cookieStep' = "WaitingForCookie" /\ Goes(h, "looks")
               /\ CookieClick(h, IF h.kind = "buy" THEN BuysCookie
                                 ELSE IF h.kind = "cookie" THEN Leads("buy") ELSE NoEffect)
            \/ /\ h.step = "ConsumingCookie" /\ cookieStep' = "Initial" /\ Goes(h, "eats")
               /\ CookieClick(h, IF h.kind = "gui" THEN EatsCookie ELSE NoEffect)
    /\ UNCHANGED mode /\ cookieUnchanged /\ handlerUnchanged

(* Three seconds later the cookie is in the inventory, or it is not. *)
LooksForCookie(h) ==
    /\ h.at = "looks" /\ Ends(h)
    /\ \/ /\ cookieStep' = "ConsumingCookie" /\ UNCHANGED mode
          /\ GoodsStay /\ Opens("gui", 0)
       \/ mode' = "Idle" /\ Close(h.window) /\ UNCHANGED cookieStep
    /\ cookieUnchanged /\ handlerUnchanged

Eats(h) ==
    /\ h.at = "eats" /\ Quits(h)
    /\ UNCHANGED cookieStep /\ cookieUnchanged /\ handlerUnchanged

-----------------------------------------------------------------------------
(* Five seconds after its window was opened, its handlers being over.      *)

WatchdogCloses ==                 \* mutant: the state is left as it is
    /\ watchdog # 0 /\ handlers = {} /\ watchdog' = 0
    /\ IF generation = watchdog THEN Close(current) ELSE NoEffect
    /\ UNCHANGED <<mode, order, step, cookieStep, flagVars, generation, handlers, current,
                   begun, told>>

Watchdog ==
    /\ watchdog # 0 /\ handlers = {} /\ watchdog' = 0
    /\ IF generation = watchdog /\ mode \in {"Bazaar", "SellingInventoryBz", "Purchasing"}
       THEN Close(current) /\ mode' = "Idle"
       ELSE NoEffect /\ UNCHANGED mode
    /\ UNCHANGED <<order, step, cookieStep, flagVars, generation, handlers, current, begun,
                   told>>

-----------------------------------------------------------------------------
TradeInit ==
    /\ window = NoWindow /\ opened = 0 /\ signed = Nothing /\ standing = <<>>
    /\ taken \in 0 .. MaxSlots
    /\ cookies = [n \in 1 .. MaxCookies |-> 0]
    /\ packets = <<>> /\ mode = "Idle" /\ order = [n |-> 0, buy |-> FALSE]
    /\ step = "Initial" /\ cookieStep = "Initial" /\ atLimit = FALSE /\ rejected = FALSE
    /\ generation = 0 /\ current = 0 /\ handlers = {} /\ watchdog = 0
    /\ begun = [orders |-> 0, sales |-> 0, cookies |-> 0, flips |-> 0]
    /\ told = <<>>

TradeEvent == OnOpenScreen \/ OnSign \/ OnLimit \/ OnRefused \/ OnNothingToSell

Handler(h) == \/ Starts(h) \/ Bails(h) \/ Searches(h) \/ GoesOn(h) \/ FindsNothing(h)
              \/ Confirms(h) \/ Tells(h) \/ SellsInventory(h) \/ ReadsMenu(h)
              \/ FindsCookie(h) \/ ClaimsStep(h) \/ LooksForCookie(h) \/ Eats(h)

TradeNext ==
    \/ FreesSlot
    \/ BazaarOrder \/ SellInventoryBz \/ CheckCookie \/ Preempts \/ FlipEnds \/ TimesOut
    \/ TradeEvent \/ Watchdog
    \/ \E h \in handlers : Handler(h)

TradeFairness ==
    /\ WF_tradeVars(TradeEvent) /\ WF_tradeVars(Watchdog) /\ WF_tradeVars(FlipEnds)
    /\ WF_tradeVars(TimesOut) /\ WF_tradeVars(\E h \in handlers : Handler(h))

TradeSpec == TradeInit /\ [][TradeNext]_tradeVars /\ TradeFairness
-----------------------------------------------------------------------------
TradeTypeOK ==
    /\ mode \in Flow \cup {"Idle", "Purchasing"}
    /\ step \in {"Initial", "SearchResults", "SelectOrderType", "SetAmount", "SetPrice",
                 "Confirm"}
    /\ taken \in 0 .. MaxSlots /\ current \in 0 .. opened /\ order.n \in 0 .. MaxTrades

(* Every order has the item, the amount and the price of one command, and  *)
(* no command places two, although flows are given up or preempted and     *)
(* their pages and signs come in the flows of others: the step tells what  *)
(* a sign is for (bot/client.rs:3731-3759, 5104-5110).                     *)
PlacedAsAsked ==
    /\ \A k \in DOMAIN standing : /\ standing[k].amount = Amount(standing[k].item)
                                /\ standing[k].price = Price(standing[k].item)
    /\ \A j, k \in DOMAIN standing : standing[j].item = standing[k].item => j = k

(* What is told as placed was placed (bot/client.rs:5219-5222), unless a   *)
(* flip or a late page of the cookie took the window away: the click is    *)
(* lost then, no line refuses the order, and it is told all the same.      *)
ToldIsPlaced ==
    begun.flips = 0 /\ begun.cookies = 0 =>
        \A k \in DOMAIN told : \E j \in DOMAIN standing : told[k] = standing[j]

(* One check of the cookie buys one at most, though the Bazaar opens its  *)
(* page again, and pages of other flows come late and are taken for pages  *)
(* of the cookie: the step that buys is claimed (bot/client.rs:7172-7190). *)
OneCookie == \A n \in DOMAIN cookies : cookies[n] <= 1

(* Orders and sales come to an end by their windows and watchdogs, without *)
(* the deadline of the command (bot/client.rs:3484-3491).                  *)
TradeEnds == mode \in {"Bazaar", "SellingInventoryBz"} ~> mode = "Idle"
=============================================================================
