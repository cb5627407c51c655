---------------------------- MODULE Trading_proofs ----------------------------
(***************************************************************************)
(* Proofs about the bazaar (BazaarTrade), for any number of orders, sales, *)
(* checks of the cookie and flips that come first: a cookie is bought once *)
(* for a check; every order is placed as it was asked for, and once; and   *)
(* what is told as placed was.                                             *)
(***************************************************************************)
EXTENDS BazaarTrade, SequenceTheorems, TLAPS

-----------------------------------------------------------------------------
(* The pages *)
Kinds == {"none", "search", "item", "amount", "amount sign", "price", "price sign", "confirm",
          "sale", "menu", "view", "cookie", "buy", "gui"}
Orders == [n : Nat, buy : BOOLEAN]
CookieSteps == {"Initial", "ItemDetail", "BuyConfirm", "WaitingForCookie", "ConsumingCookie"}
OrderSteps == {"Initial", "SearchResults", "SelectOrderType", "SetAmount", "SetPrice",
               "Confirm"}
Windows == [id : Nat, kind : Kinds, item : Nat]
Signs == {"amount sign", "price sign"}
Packets == {p \in [is : {"open", "sign", "limit", "refused", "claimed", "nothing"}, id : Nat,
                   kind : Kinds] : p.is = "sign" => p.kind \in Signs}
Handlers == [window : Nat, kind : Kinds,
             at : Flow \cup {"starts", "searches", "confirms", "waits", "looks", "eats"},
             step : CookieSteps \cup OrderSteps \cup {"none"}, order : Orders]
Begun == [orders : Nat, sales : Nat, cookies : Nat, flips : Nat]

TradeTypes ==
    /\ window \in Windows /\ opened \in Nat /\ current \in Nat
    /\ packets \in Seq(Packets) /\ handlers \subseteq Handlers
    /\ mode \in Flow \cup {"Idle", "Purchasing"}
    /\ order \in Orders /\ step \in OrderSteps /\ cookieStep \in CookieSteps
    /\ cookies \in [1 .. MaxCookies -> Nat] /\ begun \in Begun

Opened(p) == p.is = "open"

(* Pages come in the order of their numbers, and each has one handler.     *)
Pages ==
    /\ current <= opened /\ window.id \in {0, opened}
    /\ \A k \in DOMAIN packets : Opened(packets[k]) =>
          /\ current < packets[k].id /\ packets[k].id <= opened
          /\ packets[k].id = window.id => packets[k].kind = window.kind
    /\ \A j, k \in DOMAIN packets :
          Opened(packets[j]) /\ Opened(packets[k]) /\ j < k => packets[j].id < packets[k].id
    /\ \A h \in handlers : /\ h.window \in 1 .. current
                           /\ h.window = window.id => h.kind = window.kind
    /\ \A g, h \in handlers : g.window = h.window => g = h

(* What a step may do to the pages: nothing opens, or one page does *)
QuietAfter(rest) ==
    /\ opened' = opened
    /\ window' = window \/ (window' \in Windows /\ window'.id = 0)
    /\ \/ packets' = rest
       \/ \E p \in Packets : ~ Opened(p) /\ packets' = Append(rest, p)

PlainStep(rest) ==
    \/ QuietAfter(rest)
    \/ \E kind \in Kinds \ {"search"}, item \in Nat : OpensAfter(rest, kind, item)

PageStep(rest) == PlainStep(rest) \/ \E item \in Nat : OpensAfter(rest, "search", item)

(* The packets that are left when a step has taken what it took *)
Rests == {packets} \cup {q \in {Tail(packets)} : packets # <<>>}

(* ... and to the handlers: one goes on or ends *)
HandlerStep(h) ==
    \/ Ends(h)
    \/ \E f \in Handlers :
          /\ f.window = h.window /\ f.kind = h.kind /\ f.order \in {h.order, order}
          /\ handlers' = (handlers \ {h}) \cup {f}

(* What is left of the packets when the first is taken *)
LEMMA Later ==
    ASSUME NEW S, NEW q \in Seq(S), q # <<>>
    PROVE  /\ Tail(q) \in Seq(S) /\ Head(q) = q[1] /\ q[1] \in S /\ 1 \in DOMAIN q
           /\ \A k \in DOMAIN Tail(q) : k + 1 \in DOMAIN q /\ Tail(q)[k] = q[k + 1]
<1>1. /\ Tail(q) \in Seq(S) /\ Head(q) = q[1] /\ Len(q) \in Nat /\ Len(q) > 0
      /\ Len(Tail(q)) = Len(q) - 1
      /\ \A k \in 1 .. Len(Tail(q)) : Tail(q)[k] = q[k + 1]
  BY HeadTailProperties, EmptySeq, LenProperties
<1>2. DOMAIN q = 1 .. Len(q) /\ DOMAIN Tail(q) = 1 .. Len(Tail(q))
  BY <1>1, LenProperties
<1> QED  BY <1>1, <1>2, ElementOfSeq

(* ... and when one more is sent *)
LEMMA Appended ==
    ASSUME NEW S, NEW q \in Seq(S), NEW e \in S
    PROVE  /\ Append(q, e) \in Seq(S)
           /\ \A k \in DOMAIN Append(q, e) :
                 \/ k \in DOMAIN q /\ Append(q, e)[k] = q[k]
                 \/ k = Len(q) + 1 /\ Append(q, e)[k] = e
           /\ \A k \in DOMAIN q : k \in Nat /\ k <= Len(q)
<1>1. /\ Append(q, e) \in Seq(S) /\ Len(Append(q, e)) = Len(q) + 1
      /\ \A k \in 1 .. Len(q) : Append(q, e)[k] = q[k]
      /\ Append(q, e)[Len(q) + 1] = e
  BY AppendProperties
<1>2. DOMAIN q = 1 .. Len(q) /\ DOMAIN Append(q, e) = 1 .. Len(q) + 1 /\ Len(q) \in Nat
  BY <1>1, LenProperties
<1> QED  BY <1>1, <1>2

(* Pages stay in order whatever a step opens and whichever handler goes on. *)
LEMMA PagesKept ==
    ASSUME TradeTypes, Pages, current' = current,
           NEW rest \in Rests, PageStep(rest),
           handlers' = handlers \/ \E h \in handlers : HandlerStep(h)
    PROVE  Pages' /\ packets' \in Seq(Packets) /\ window' \in Windows /\ opened' \in Nat
           /\ handlers' \subseteq Handlers
<1> USE DEF TradeTypes, Windows, Opened, Rests
<1>1. rest \in Seq(Packets) /\ \A k \in DOMAIN rest : k \in Nat
  BY Later, LenProperties
<1>2. \E d \in {0, 1} :
         \A k \in DOMAIN rest : k + d \in DOMAIN packets /\ rest[k] = packets[k + d]
  <2>1. CASE rest = packets
    BY <2>1, <1>1
  <2>2. CASE packets # <<>> /\ rest = Tail(packets)
    BY <2>2, Later
  <2> QED  BY <2>1, <2>2
<1>8. /\ \A k \in DOMAIN rest : Opened(rest[k]) =>
            /\ current < rest[k].id /\ rest[k].id <= opened
            /\ rest[k].id = window.id => rest[k].kind = window.kind
      /\ \A j, k \in DOMAIN rest :
            Opened(rest[j]) /\ Opened(rest[k]) /\ j < k => rest[j].id < rest[k].id
  <2>1. PICK d \in {0, 1} :
           \A k \in DOMAIN rest : k + d \in DOMAIN packets /\ rest[k] = packets[k + d]
    BY <1>2
  <2>2. \A j, k \in DOMAIN rest : j < k => j + d < k + d
    BY <1>1
  <2>3. \A k \in DOMAIN rest : Opened(rest[k]) =>
           /\ current < rest[k].id /\ rest[k].id <= opened
           /\ rest[k].id = window.id => rest[k].kind = window.kind
    BY <2>1 DEF Pages
  <2>4. ASSUME NEW j \in DOMAIN rest, NEW k \in DOMAIN rest, Opened(rest[j]), Opened(rest[k]), j < k
        PROVE  rest[j].id < rest[k].id
    <3>1. /\ j + d \in DOMAIN packets /\ k + d \in DOMAIN packets /\ j + d < k + d
          /\ rest[j] = packets[j + d] /\ rest[k] = packets[k + d]
      BY <2>1, <2>2, <2>4
    <3> QED  BY <3>1, <2>4 DEF Pages
  <2> QED  BY <2>3, <2>4
<1>3. \A f \in handlers' : \E h \in handlers : f.window = h.window /\ f.kind = h.kind
  BY DEF HandlerStep, Ends
<1>4. \A f, g \in handlers' : f.window = g.window => f = g
  BY DEF HandlerStep, Ends, Pages
<1>5. handlers' \subseteq Handlers
  BY DEF HandlerStep, Ends
<1>9. \A k \in DOMAIN rest : rest[k] \in Packets
  BY <1>1, ElementOfSeq, LenProperties
<1>6. CASE QuietAfter(rest)
  <2>1. window' \in Windows /\ opened' = opened /\ window'.id \in {0, opened}
    BY <1>6 DEF QuietAfter, Pages
  <2>2. /\ packets' \in Seq(Packets)
        /\ \A k \in DOMAIN packets' :
              Opened(packets'[k]) => k \in DOMAIN rest /\ packets'[k] = rest[k]
    <3>1. CASE packets' = rest
      BY <3>1, <1>1
    <3>2. ASSUME NEW p \in Packets, ~ Opened(p), packets' = Append(rest, p)
          PROVE  /\ packets' \in Seq(Packets)
                 /\ \A k \in DOMAIN packets' :
                       Opened(packets'[k]) => k \in DOMAIN rest /\ packets'[k] = rest[k]
      <4> HIDE DEF TradeTypes, Windows, Opened, Rests
      <4>1. rest \in Seq(Packets)
        BY <1>1
      <4> QED  BY <4>1, <3>2, Appended
    <3> QED  BY <3>1, <3>2, <1>6 DEF QuietAfter
  <2>3. \A k \in DOMAIN packets' : Opened(packets'[k]) => k \in DOMAIN rest /\ packets'[k] = rest[k]
    BY <2>2
  <2>4. \A k \in DOMAIN packets' : Opened(packets'[k]) =>
          /\ current < packets'[k].id /\ packets'[k].id <= opened
          /\ packets'[k].id = window'.id => packets'[k].kind = window'.kind
    BY <2>3, <1>8, <1>9, <1>6 DEF QuietAfter, Packets
  <2>5. \A j, k \in DOMAIN packets' :
          Opened(packets'[j]) /\ Opened(packets'[k]) /\ j < k => packets'[j].id < packets'[k].id
    BY <2>3, <1>8
  <2>6. \A h \in handlers' : h.window \in 1 .. current /\ (h.window = window'.id => h.kind = window'.kind)
    BY <1>3, <1>6 DEF QuietAfter, Pages
  <2> QED  BY <2>1, <2>2, <2>4, <2>5, <2>6, <1>4, <1>5 DEF Pages
<1>7. ASSUME NEW kind \in Kinds, NEW item \in Nat, OpensAfter(rest, kind, item)
      PROVE  Pages' /\ packets' \in Seq(Packets) /\ window' \in Windows /\ opened' \in Nat
  <2> DEFINE p == [is |-> "open", id |-> opened + 1, kind |-> kind]
  <2>1. /\ window' \in Windows /\ opened' = opened + 1 /\ window'.id = opened + 1
        /\ window'.kind = kind /\ packets' = Append(rest, p) /\ p \in Packets
    BY <1>7 DEF OpensAfter, Packets
  <2>2. packets' \in Seq(Packets) /\ \A k \in DOMAIN rest : k <= Len(rest)
    BY <1>1, <2>1, Appended
  <2>3. \A k \in DOMAIN packets' : \/ k \in DOMAIN rest /\ packets'[k] = rest[k]
                                   \/ k = Len(rest) + 1 /\ packets'[k] = p
    BY <1>1, <2>1, Appended
  <2> HIDE DEF p
  <2>7. p.id = opened + 1 /\ p.kind = kind
    BY DEF p
  <2>4. \A k \in DOMAIN packets' : Opened(packets'[k]) =>
          /\ current < packets'[k].id /\ packets'[k].id <= opened'
          /\ packets'[k].id = window'.id => packets'[k].kind = window'.kind
    BY <2>1, <2>3, <2>7, <1>8, <1>9 DEF Pages, Packets
  <2>5. \A j, k \in DOMAIN packets' :
          Opened(packets'[j]) /\ Opened(packets'[k]) /\ j < k => packets'[j].id < packets'[k].id
    <3> SUFFICES ASSUME NEW j \in DOMAIN packets', NEW k \in DOMAIN packets',
                        Opened(packets'[j]), Opened(packets'[k]), j < k
                 PROVE  packets'[j].id < packets'[k].id
      OBVIOUS
    <3>1. j \in DOMAIN rest /\ packets'[j] = rest[j]
      BY <2>2, <2>3, LenProperties, <1>1
    <3>2. CASE k \in DOMAIN rest /\ packets'[k] = rest[k]
      BY <3>1, <3>2, <1>8
    <3>3. CASE packets'[k] = p
      BY <3>1, <3>3, <2>7, <1>8, <1>9 DEF Packets
    <3> QED  BY <2>3, <3>2, <3>3
  <2>6. \A h \in handlers' : h.window \in 1 .. current /\ (h.window = window'.id => h.kind = window'.kind)
    BY <1>3, <2>1 DEF Pages
  <2> QED  BY <2>1, <2>2, <2>4, <2>5, <2>6, <1>4 DEF Pages
<1> QED  BY <1>5, <1>6, <1>7 DEF PageStep, PlainStep, Kinds

(* The variables a handler leaves alone or keeps in their types *)
Tidy == /\ mode' \in Flow \cup {"Idle", "Purchasing"} /\ step' \in OrderSteps
        /\ cookieStep' \in CookieSteps /\ cookies' \in [1 .. MaxCookies -> Nat]
        /\ order' \in Orders /\ begun' \in Begun

(* A count goes up. *)
LEMMA OneMore ==
    ASSUME NEW S, NEW f \in [S -> Nat], NEW n
    PROVE  [f EXCEPT ![n] = @ + 1] \in [S -> Nat]
<1>1. CASE n \in S
  <2>1. f[n] + 1 \in Nat
    BY <1>1
  <2> QED  BY <1>1, <2>1
<1>2. CASE n \notin S
  BY <1>2
<1> QED  BY <1>1, <1>2

(* What is done to the pages by what they are asked for *)
LEMMA Effects ==
    ASSUME TradeTypes
    PROVE  /\ NoEffect => PlainStep(packets) /\ cookies' = cookies
           /\ \A kind \in Kinds \ {"search"} : Leads(kind) => PlainStep(packets) /\ cookies' = cookies
           /\ \A kind \in Signs : SignOpens(kind) => PlainStep(packets)
           /\ \A id \in Nat : Close(id) => PlainStep(packets) /\ cookies' = cookies
           /\ \A buy \in BOOLEAN : CreatesOrder(buy) \/ PlacesOrder(buy) =>
                 PlainStep(packets) /\ cookies' = cookies
           /\ BuysCookie => PlainStep(packets) /\ cookies' \in [1 .. MaxCookies -> Nat]
           /\ EatsCookie => PlainStep(packets) /\ cookies' = cookies
<1> USE DEF TradeTypes, Windows, NoWindow, Kinds
<1>1. NoWindow \in Windows /\ NoWindow.id = 0
  OBVIOUS
<1>2. NoEffect => PlainStep(packets) /\ cookies' = cookies
  BY DEF NoEffect, bazaarVars, PlainStep, QuietAfter
<1>3. \A kind \in Kinds \ {"search"} : Leads(kind) => PlainStep(packets) /\ cookies' = cookies
  BY DEF Leads, GoodsStay, Opens, PlainStep
<1>4. \A kind \in Signs : SignOpens(kind) => PlainStep(packets)
  <2> SUFFICES ASSUME NEW kind \in Signs, SignOpens(kind)  PROVE QuietAfter(packets)
    BY DEF PlainStep
  <2> DEFINE p == [is |-> "sign", id |-> 0, kind |-> kind]
  <2>1. p \in Packets /\ ~ Opened(p) /\ kind \in Kinds
    BY DEF Packets, Opened, Signs
  <2>2. packets' = Append(packets, p) /\ opened' = opened
    BY DEF SignOpens
  <2>3. window' \in Windows /\ window'.id = 0
    BY <2>1 DEF SignOpens
  <2> QED  BY <2>1, <2>2, <2>3 DEF QuietAfter
<1>5. \A id \in Nat : Close(id) => PlainStep(packets) /\ cookies' = cookies
  BY <1>1 DEF Close, GoodsStay, PlainStep, QuietAfter
<1>6. \A buy \in BOOLEAN : CreatesOrder(buy) => PlainStep(packets) /\ cookies' = cookies
  BY <1>4 DEF CreatesOrder, Opens, PlainStep, Signs
<1>7. \A buy \in BOOLEAN : PlacesOrder(buy) => PlainStep(packets) /\ cookies' = cookies
  <2> DEFINE p(line) == [is |-> line, id |-> 0, kind |-> "none"]
  <2>1. \A line \in {"limit", "refused"} : p(line) \in Packets /\ ~ Opened(p(line))
    BY DEF Packets, Opened
  <2> QED  BY <2>1, <1>1 DEF PlacesOrder, AnswersOrder, PlainStep, QuietAfter
<1>8. BuysCookie => PlainStep(packets) /\ cookies' \in [1 .. MaxCookies -> Nat]
  <2>1. BuysCookie => PlainStep(packets)
    BY <1>1 DEF BuysCookie, Opens, PlainStep, QuietAfter
  <2>2. cookies \in [1 .. MaxCookies -> Nat]
    OBVIOUS
  <2>3. BuysCookie => cookies' \in [1 .. MaxCookies -> Nat]
    <3>1. ASSUME NEW c, cookies' = [cookies EXCEPT ![c] = @ + 1]
          PROVE  cookies' \in [1 .. MaxCookies -> Nat]
      <4> HIDE DEF TradeTypes, Windows, NoWindow, Kinds
      <4>1. [cookies EXCEPT ![c] = @ + 1] \in [1 .. MaxCookies -> Nat]
        BY <2>2, OneMore
      <4> QED  BY <3>1, <4>1
    <3> QED  BY <3>1 DEF BuysCookie
  <2> QED  BY <2>1, <2>3
<1>9. EatsCookie => PlainStep(packets) /\ cookies' = cookies
  BY <1>1 DEF EatsCookie, GoodsStay, PlainStep, QuietAfter
<1> QED  BY <1>2, <1>3, <1>4, <1>5, <1>6, <1>7, <1>8, <1>9

(* A handler goes on or ends and opens one page at most; it takes no page. *)
LEMMA HandlerEffect ==
    ASSUME TradeTypes, Pages, NEW h \in handlers, Handler(h)
    PROVE  /\ HandlerStep(h) /\ PageStep(packets) /\ current' = current
           /\ PlainStep(packets) \/ ReadsMenu(h)
           /\ order' = order /\ begun' = begun /\ Tidy
<1> USE Effects DEF handlerUnchanged, Tidy
<1>0. h \in Handlers /\ h.window \in Nat
  BY DEF TradeTypes, Handlers
<1>t. /\ mode \in Flow \cup {"Idle", "Purchasing"} /\ order \in Orders /\ step \in OrderSteps
      /\ cookieStep \in CookieSteps /\ cookies \in [1 .. MaxCookies -> Nat] /\ begun \in Begun
  BY DEF TradeTypes
<1>a. \A at \in {"searches", "confirms", "waits", "looks", "eats"} : Goes(h, at) => HandlerStep(h)
  BY <1>0 DEF Goes, HandlerStep, Handlers
<1>b. mode \in Flow => /\ Begin(h) \in Handlers /\ Begin(h).window = h.window
                      /\ Begin(h).kind = h.kind /\ Begin(h).order = order /\ Begin(h).at = mode
  BY <1>0, <1>t DEF Begin, Handlers
<1>c. Ends(h) => HandlerStep(h)
  BY DEF HandlerStep
<1>d. "Idle" \in Flow \cup {"Idle", "Purchasing"} /\ "BuyingCookie" \in Flow
  BY DEF Flow
<1>e. PlainStep(packets) => PageStep(packets)
  BY DEF PageStep
<1> USE <1>e
<1>1. CASE Starts(h)
  <2>1. \A at \in {"confirms", "searches"} : mode \in Flow =>
           LET f == [Begin(h) EXCEPT !.at = at]
           IN  f \in Handlers /\ f.window = h.window /\ f.kind = h.kind /\ f.order = order
    BY <1>b DEF Handlers
  <2>2. HandlerStep(h)
    BY <1>1, <2>1, <1>b, <1>c DEF Starts, HandlerStep, Flow
  <2>3. step' \in OrderSteps /\ UNCHANGED <<mode, cookieStep, order, begun, current, cookies>>
    BY <1>1, <1>t DEF Starts, OrderSteps
  <2>4. PlainStep(packets)
    BY <1>1 DEF Starts
  <2> QED  BY <2>2, <2>3, <2>4, <1>t
<1>2. CASE Bails(h)
  BY <1>2, <1>c, <1>t DEF Bails
<1>3. CASE Searches(h)
  BY <1>3, <1>c, <1>d, <1>t, <1>0 DEF Searches, Quits, Click, Kinds
<1>4. CASE GoesOn(h)
  <2>1. h.order.buy \in BOOLEAN
    BY <1>0 DEF Handlers, Orders
  <2>2. step' \in OrderSteps /\ HandlerStep(h)
    BY <1>4, <1>c DEF GoesOn, OrderSteps
  <2>3. \A kind \in Signs : GoodsStay /\ SignOpens(kind) => PlainStep(packets) /\ cookies' = cookies
    BY DEF GoodsStay
  <2>4. PlainStep(packets) /\ cookies' = cookies
    BY <1>4, <2>1, <2>3 DEF GoesOn, Click, Kinds, Signs
  <2> QED  BY <1>4, <2>2, <2>4, <1>t DEF GoesOn
<1>5. CASE FindsNothing(h)
  BY <1>5, <1>c, <1>t DEF FindsNothing
<1>6. CASE Confirms(h)
  <2>1. h.order.buy \in BOOLEAN
    BY <1>0 DEF Handlers, Orders
  <2>2. GoodsStay /\ UNCHANGED <<window, opened, packets>> => PlainStep(packets) /\ cookies' = cookies
    BY DEF GoodsStay, PlainStep, QuietAfter
  <2>3. PlainStep(packets) /\ cookies' = cookies
    BY <1>6, <2>1, <2>2, <1>0 DEF Confirms, Click, Quits
  <2>4. HandlerStep(h) /\ mode' \in Flow \cup {"Idle", "Purchasing"}
    BY <1>6, <1>a, <1>c, <1>d, <1>t DEF Confirms, Quits
  <2> QED  BY <1>6, <2>3, <2>4, <1>t DEF Confirms
<1>7. CASE Tells(h)
  BY <1>7, <1>c, <1>d, <1>t, <1>0 DEF Tells, Quits
<1>8. CASE SellsInventory(h)
  <2>1. GoodsStay /\ (Opens("sale", 0) \/ (AnswersOrder("nothing") /\ UNCHANGED <<window, opened>>))
           => PlainStep(packets) /\ cookies' = cookies
    <3>1. [is |-> "nothing", id |-> 0, kind |-> "none"] \in Packets
      BY DEF Packets, Kinds
    <3> QED  BY <3>1 DEF GoodsStay, Opens, AnswersOrder, PlainStep, QuietAfter, Kinds, Opened
  <2>2. PlainStep(packets) /\ cookies' = cookies
    BY <1>8, <2>1, <1>0 DEF SellsInventory, Click, Quits
  <2>3. HandlerStep(h) /\ mode' \in Flow \cup {"Idle", "Purchasing"} /\ step' \in OrderSteps
    BY <1>8, <1>c, <1>d, <1>t DEF SellsInventory, Quits, OrderSteps
  <2> QED  BY <1>8, <2>2, <2>3, <1>t DEF SellsInventory
<1>9. CASE ReadsMenu(h)
  <2>1. GoodsStay /\ Opens("search", 0) => PageStep(packets) /\ cookies' = cookies
    BY DEF GoodsStay, Opens, PageStep
  <2> QED  BY <1>9, <2>1, <1>c, <1>d, <1>t, <1>0 DEF ReadsMenu, cookieUnchanged, CookieSteps
<1>10. CASE FindsCookie(h)
  BY <1>10, <1>c, <1>d, <1>t, <1>0
     DEF FindsCookie, cookieUnchanged, CookieSteps, CookieClick, Click, Kinds
<1>11. CASE ClaimsStep(h)
  <2>1. HandlerStep(h) /\ cookieStep' \in CookieSteps
    BY <1>11, <1>a, <1>c, <1>t DEF ClaimsStep, CookieSteps
  <2>2. PlainStep(packets) /\ cookies' \in [1 .. MaxCookies -> Nat]
    BY <1>11, <1>t, <1>0 DEF ClaimsStep, CookieClick, Click, Kinds
  <2> QED  BY <1>11, <2>1, <2>2, <1>t DEF ClaimsStep, cookieUnchanged
<1>12. CASE LooksForCookie(h)
  <2>1. GoodsStay /\ Opens("gui", 0) => PlainStep(packets) /\ cookies' = cookies
    BY DEF GoodsStay, Opens, PlainStep, Kinds
  <2> QED  BY <1>12, <2>1, <1>c, <1>d, <1>t, <1>0 DEF LooksForCookie, cookieUnchanged, CookieSteps
<1>13. CASE Eats(h)
  BY <1>13, <1>c, <1>d, <1>t, <1>0 DEF Eats, Quits, cookieUnchanged
<1> QED  BY <1>1, <1>2, <1>3, <1>4, <1>5, <1>6, <1>7, <1>8, <1>9, <1>10, <1>11, <1>12, <1>13
         DEF Handler

(* The steps that are neither a handler's nor bring a page to the bot *)
Elsewhere == \/ FreesSlot \/ BazaarOrder \/ SellInventoryBz \/ CheckCookie \/ Preempts
             \/ FlipEnds \/ TimesOut \/ OnSign \/ OnLimit \/ OnRefused \/ OnNothingToSell
             \/ Watchdog

AnyPage ==
    \E rest \in Rests : \/ PlainStep(rest)
                        \/ (BazaarOrder \/ SellInventoryBz) /\ PageStep(rest)

ElsewhereDoes == current' = current /\ handlers' = handlers /\ Tidy /\ AnyPage

(* ... and so for the other steps, which leave the handlers alone *)
LEMMA ElsewhereEffect == ASSUME TradeTypes, Elsewhere  PROVE ElsewhereDoes
<1>a. ASSUME PlainStep(packets) \/ ((BazaarOrder \/ SellInventoryBz) /\ PageStep(packets)),
             current' = current, handlers' = handlers, Tidy
      PROVE  ElsewhereDoes
  BY <1>a DEF Rests, AnyPage, ElsewhereDoes
<1>b. ASSUME packets # <<>>, PlainStep(Tail(packets)), current' = current,
             handlers' = handlers, Tidy
      PROVE  ElsewhereDoes
  BY <1>b DEF Rests, AnyPage, ElsewhereDoes
<1>c. /\ mode \in Flow \cup {"Idle", "Purchasing"} /\ order \in Orders /\ step \in OrderSteps
      /\ cookieStep \in CookieSteps /\ cookies \in [1 .. MaxCookies -> Nat] /\ begun \in Begun
      /\ current \in Nat
  BY DEF TradeTypes
<1>d. \A kind \in Kinds, item \in Nat :
         Opens(kind, item) => PageStep(packets) /\ (kind # "search" => PlainStep(packets))
  BY DEF Opens, PageStep, PlainStep
<1>e. \A kind \in {"orders", "sales", "cookies", "flips"} :
         [begun EXCEPT ![kind] = @ + 1] \in Begun
  BY <1>c DEF Begun
<1> USE Effects DEF Tidy
<1>1. CASE FreesSlot
  <2>1. [is |-> "claimed", id |-> 0, kind |-> "none"] \in Packets
    BY DEF Packets, Kinds
  <2>2. PlainStep(packets)
    BY <1>1, <2>1 DEF FreesSlot, AnswersOrder, PlainStep, QuietAfter, Opened
  <2> QED  BY <1>1, <2>2, <1>a, <1>c DEF FreesSlot, taskVars
<1>2. CASE BazaarOrder
  <2>1. begun' \in Begun /\ begun.orders + 1 \in Nat
    BY <1>2, <1>e, <1>c DEF BazaarOrder, Begins, Begun
  <2>3. order' \in Orders
    BY <1>2, <2>1 DEF BazaarOrder, Orders
  <2>2. PageStep(packets)
    BY <1>2, <2>1, <1>d DEF BazaarOrder, Kinds
  <2> QED  BY <1>2, <2>1, <2>2, <2>3, <1>a, <1>c
           DEF BazaarOrder, commandUnchanged, taskVars, GoodsStay, Flow, OrderSteps
<1>3. CASE SellInventoryBz
  <2>1. PageStep(packets)
    BY <1>3, <1>d DEF SellInventoryBz, Kinds
  <2> QED  BY <1>3, <2>1, <1>a, <1>c, <1>e
           DEF SellInventoryBz, Begins, commandUnchanged, taskVars, GoodsStay, Flow, OrderSteps
<1>4. CASE CheckCookie
  <2>1. PlainStep(packets)
    BY <1>4, <1>d DEF CheckCookie, Kinds
  <2> QED  BY <1>4, <2>1, <1>a, <1>c, <1>e
           DEF CheckCookie, Begins, commandUnchanged, taskVars, GoodsStay, Flow, CookieSteps
<1>5. CASE Preempts
  <2>1. PlainStep(packets)
    BY <1>5, <1>d DEF Preempts, Kinds
  <2>2. begun' \in Begun
    BY <1>5, <1>c DEF Preempts, Begun
  <2> QED  BY <1>5, <2>1, <2>2, <1>a, <1>c
           DEF Preempts, commandUnchanged, taskVars, GoodsStay
<1>6. CASE FlipEnds
  BY <1>6, <1>a, <1>c DEF FlipEnds, commandUnchanged, taskVars
<1>7. CASE TimesOut
  <2>1. PlainStep(packets)
    BY <1>7 DEF TimesOut, bazaarVars, PlainStep, QuietAfter
  <2> QED  BY <1>7, <2>1, <1>a, <1>c DEF TimesOut, commandUnchanged, taskVars, bazaarVars
<1>9. CASE OnSign
  <2>1. /\ packets # <<>> /\ step' \in OrderSteps
        /\ UNCHANGED <<mode, order, cookieStep, current, handlers, begun>>
    BY <1>9, <1>c DEF OnSign, Take, taskVars, OrderSteps
  <2>2. Done /\ UNCHANGED bazaarVars => PlainStep(Tail(packets)) /\ cookies' = cookies
    BY DEF Done, bazaarVars, PlainStep, QuietAfter
  <2>3. \A kind \in Kinds : \A text : Writes(kind, text) => PlainStep(Tail(packets)) /\ cookies' = cookies
    <3> SUFFICES ASSUME NEW kind \in Kinds, NEW text, Writes(kind, text), window.kind = kind
                 PROVE  PlainStep(Tail(packets)) /\ cookies' = cookies
      BY <2>2 DEF Writes
    <3>1. window.item \in Nat /\ "price" \in Kinds /\ "confirm" \in Kinds
      BY DEF TradeTypes, Windows, Kinds
    <3>2. CASE kind = "amount sign"
      BY <3>1, <3>2 DEF Writes, PlainStep
    <3>3. CASE kind # "amount sign"
      BY <3>1, <3>3 DEF Writes, PlainStep
    <3> QED  BY <3>2, <3>3
  <2>4. Head(packets).kind \in Kinds
    <3>1. packets \in Seq(Packets)
      BY DEF TradeTypes
    <3>2. Head(packets) \in Packets
      BY <2>1, <3>1, HeadTailProperties
    <3> QED  BY <3>2 DEF Packets
  <2>5. PlainStep(Tail(packets)) /\ cookies' = cookies
    BY <1>9, <2>2, <2>3, <2>4 DEF OnSign
  <2> QED  BY <2>1, <2>5, <1>b, <1>c
<1>10. CASE OnLimit \/ OnRefused
  <2>1. packets # <<>> /\ Done /\ UNCHANGED <<bazaarVars, mode, order, step, cookieStep, taskVars, begun>>
    BY <1>10 DEF OnLimit, OnRefused, Take
  <2>2. PlainStep(Tail(packets))
    BY <2>1 DEF Done, bazaarVars, PlainStep, QuietAfter
  <2> QED  BY <2>1, <2>2, <1>b, <1>c DEF taskVars, bazaarVars
<1>11. CASE OnNothingToSell
  <2>1. packets # <<>> /\ packets' = Tail(packets) /\ UNCHANGED <<opened, cookies, current, handlers>>
    BY <1>11 DEF OnNothingToSell, Take, Done, GoodsStay, bazaarVars, taskVars
  <2>2. window' = window \/ (window' \in Windows /\ window'.id = 0)
    <3>1. NoWindow \in Windows /\ NoWindow.id = 0
      BY DEF NoWindow, Windows, Kinds
    <3> QED  BY <1>11, <3>1 DEF OnNothingToSell, bazaarVars
  <2>3. PlainStep(Tail(packets))
    BY <2>1, <2>2 DEF PlainStep, QuietAfter
  <2>4. Tidy
    BY <1>11, <2>1, <1>c DEF OnNothingToSell, OrderSteps
  <2> QED  BY <2>1, <2>3, <2>4, <1>b
<1>12. CASE Watchdog
  <2>1. PlainStep(packets) /\ cookies' = cookies
    BY <1>12, <1>c DEF Watchdog
  <2> QED  BY <1>12, <2>1, <1>a, <1>c DEF Watchdog
<1> QED  BY <1>1, <1>2, <1>3, <1>4, <1>5, <1>6, <1>7, <1>9, <1>10, <1>11, <1>12 DEF Elsewhere

(* The types, and the order of the pages, hold always. *)
LEMMA TradeBaseInvariant == TradeSpec => [](TradeTypes /\ Pages)
<1>1. TradeInit => TradeTypes /\ Pages
  <2> SUFFICES ASSUME TradeInit  PROVE TradeTypes /\ Pages
    OBVIOUS
  <2>1. packets \in Seq(Packets) /\ Len(packets) = 0 /\ DOMAIN packets = {}
    BY EmptySeq, LenProperties DEF TradeInit
  <2>2. TradeTypes
    BY <2>1 DEF TradeInit, TradeTypes, NoWindow, Windows, Kinds, Orders, OrderSteps, CookieSteps,
                Begun
  <2> QED  BY <2>1, <2>2 DEF TradeInit, Pages, NoWindow
<1>2. TradeTypes /\ Pages /\ [TradeNext]_tradeVars => (TradeTypes /\ Pages)'
  <2> SUFFICES ASSUME TradeTypes, Pages, [TradeNext]_tradeVars  PROVE (TradeTypes /\ Pages)'
    OBVIOUS
  <2>1. CASE OnOpenScreen
    <3> DEFINE p == Head(packets)
               f == [window |-> p.id, kind |-> p.kind, at |-> "starts", step |-> "none",
                     order |-> order]
    <3> USE DEF TradeTypes, Opened
    <3>1. /\ Tail(packets) \in Seq(Packets) /\ p = packets[1] /\ p \in Packets /\ 1 \in DOMAIN packets
          /\ \A k \in DOMAIN Tail(packets) : k + 1 \in DOMAIN packets /\ Tail(packets)[k] = packets[k + 1]
      BY <2>1, Later DEF OnOpenScreen, Take
    <3>2. /\ p.is = "open" /\ packets' = Tail(packets) /\ current' = p.id
          /\ handlers' = handlers \cup {f}
          /\ UNCHANGED <<window, opened, mode, order, step, cookieStep, cookies, begun>>
      BY <2>1 DEF OnOpenScreen, Take, Done, bazaarVars
    <3>3. f \in Handlers /\ p.id \in Nat
      BY <3>1 DEF Handlers, Packets
    <3>4. current < p.id /\ p.id <= opened /\ (p.id = window.id => p.kind = window.kind)
      BY <3>1, <3>2 DEF Pages
    <3>5. \A k \in DOMAIN packets' : Opened(packets'[k]) =>
             /\ p.id < packets'[k].id /\ packets'[k].id <= opened
             /\ packets'[k].id = window.id => packets'[k].kind = window.kind
      <4> SUFFICES ASSUME NEW k \in DOMAIN Tail(packets), Opened(packets[k + 1])
                   PROVE  /\ p.id < packets[k + 1].id /\ packets[k + 1].id <= opened
                          /\ packets[k + 1].id = window.id => packets[k + 1].kind = window.kind
        BY <3>1, <3>2
      <4>1. k \in Nat /\ k >= 1
        BY <3>1, LenProperties
      <4>2. k + 1 \in DOMAIN packets /\ 1 < k + 1
        BY <3>1, <4>1
      <4> QED  BY <4>2, <3>1, <3>2 DEF Pages
    <3>6. \A j, k \in DOMAIN packets' :
             Opened(packets'[j]) /\ Opened(packets'[k]) /\ j < k => packets'[j].id < packets'[k].id
      <4>1. \A j, k \in DOMAIN Tail(packets) : j < k => j + 1 < k + 1
        BY <3>1, LenProperties
      <4> QED  BY <4>1, <3>1, <3>2 DEF Pages
    <3>7. \A h \in handlers' : /\ h.window \in 1 .. p.id
                               /\ h.window = window.id => h.kind = window.kind
      BY <3>2, <3>3, <3>4 DEF Pages
    <3>8. \A g, h \in handlers' : g.window = h.window => g = h
      BY <3>2, <3>3, <3>4 DEF Pages
    <3>9. Pages'
      BY <3>2, <3>3, <3>4, <3>5, <3>6, <3>7, <3>8 DEF Pages
    <3> QED  BY <3>1, <3>2, <3>3, <3>9
  <2>2. CASE Elsewhere
    <3>1. PICK rest \in Rests : PageStep(rest)
      BY <2>2, ElsewhereEffect DEF ElsewhereDoes, AnyPage, PageStep
    <3> QED  BY <2>2, <3>1, ElsewhereEffect, PagesKept DEF ElsewhereDoes, TradeTypes, Tidy
  <2>3. ASSUME NEW h \in handlers, Handler(h)  PROVE (TradeTypes /\ Pages)'
    BY <2>3, HandlerEffect, PagesKept DEF TradeTypes, Tidy, Rests
  <2>4. CASE UNCHANGED tradeVars
    BY <2>4 DEF tradeVars, bazaarVars, flagVars, taskVars, TradeTypes, Pages
  <2> QED  BY <2>1, <2>2, <2>3, <2>4 DEF TradeNext, TradeEvent, Elsewhere
<1> QED  BY <1>1, <1>2, PTL DEF TradeSpec

-----------------------------------------------------------------------------
(* The cookie *)

(* After a purchase nothing can lead to another: no page is a search of    *)
(* the flow, no handler is before the purchase, and the step is not.       *)
AfterPurchase == {"WaitingForCookie", "ConsumingCookie", "Initial"}

CookieBought ==
    /\ mode # "CheckingCookie"
    /\ \A h \in handlers :
          /\ h.at # "CheckingCookie"
          /\ h.at = "BuyingCookie" =>
                h.step \in AfterPurchase /\ (h.step = "Initial" => h.kind # "search")
          /\ mode = "BuyingCookie" /\ h.at = "starts" => h.kind # "search"
    /\ mode = "BuyingCookie" =>
          /\ cookieStep \in AfterPurchase
          /\ \A k \in DOMAIN packets : Opened(packets[k]) => packets[k].kind # "search"

CookieInv ==
    /\ \A h \in handlers :
          h.at = "BuyingCookie" /\ h.window = opened => mode # "CheckingCookie"
    /\ \A n \in 1 .. MaxCookies : cookies[n] <= 1 /\ (n > begun.cookies => cookies[n] = 0)
    /\ begun.cookies \in 1 .. MaxCookies /\ cookies[begun.cookies] # 0 => CookieBought

(* A step of other flows, or one that leaves the purchase as it is *)
NotOfCookie ==
    /\ cookies' = cookies /\ begun'.cookies = begun.cookies
    /\ mode' = mode \/ mode' \notin {"CheckingCookie", "BuyingCookie"}
    /\ cookieStep' = cookieStep \/ cookieStep' \in AfterPurchase
    /\ opened' >= opened
    /\ \A k \in DOMAIN packets' : Opened(packets'[k]) =>
          \/ mode' # "BuyingCookie" \/ packets'[k].kind # "search"
          \/ \E j \in DOMAIN packets : packets'[k] = packets[j]
    /\ \A f \in handlers' :
          \/ f \in handlers
          \/ f.at \notin {"starts", "CheckingCookie", "BuyingCookie"}

(* What is not of the cookie leaves the purchase as it is. *)
LEMMA CookieStays ==
    ASSUME TradeTypes, Pages, CookieInv, NotOfCookie, opened' \in Nat
    PROVE  CookieInv'
<1>0. \A h \in handlers : h.window <= opened /\ h.window \in Nat /\ opened \in Nat
  BY DEF Pages, TradeTypes, Handlers
<1>1. \A h \in handlers' :
         h.at = "BuyingCookie" /\ h.window = opened' => mode' # "CheckingCookie"
  BY <1>0 DEF CookieInv, NotOfCookie
<1>2. \A n \in 1 .. MaxCookies :
         cookies'[n] <= 1 /\ (n > begun'.cookies => cookies'[n] = 0)
  BY DEF CookieInv, NotOfCookie
<1>3. CookieBought => CookieBought'
  BY DEF CookieBought, NotOfCookie
<1> QED  BY <1>1, <1>2, <1>3 DEF CookieInv, NotOfCookie

(* The packets after a step, if the page that opens is not a search *)
LEMMA NoSearchComes ==
    ASSUME packets \in Seq(Packets), opened \in Nat, NEW rest \in Rests, PlainStep(rest)
    PROVE  \A k \in DOMAIN packets' : Opened(packets'[k]) =>
              \/ packets'[k].kind # "search"
              \/ \E j \in DOMAIN packets : packets'[k] = packets[j]
<1>1. rest \in Seq(Packets) /\ \A k \in DOMAIN rest : \E j \in DOMAIN packets : rest[k] = packets[j]
  BY Later DEF Rests
<1>2. CASE QuietAfter(rest)
  <2>1. CASE packets' = rest
    BY <2>1, <1>1
  <2>2. ASSUME NEW p \in Packets, ~ Opened(p), packets' = Append(rest, p)
        PROVE  \A k \in DOMAIN packets' : Opened(packets'[k]) => k \in DOMAIN rest /\ packets'[k] = rest[k]
    BY <2>2, <1>1, Appended
  <2> QED  BY <2>1, <2>2, <1>1, <1>2 DEF QuietAfter
<1>3. ASSUME NEW kind \in Kinds \ {"search"}, NEW item \in Nat, OpensAfter(rest, kind, item)
      PROVE  \A k \in DOMAIN packets' : \/ k \in DOMAIN rest /\ packets'[k] = rest[k]
                                       \/ packets'[k].kind # "search"
  <2> DEFINE p == [is |-> "open", id |-> opened + 1, kind |-> kind]
  <2>1. packets' = Append(rest, p) /\ p \in Packets /\ p.kind # "search"
    BY <1>3 DEF OpensAfter, Packets
  <2> HIDE DEF p
  <2>2. \A k \in DOMAIN Append(rest, p) :
           (k \in DOMAIN rest /\ Append(rest, p)[k] = rest[k]) \/ Append(rest, p)[k] = p
    BY <1>1, <2>1, Appended
  <2> QED  BY <2>1, <2>2
<1> QED  BY <1>1, <1>2, <1>3 DEF PlainStep

(* A purchase is made from the newest page, all older ones being done with *)
LEMMA PurchaseIsLast ==
    ASSUME TradeTypes, Pages, CookieInv, NEW h \in handlers, ClaimsStep(h),
           h.step = "BuyConfirm", current = h.window, window.id = h.window, BuysCookie,
           cookieStep' = "WaitingForCookie", Goes(h, "looks"), begun' = begun, mode' = mode,
           current' = current
    PROVE  CookieInv'
<1> USE DEF TradeTypes
<1>0. /\ h.at = "BuyingCookie" /\ InTurn(h) /\ h.window \in 1 .. current /\ h.window = opened
      /\ h \in Handlers /\ begun.cookies \in Nat
  BY DEF ClaimsStep, Pages, Begun
<1>1. \A g \in handlers : g.at \in {"starts", "CheckingCookie", "BuyingCookie"} => g = h
  BY <1>0 DEF InTurn, Pages, Handlers
<1>2. \A f \in handlers' : f.at \notin {"starts", "CheckingCookie", "BuyingCookie"}
  BY <1>0, <1>1 DEF Goes, Handlers
<1>3. mode # "CheckingCookie"
  BY <1>0 DEF CookieInv
<1>4. \A k \in DOMAIN packets : ~ Opened(packets[k])
  <2> SUFFICES ASSUME NEW k \in DOMAIN packets, Opened(packets[k])  PROVE FALSE
    OBVIOUS
  <2>1. packets[k] \in Packets
    BY ElementOfSeq, LenProperties
  <2> QED  BY <1>0, <2>1 DEF Pages, Packets
<1>5. PlainStep(packets)
  BY Effects
<1>6. \A k \in DOMAIN packets' : Opened(packets'[k]) => packets'[k].kind # "search"
  BY <1>4, <1>5, NoSearchComes DEF Rests
<1>7. CookieBought'
  BY <1>2, <1>3, <1>6 DEF CookieBought, AfterPurchase
<1>8. \A n \in 1 .. MaxCookies : cookies'[n] <= 1 /\ (n > begun.cookies => cookies'[n] = 0)
  <2>1. begun.cookies \in 1 .. MaxCookies => cookies[begun.cookies] = 0
    BY <1>0 DEF CookieInv, CookieBought, AfterPurchase
  <2>2. cookies' = [cookies EXCEPT ![begun.cookies] = @ + 1]
    BY DEF BuysCookie
  <2> QED  BY <1>0, <2>1, <2>2 DEF CookieInv
<1> QED  BY <1>2, <1>7, <1>8 DEF CookieInv

(* What a step does to the packets, but for a search it asks for *)
LEMMA NoSearch ==
    ASSUME TradeTypes, NEW rest \in Rests, PlainStep(rest)
    PROVE  /\ opened' >= opened
           /\ \A k \in DOMAIN packets' : Opened(packets'[k]) =>
                 \/ packets'[k].kind # "search"
                 \/ \E j \in DOMAIN packets : packets'[k] = packets[j]
<1>1. opened' \in {opened, opened + 1}
  BY DEF PlainStep, QuietAfter, OpensAfter
<1>2. opened' >= opened
  BY <1>1 DEF TradeTypes
<1> QED  BY <1>2, NoSearchComes DEF TradeTypes

(* One check of the cookie buys one at most (bot/client.rs:7172-7190).     *)
THEOREM CookieIsBoughtOnce == TradeSpec => []OneCookie
<1>1. TradeInit => CookieInv
  BY DEF TradeInit, CookieInv
<1>2. /\ TradeTypes /\ Pages /\ TradeTypes' /\ CookieInv /\ [TradeNext]_tradeVars
      => CookieInv'
  <2> SUFFICES ASSUME TradeTypes, Pages, TradeTypes', CookieInv, [TradeNext]_tradeVars
               PROVE  CookieInv'
    OBVIOUS
  <2>t. /\ packets \in Seq(Packets) /\ opened \in Nat /\ opened' \in Nat /\ current \in Nat
        /\ mode \in Flow \cup {"Idle", "Purchasing"} /\ begun \in Begun
        /\ packets \in Rests
    BY DEF TradeTypes, Rests
  <2>1. CASE Elsewhere /\ ~ CheckCookie
    <3>1. /\ cookies' = cookies /\ cookieStep' = cookieStep
          /\ mode' = mode \/ mode' \notin {"CheckingCookie", "BuyingCookie"}
          /\ BazaarOrder \/ SellInventoryBz => mode' # "BuyingCookie"
      BY <2>1 DEF Elsewhere, FreesSlot, BazaarOrder, SellInventoryBz, Preempts, FlipEnds, TimesOut,
                  OnSign, OnLimit, OnRefused, OnNothingToSell, Watchdog, GoodsStay, Close, Writes,
                  bazaarVars, NoEffect
    <3>2. begun'.cookies = begun.cookies
      BY <2>1, <2>t DEF Elsewhere, FreesSlot, BazaarOrder, SellInventoryBz, Preempts, FlipEnds,
                  TimesOut, OnSign, OnLimit, OnRefused, OnNothingToSell, Watchdog, Begins, Begun
    <3>3. handlers' = handlers /\ AnyPage
      BY <2>1, ElsewhereEffect DEF ElsewhereDoes
    <3>4. CASE \E rest \in Rests : PlainStep(rest)
      BY <3>1, <3>2, <3>3, <3>4, <2>t, NoSearch, CookieStays DEF NotOfCookie
    <3>5. CASE BazaarOrder \/ SellInventoryBz
      <4>1. opened' >= opened
        BY <3>5, <2>t DEF BazaarOrder, SellInventoryBz, Opens, OpensAfter
      <4> QED  BY <3>1, <3>2, <3>3, <3>5, <4>1, <2>t, CookieStays DEF NotOfCookie
    <3> QED  BY <3>3, <3>4, <3>5 DEF AnyPage
  <2>2. CASE CheckCookie
    <3>1. /\ begun'.cookies = begun.cookies + 1 /\ opened' = opened + 1
          /\ cookies' = cookies /\ handlers' = handlers /\ begun.cookies \in Nat
      BY <2>2, <2>t DEF CheckCookie, Begins, Begun, Opens, OpensAfter, GoodsStay, commandUnchanged,
                        taskVars
    <3>2. \A h \in handlers : h.window <= opened /\ h.window \in Nat
      BY <2>t DEF Pages, TradeTypes, Handlers
    <3> QED  BY <3>1, <3>2, <2>t DEF CookieInv
  <2>3. CASE OnOpenScreen
    <3>1. /\ packets # <<>> /\ packets' = Tail(packets) /\ Opened(Head(packets))
          /\ UNCHANGED <<mode, cookieStep, cookies, begun, opened>>
      BY <2>3 DEF OnOpenScreen, Take, Done, bazaarVars, Opened
    <3>2. /\ Head(packets) = packets[1] /\ 1 \in DOMAIN packets
          /\ \A k \in DOMAIN packets' : \E j \in DOMAIN packets : packets'[k] = packets[j]
      BY <3>1, <2>t, Later
    <3>3. \A f \in handlers' : \/ f \in handlers
                               \/ f.at = "starts" /\ f.kind = Head(packets).kind
      BY <2>3 DEF OnOpenScreen
    <3>4. CookieBought => CookieBought'
      BY <3>1, <3>2, <3>3 DEF CookieBought
    <3> QED  BY <3>1, <3>3, <3>4 DEF CookieInv
  <2>4. ASSUME NEW h \in handlers, Handler(h)  PROVE CookieInv'
    <3>0. /\ HandlerStep(h) /\ current' = current /\ order' = order /\ begun' = begun
          /\ PlainStep(packets) \/ ReadsMenu(h)
      BY <2>4, HandlerEffect
    <3>e. Ends(h) => \A f \in handlers' : f \in handlers
      BY DEF Ends
    <3>g. \A at \in {"searches", "confirms", "waits", "looks", "eats"} : Goes(h, at) =>
             \A f \in handlers' : f \in handlers \/ f.at \notin {"starts", "CheckingCookie", "BuyingCookie"}
      BY DEF Goes, TradeTypes, Handlers
    <3>p. ASSUME ~ ReadsMenu(h)
          PROVE  /\ opened' >= opened
                 /\ \A k \in DOMAIN packets' : Opened(packets'[k]) =>
                       \/ packets'[k].kind # "search"
                       \/ \E j \in DOMAIN packets : packets'[k] = packets[j]
      BY <3>p, <3>0, <2>t, NoSearch
    <3>1. CASE Starts(h)
      <4>1. UNCHANGED <<mode, cookieStep, cookies, packets, opened>>
        BY <3>1 DEF Starts, NoEffect, bazaarVars
      <4>2. \A f \in handlers' : \/ f \in handlers
                                 \/ f.at \in {"searches", "confirms"}
                                 \/ f = Begin(h) /\ mode \in Flow /\ h.at = "starts"
        <5>1. mode \in Flow => Begin(h) \in Handlers
          BY DEF Begin, TradeTypes, Handlers
        <5>2. \A at \in {"searches", "confirms"} :
                 mode \in Flow => [Begin(h) EXCEPT !.at = at].at = at
          BY <5>1 DEF Handlers
        <5>3. \/ Ends(h)
              \/ mode \in Flow /\ \E f \in { Begin(h), [Begin(h) EXCEPT !.at = "searches"],
                                            [Begin(h) EXCEPT !.at = "confirms"] } :
                                    handlers' = (handlers \ {h}) \cup {f}
          BY <3>1 DEF Starts, Flow
        <5>4. h.at = "starts"
          BY <3>1 DEF Starts
        <5>5. CASE Ends(h)
          BY <5>5, <3>e
        <5>6. CASE /\ mode \in Flow
                   /\ \E f \in { Begin(h), [Begin(h) EXCEPT !.at = "searches"],
                                [Begin(h) EXCEPT !.at = "confirms"] } :
                         handlers' = (handlers \ {h}) \cup {f}
          BY <5>6, <5>2, <5>4
        <5> QED  BY <5>3, <5>5, <5>6
      <4>3. /\ Begin(h).at = mode /\ Begin(h).kind = h.kind
            /\ mode = "BuyingCookie" => Begin(h).step = cookieStep
        BY DEF Begin, TradeTypes, Handlers
      <4>4. CookieBought => CookieBought'
        BY <4>1, <4>2, <4>3 DEF CookieBought
      <4>5. \A f \in handlers' : f.at = "BuyingCookie" /\ f.window = opened' => mode' # "CheckingCookie"
        BY <4>1, <4>2, <4>3 DEF CookieInv
      <4> QED  BY <4>1, <4>4, <4>5, <3>0 DEF CookieInv
    <3>2. CASE \/ Bails(h) \/ Searches(h) \/ GoesOn(h) \/ FindsNothing(h) \/ Confirms(h) \/ Tells(h)
               \/ SellsInventory(h)
      <4>1. ~ ReadsMenu(h)
        BY <3>2 DEF Bails, Searches, GoesOn, FindsNothing, Confirms, Tells, SellsInventory, ReadsMenu
      <4>2. /\ cookieStep' = cookieStep /\ mode' \in {mode, "Idle"}
            /\ \A f \in handlers' : f \in handlers \/ f.at \notin {"starts", "CheckingCookie", "BuyingCookie"}
        BY <3>2, <3>e, <3>g DEF Bails, Searches, GoesOn, FindsNothing, Confirms, Tells, SellsInventory, Quits
      <4>3. cookies' = cookies
        BY <3>2 DEF Bails, Searches, GoesOn, FindsNothing, Confirms, Tells, SellsInventory, Quits,
                    NoEffect, bazaarVars, Click, Leads, GoodsStay, Close, CreatesOrder, PlacesOrder
      <4> QED  BY <3>0, <3>p, <4>1, <4>2, <4>3, <2>t, CookieStays DEF NotOfCookie
    <3>3. CASE ReadsMenu(h)
      <4>1. h.at = "CheckingCookie" /\ cookies' = cookies
        BY <3>3 DEF ReadsMenu, Close, GoodsStay
      <4>2. ~ CookieBought
        BY <4>1 DEF CookieBought
      <4>3. \A f \in handlers' : f \in handlers
        BY <3>3, <3>e DEF ReadsMenu
      <4>4. mode' # "CheckingCookie"
        BY <3>3 DEF ReadsMenu
      <4> QED  BY <4>1, <4>2, <4>3, <4>4, <3>0 DEF CookieInv
    <3>4. CASE FindsCookie(h) \/ Eats(h)
      <4>1. ~ ReadsMenu(h)
        BY <3>4 DEF FindsCookie, Eats, ReadsMenu
      <4>2. /\ cookies' = cookies /\ mode' \in {mode, "Idle"} /\ \A f \in handlers' : f \in handlers
        BY <3>4, <3>e DEF FindsCookie, Eats, Quits, Close, CookieClick, Click, Leads, GoodsStay,
                          NoEffect, bazaarVars
      <4>3. CASE cookieStep' = cookieStep
        BY <3>0, <3>p, <4>1, <4>2, <4>3, <2>t, CookieStays DEF NotOfCookie
      <4>4. CASE cookieStep' # cookieStep
        <5>1. /\ h.at = "BuyingCookie"
              /\ (h.step = "Initial" /\ h.kind = "search") \/ h.step = "ItemDetail"
          BY <3>4, <4>4 DEF FindsCookie, Eats, Quits, cookieUnchanged
        <5>2. ~ CookieBought
          BY <5>1 DEF CookieBought, AfterPurchase
        <5>3. \A f \in handlers' : f.at = "BuyingCookie" /\ f.window = opened' => mode' # "CheckingCookie"
          <6>1. \A f \in handlers : f.window <= opened /\ f.window \in Nat
            BY <2>t DEF Pages, TradeTypes, Handlers
          <6> QED  BY <3>p, <4>1, <4>2, <6>1, <2>t DEF CookieInv
        <5> QED  BY <5>2, <5>3, <4>2, <3>0 DEF CookieInv
      <4> QED  BY <4>3, <4>4
    <3>5. CASE LooksForCookie(h)
      <4>1. ~ ReadsMenu(h)
        BY <3>5 DEF LooksForCookie, ReadsMenu
      <4>2. /\ cookies' = cookies /\ mode' \in {mode, "Idle"} /\ \A f \in handlers' : f \in handlers
            /\ cookieStep' \in {cookieStep, "ConsumingCookie"}
        BY <3>5, <3>e DEF LooksForCookie, Close, GoodsStay
      <4> QED  BY <3>0, <3>p, <4>1, <4>2, <2>t, CookieStays DEF NotOfCookie, AfterPurchase
    <3>6. CASE ClaimsStep(h)
      <4>1. ~ ReadsMenu(h)
        BY <3>6 DEF ClaimsStep, ReadsMenu
      <4>2. /\ mode' = mode
            /\ \A f \in handlers' : f \in handlers \/ f.at \notin {"starts", "CheckingCookie", "BuyingCookie"}
        BY <3>6, <3>e, <3>g DEF ClaimsStep
      <4>3. CASE cookies' = cookies /\ cookieStep' \in AfterPurchase \cup {cookieStep}
        BY <3>0, <3>p, <4>1, <4>2, <4>3, <2>t, CookieStays DEF NotOfCookie
      <4>4. CASE cookies' # cookies
        <5>1. /\ h.step = "BuyConfirm" /\ current = h.window /\ window.id = h.window /\ BuysCookie
              /\ cookieStep' = "WaitingForCookie" /\ Goes(h, "looks")
          BY <3>6, <4>4 DEF ClaimsStep, Close, CookieClick, Superseded, Click, EatsCookie, Leads,
                            GoodsStay, NoEffect, bazaarVars
        <5> QED  BY <3>6, <5>1, <4>2, <3>0, PurchaseIsLast
      <4>5. cookieStep' \in AfterPurchase \cup {cookieStep}
        BY <3>6 DEF ClaimsStep, AfterPurchase
      <4> QED  BY <4>3, <4>4, <4>5
    <3> QED  BY <2>4, <3>1, <3>2, <3>3, <3>4, <3>5, <3>6 DEF Handler
  <2>5. CASE UNCHANGED tradeVars
    BY <2>5 DEF tradeVars, bazaarVars, taskVars, CookieInv, CookieBought
  <2> QED  BY <2>1, <2>2, <2>3, <2>4, <2>5 DEF TradeNext, TradeEvent, Elsewhere
<1>3. TradeTypes /\ CookieInv => OneCookie
  BY DEF TradeTypes, CookieInv, OneCookie
<1> QED  BY <1>1, <1>2, <1>3, TradeBaseInvariant, PTL DEF TradeSpec

-----------------------------------------------------------------------------
(* The orders *)

Texts == Nat \X {"amount", "price"}
Placed == [item : Nat, price : Texts, amount : Texts]

(* The pages and signs between the page of an item and its order *)
Forms == {"item", "amount", "amount sign", "price", "price sign", "confirm"}

(* A form, and a search that leads to one, is of the order the bot has.    *)
OfTheOrder ==
    /\ order.n = begun.orders /\ window.item \in {0, order.n}
    /\ window.kind \in Forms => window.item # 0
    /\ mode = "Bazaar" /\ window.kind = "search" => window.item # 0
    /\ \A h \in handlers : /\ h.window = opened => h.order = order
                           /\ h.at = "searches" /\ h.window = window.id => window.item # 0

(* While a sign is open no handler is left that could move the step: what  *)
(* is written on the sign is what it asks for.                             *)
SignHasItsStep ==
    /\ window.kind \in Signs => current = opened /\ \A h \in handlers : h.window # current
    /\ mode = "Bazaar" /\ window.kind = "amount sign" =>
          step \notin {"SetPrice", "SelectOrderType"}
    /\ mode = "Bazaar" /\ window.kind = "price sign" => step # "SetAmount"

(* What was written so far is what the order asks for.                     *)
Written ==
    /\ window.kind \in {"price", "price sign", "confirm"} /\ order.buy =>
          signed.amount = Amount(order.n)
    /\ window.kind = "confirm" => signed.price = Price(order.n)

OrdersInv ==
    /\ signed \in [amount : Texts, price : Texts] /\ standing \in Seq(Placed)
    /\ OfTheOrder /\ SignHasItsStep /\ Written /\ PlacedAsAsked
    /\ \A k \in DOMAIN standing :
          standing[k].item \in 1 .. order.n /\ standing[k].item # window.item

(* What the flows of others do to the window *)
Aside ==
    /\ UNCHANGED <<signed, standing>>
    /\ \/ UNCHANGED <<window, opened>>
       \/ window' = NoWindow /\ opened' = opened
       \/ /\ opened' = opened + 1 /\ window'.id = opened + 1
          /\ window'.kind \notin Forms /\ window'.item \in {0, window.item}
          /\ window'.kind = "search" => mode' # "Bazaar"

NotOfOrders ==
    /\ Aside /\ UNCHANGED <<order, current>> /\ begun'.orders = begun.orders
    /\ mode' = mode \/ mode' # "Bazaar"
    /\ step' \in {step, "Initial", "SearchResults", "Confirm"}
    /\ \A f \in handlers' : \E h \in handlers :
          /\ f.window = h.window /\ f.order \in {h.order, order}
          /\ f.at = "searches" => h.at = "searches"

(* The flows of others leave the orders as they are. *)
LEMMA OrdersStay ==
    ASSUME TradeTypes, Pages, OrdersInv, NotOfOrders
    PROVE  OrdersInv'
<1> USE DEF TradeTypes, Windows
<1>0. /\ \A h \in handlers : h.window \in 1 .. current /\ h.window <= opened
      /\ window.id \in {0, opened} /\ NoWindow.id = 0 /\ NoWindow.item = 0
      /\ NoWindow.kind = "none"
  BY DEF Pages, NoWindow
<1>1. /\ window'.item \in {0, window.item} /\ order' = order
      /\ signed' = signed /\ standing' = standing
  BY <1>0 DEF NotOfOrders, Aside
<1>2. OfTheOrder'
  <2>1. order'.n = begun'.orders /\ window'.item \in {0, order'.n}
    BY <1>1 DEF OrdersInv, OfTheOrder, NotOfOrders
  <2>2. /\ window'.kind \in Forms => window'.item # 0
        /\ mode' = "Bazaar" /\ window'.kind = "search" => window'.item # 0
    BY <1>0 DEF OrdersInv, OfTheOrder, NotOfOrders, Aside, Forms
  <2>3. ASSUME NEW f \in handlers'
        PROVE  /\ f.window = opened' => f.order = order'
               /\ f.at = "searches" /\ f.window = window'.id => window'.item # 0
    <3>1. PICK h \in handlers : /\ f.window = h.window /\ f.order \in {h.order, order}
                                /\ f.at = "searches" => h.at = "searches"
      BY DEF NotOfOrders
    <3> QED  BY <1>0, <1>1, <3>1 DEF OrdersInv, OfTheOrder, NotOfOrders, Aside
  <2> QED  BY <2>1, <2>2, <2>3 DEF OfTheOrder
<1>3. SignHasItsStep'
  <2>1. CASE UNCHANGED <<window, opened>>
    <3>1. \A f \in handlers' : \E h \in handlers : f.window = h.window
      BY DEF NotOfOrders
    <3>2. current' = current /\ window'.kind = window.kind /\ opened' = opened
      BY <2>1 DEF NotOfOrders
    <3>3. mode' = "Bazaar" => mode = "Bazaar"
      BY DEF NotOfOrders
    <3>4. step' \in {step, "Initial", "SearchResults", "Confirm"}
      BY DEF NotOfOrders
    <3> QED  BY <3>1, <3>2, <3>3, <3>4 DEF OrdersInv, SignHasItsStep
  <2>2. CASE window'.kind \notin Signs
    BY <2>2 DEF SignHasItsStep, Signs
  <2> QED  BY <1>0, <2>1, <2>2 DEF NotOfOrders, Aside, Forms, Signs
<1>4. Written'
  BY <1>0, <1>1 DEF OrdersInv, Written, NotOfOrders, Aside, Forms
<1>5. PlacedAsAsked'
  BY <1>1 DEF OrdersInv, PlacedAsAsked
<1>6. \A k \in DOMAIN standing' : standing'[k].item \in 1 .. order'.n /\ standing'[k].item # window'.item
  BY <1>1 DEF OrdersInv
<1> QED  BY <1>1, <1>2, <1>3, <1>4, <1>5, <1>6 DEF OrdersInv

(* What the steps of the other flows do keeps aside. *)
LEMMA AsideEffects ==
    ASSUME TradeTypes
    PROVE  /\ NoEffect => Aside /\ opened' = opened
           /\ \A id : Close(id) => Aside /\ opened' = opened
           /\ \A kind \in {"sale", "cookie", "buy"} : Leads(kind) => Aside
           /\ \A kind \in {"sale", "menu", "view", "cookie", "buy", "gui"} :
                 GoodsStay /\ Opens(kind, 0) => Aside
           /\ BuysCookie \/ EatsCookie => Aside
<1> USE DEF GoodsStay, Aside
<1>1. NoEffect => Aside /\ opened' = opened
  BY DEF NoEffect, bazaarVars
<1>2. \A id : Close(id) => Aside /\ opened' = opened
  BY DEF Close
<1>0. ASSUME NEW rest, NEW kind \in Kinds, NEW item, OpensAfter(rest, kind, item)
      PROVE  /\ opened' = opened + 1 /\ window'.id = opened + 1
             /\ window'.kind = kind /\ window'.item = item
  BY <1>0 DEF OpensAfter
<1>o. ASSUME NEW rest, NEW kind \in Kinds \ (Forms \cup {"search"}), NEW item \in {0, window.item},
             GoodsStay, OpensAfter(rest, kind, item)
      PROVE  Aside
  BY <1>o, <1>0
<1>k. {"sale", "menu", "view", "cookie", "buy", "gui"} \subseteq Kinds \ (Forms \cup {"search"})
  BY DEF Kinds, Forms
<1>3. \A kind \in {"sale", "cookie", "buy"} : Leads(kind) => Aside
  BY <1>o, <1>k DEF Leads, Opens
<1>4. \A kind \in {"sale", "menu", "view", "cookie", "buy", "gui"} :
         GoodsStay /\ Opens(kind, 0) => Aside
  BY <1>o, <1>k DEF Opens
<1>5. BuysCookie \/ EatsCookie => Aside
  <2>1. ASSUME Opens("cookie", 0), UNCHANGED <<signed, standing>>  PROVE Aside
    BY <2>1, <1>0, <1>k DEF Opens
  <2>2. ASSUME window' = NoWindow, UNCHANGED <<opened, signed, standing>>  PROVE Aside
    BY <2>2
  <2> QED  BY <2>1, <2>2 DEF BuysCookie, EatsCookie
<1> QED  BY <1>1, <1>2, <1>3, <1>4, <1>5

(* A step of a flow's own page: what is there is as before. *)
LEMMA AsideHandlers ==
    ASSUME TradeTypes, NEW h \in handlers, HandlerStep(h),
           Ends(h) \/ \E at \in {"confirms", "waits", "looks", "eats"} : Goes(h, at)
    PROVE  \A f \in handlers' : \E g \in handlers :
              /\ f.window = g.window /\ f.order \in {g.order, order}
              /\ f.at = "searches" => g.at = "searches"
<1>1. CASE Ends(h)
  BY <1>1 DEF Ends
<1>2. ASSUME NEW at \in {"confirms", "waits", "looks", "eats"}, Goes(h, at)
      PROVE  \A f \in handlers' : \E g \in handlers :
                /\ f.window = g.window /\ f.order \in {g.order, order}
                /\ f.at = "searches" => g.at = "searches"
  <2>1. h \in Handlers
    BY DEF TradeTypes
  <2> DEFINE e == [h EXCEPT !.at = at]
  <2>2. e.window = h.window /\ e.order = h.order /\ e.at = at
    BY <2>1 DEF Handlers
  <2>3. handlers' = (handlers \ {h}) \cup {e}
    BY <1>2 DEF Goes
  <2> HIDE DEF e
  <2> QED  BY <2>2, <2>3
<1> QED  BY <1>1, <1>2

(* The steps outside the flow of an order *)
LEMMA NotOfOrdersElsewhere ==
    ASSUME TradeTypes, Elsewhere, ~ BazaarOrder, ~ OnSign
    PROVE  NotOfOrders
<1> USE AsideEffects
<1>1. current' = current /\ handlers' = handlers /\ begun \in Begun
  BY ElsewhereEffect DEF ElsewhereDoes, TradeTypes
<1>2. \A f \in handlers' : \E h \in handlers :
          /\ f.window = h.window /\ f.order \in {h.order, order}
          /\ f.at = "searches" => h.at = "searches"
  BY <1>1
<1>3. order' = order /\ begun'.orders = begun.orders
  BY <1>1 DEF Elsewhere, FreesSlot, SellInventoryBz, CheckCookie, Preempts, FlipEnds, TimesOut,
              OnLimit, OnRefused, OnNothingToSell, Watchdog, Begins, Begun, commandUnchanged
<1>4. /\ mode' = mode \/ mode' # "Bazaar"
      /\ step' \in {step, "Initial", "SearchResults", "Confirm"}
  BY DEF Elsewhere, FreesSlot, SellInventoryBz, CheckCookie, Preempts, FlipEnds, TimesOut,
         OnLimit, OnRefused, OnNothingToSell, Watchdog, commandUnchanged
<1>5. Aside
  <2>1. CASE SellInventoryBz
    <3>1. /\ opened' = opened + 1 /\ window'.id = opened + 1 /\ window'.kind = "search"
          /\ window'.item = 0
      BY <2>1 DEF SellInventoryBz, Opens, OpensAfter
    <3>2. mode' # "Bazaar" /\ UNCHANGED <<signed, standing>>
      BY <2>1 DEF SellInventoryBz, GoodsStay
    <3> QED  BY <3>1, <3>2 DEF Aside, Forms
  <2>2. CASE CheckCookie \/ Preempts
    BY <2>2 DEF CheckCookie, Preempts
  <2>3. CASE FlipEnds \/ Watchdog
    BY <2>3 DEF FlipEnds, Watchdog
  <2>4. CASE OnNothingToSell
    <3>1. UNCHANGED <<signed, standing, opened>>
      BY <2>4 DEF OnNothingToSell, GoodsStay, bazaarVars
    <3>2. window' = window \/ window' = NoWindow
      BY <2>4 DEF OnNothingToSell, bazaarVars
    <3> QED  BY <3>1, <3>2 DEF Aside
  <2>5. CASE FreesSlot \/ TimesOut \/ OnLimit \/ OnRefused
    BY <2>5 DEF FreesSlot, TimesOut, OnLimit, OnRefused, Aside, bazaarVars
  <2> QED  BY <2>1, <2>2, <2>3, <2>4, <2>5 DEF Elsewhere
<1> QED  BY <1>1, <1>2, <1>3, <1>4, <1>5 DEF NotOfOrders

(* ... and the handlers that fill in no form *)
LEMMA NotOfOrdersHandler ==
    ASSUME TradeTypes, Pages, NEW h \in handlers,
           \/ Bails(h) \/ FindsNothing(h) \/ Tells(h) \/ SellsInventory(h) \/ ReadsMenu(h)
           \/ FindsCookie(h) \/ ClaimsStep(h) \/ LooksForCookie(h) \/ Eats(h)
    PROVE  NotOfOrders
<1> USE AsideEffects
<1>1. /\ HandlerStep(h) /\ current' = current /\ order' = order /\ begun' = begun
  BY HandlerEffect DEF Handler
<1>2. Ends(h) \/ \E at \in {"confirms", "waits", "looks", "eats"} : Goes(h, at)
  BY DEF Bails, FindsNothing, Tells, SellsInventory, ReadsMenu, FindsCookie, ClaimsStep,
         LooksForCookie, Eats, Quits
<1>3. /\ mode' = mode \/ mode' # "Bazaar"
      /\ step' \in {step, "Initial", "SearchResults", "Confirm"}
  BY DEF Bails, FindsNothing, Tells, SellsInventory, ReadsMenu, FindsCookie, ClaimsStep,
         LooksForCookie, Eats, Quits, cookieUnchanged
<1>4. Aside
  <2>1. CASE Bails(h) \/ FindsNothing(h) \/ Tells(h) \/ Eats(h) \/ LooksForCookie(h)
    BY <2>1 DEF Bails, FindsNothing, Tells, Eats, LooksForCookie, Quits
  <2>2. CASE SellsInventory(h)
    <3>1. GoodsStay /\ AnswersOrder("nothing") /\ UNCHANGED <<window, opened>> => Aside
      BY DEF GoodsStay, Aside
    <3> QED  BY <2>2, <3>1 DEF SellsInventory, Quits, Click
  <2>3. CASE ReadsMenu(h)
    <3>1. CASE GoodsStay /\ Opens("search", 0) /\ mode' = "BuyingCookie"
      <4>1. /\ opened' = opened + 1 /\ window'.id = opened + 1 /\ window'.kind = "search"
            /\ window'.item = 0
        BY <3>1 DEF Opens, OpensAfter
      <4> QED  BY <3>1, <4>1 DEF Aside, Forms, GoodsStay
    <3> QED  BY <2>3, <3>1 DEF ReadsMenu
  <2>4. CASE FindsCookie(h)
    BY <2>4 DEF FindsCookie, CookieClick, Click
  <2>5. CASE ClaimsStep(h)
    BY <2>5 DEF ClaimsStep, CookieClick, Click
  <2> QED  BY <2>1, <2>2, <2>3, <2>4, <2>5
<1> QED  BY <1>1, <1>2, <1>3, <1>4, AsideHandlers DEF NotOfOrders

(* Where the handlers and the window are *)
LEMMA Places ==
    ASSUME TradeTypes, Pages
    PROVE  /\ window.id \in {0, opened} /\ opened \in Nat /\ current \in Nat /\ current <= opened
           /\ window.item \in Nat /\ window.kind \in Kinds /\ order.n \in Nat /\ order.buy \in BOOLEAN
           /\ NoWindow.id = 0 /\ NoWindow.item = 0 /\ NoWindow.kind = "none"
           /\ \A h \in handlers : /\ h.window \in 1 .. current
                                  /\ h.window = window.id =>
                                        /\ h.window = opened /\ current = opened
                                        /\ h.kind = window.kind
           /\ \A g, h \in handlers : g.window = h.window => g = h
<1>1. /\ window.id \in {0, opened} /\ opened \in Nat /\ current \in Nat /\ current <= opened
      /\ window.item \in Nat /\ window.kind \in Kinds /\ order.n \in Nat /\ order.buy \in BOOLEAN
      /\ NoWindow.id = 0 /\ NoWindow.item = 0 /\ NoWindow.kind = "none"
  BY DEF TradeTypes, Pages, Windows, Orders, NoWindow
<1>2. \A h \in handlers : h.window \in 1 .. current /\ (h.window = window.id => h.kind = window.kind)
  BY DEF Pages
<1>3. \A g, h \in handlers : g.window = h.window => g = h
  BY DEF Pages
<1> QED  BY <1>1, <1>2, <1>3

(* The orders that stand, as long as no other is placed *)
LEMMA StandingKept ==
    ASSUME OrdersInv, standing' = standing, order' = order, window'.item \in {0, window.item},
           order.n \in Nat
    PROVE  /\ PlacedAsAsked'
           /\ \A k \in DOMAIN standing' :
                 standing'[k].item \in 1 .. order'.n /\ standing'[k].item # window'.item
<1>1. \A k \in DOMAIN standing : standing[k].item \in 1 .. order.n /\ standing[k].item # window.item
  BY DEF OrdersInv
<1>2. PlacedAsAsked'
  BY DEF OrdersInv, PlacedAsAsked
<1> QED  BY <1>1, <1>2

(* What opens is the newest page. *)
LEMMA PageOpens ==
    ASSUME NEW rest, NEW kind, NEW item, OpensAfter(rest, kind, item)
    PROVE  /\ opened' = opened + 1 /\ window'.id = opened + 1
           /\ window'.kind = kind /\ window'.item = item
BY DEF OpensAfter

(* A new order: its item is none of those that stand. *)
LEMMA OrderBegins ==
    ASSUME TradeTypes, Pages, OrdersInv, BazaarOrder  PROVE OrdersInv'
<1>0. handlers' = handlers /\ current' = current /\ begun \in Begun
  BY ElsewhereEffect DEF Elsewhere, ElsewhereDoes, TradeTypes
<1>1. /\ begun'.orders = begun.orders + 1 /\ begun.orders \in Nat /\ order'.n = begun.orders + 1
      /\ order.n = begun.orders
  BY <1>0 DEF BazaarOrder, Begins, Begun, OrdersInv, OfTheOrder
<1>2. /\ window'.kind \in {"search", "item"} /\ window'.item = begun.orders + 1
      /\ window'.id = opened + 1 /\ opened' = opened + 1
      /\ UNCHANGED <<signed, standing>>
  BY DEF BazaarOrder, Opens, OpensAfter, GoodsStay
<1>3. OfTheOrder'
  BY <1>0, <1>1, <1>2, Places DEF OfTheOrder
<1>4. SignHasItsStep' /\ Written'
  BY <1>2 DEF SignHasItsStep, Written, Signs
<1>5. PlacedAsAsked'
  BY <1>2 DEF OrdersInv, PlacedAsAsked
<1>6. \A k \in DOMAIN standing' : standing'[k].item \in 1 .. order'.n /\ standing'[k].item # window'.item
  <2>1. \A k \in DOMAIN standing : standing[k].item \in 1 .. order.n
    BY DEF OrdersInv
  <2> QED  BY <2>1, <1>1, <1>2
<1> QED  BY <1>2, <1>3, <1>4, <1>5, <1>6 DEF OrdersInv

(* A page comes to the bot: no sign is open then. *)
LEMMA PageComes ==
    ASSUME TradeTypes, Pages, OrdersInv, OnOpenScreen  PROVE OrdersInv'
<1>1. UNCHANGED <<window, opened, signed, standing, order, begun, mode, step>>
  BY DEF OnOpenScreen, bazaarVars
<1>2. \A f \in handlers' : f \in handlers \/ (f.order = order /\ f.at = "starts")
  BY DEF OnOpenScreen
<1>3. current < opened
  <2>1. packets # <<>> /\ packets \in Seq(Packets) /\ Opened(Head(packets))
    BY DEF OnOpenScreen, Take, TradeTypes, Opened
  <2>2. Head(packets) = packets[1] /\ 1 \in DOMAIN packets /\ packets[1] \in Packets
    BY <2>1, Later
  <2>3. current < packets[1].id /\ packets[1].id <= opened
    BY <2>1, <2>2 DEF Pages
  <2> QED  BY <2>2, <2>3, Places DEF Packets
<1>4. window.kind \notin Signs
  <2>1. current # opened
    BY <1>3, Places
  <2> QED  BY <2>1 DEF OrdersInv, SignHasItsStep
<1>5. OfTheOrder'
  BY <1>1, <1>2 DEF OrdersInv, OfTheOrder
<1>6. SignHasItsStep'
  BY <1>1, <1>4 DEF SignHasItsStep, Signs
<1>7. Written'
  BY <1>1 DEF OrdersInv, Written
<1> QED  BY <1>1, <1>5, <1>6, <1>7, StandingKept, Places DEF OrdersInv

(* A sign is written: the step is its own. *)
LEMMA SignIsWritten ==
    ASSUME TradeTypes, Pages, OrdersInv, OnSign  PROVE OrdersInv'
<1>1. UNCHANGED <<mode, order, handlers, current, begun, standing>>
  BY DEF OnSign, taskVars, Writes, bazaarVars
<1>2. Head(packets).kind \in Signs
  <2>1. packets # <<>> /\ packets \in Seq(Packets) /\ Head(packets).is = "sign"
    BY DEF OnSign, Take, TradeTypes
  <2>2. Head(packets) \in Packets
    BY <2>1, HeadTailProperties
  <2> QED  BY <2>1, <2>2 DEF Packets
<1>3. CASE UNCHANGED <<window, opened, signed>>
  <2>1. OfTheOrder'
    BY <1>1, <1>3 DEF OrdersInv, OfTheOrder
  <2>2. SignHasItsStep'
    <3>1. step' = step \/ (mode = "Bazaar" /\ step \in {"SetPrice", "SelectOrderType"} /\ step' = "SetPrice")
      BY DEF OnSign
    <3> QED  BY <1>1, <1>3, <3>1 DEF OrdersInv, SignHasItsStep
  <2>3. Written'
    BY <1>1, <1>3 DEF OrdersInv, Written
  <2> QED  BY <1>1, <1>3, <2>1, <2>2, <2>3, StandingKept, Places DEF OrdersInv
<1>4. CASE ~ UNCHANGED <<window, opened, signed>>
  <2>0. mode = "Bazaar" /\ window.kind = Head(packets).kind
    BY <1>4 DEF OnSign, Writes, bazaarVars
  <2>s. window.item # 0 /\ window.item = order.n
    BY <2>0, <1>2 DEF OrdersInv, OfTheOrder, Forms, Signs
  <2>t. /\ signed \in [amount : Texts, price : Texts]
        /\ Amount(order.n) \in Texts /\ Price(order.n) \in Texts
    BY Places DEF OrdersInv, Texts, Amount, Price
  <2>1. CASE window.kind = "amount sign"
    <3>1. step = "SetAmount" /\ Writes("amount sign", Amount(order.n)) /\ step' = step
      BY <2>0, <2>1, <1>4 DEF OrdersInv, SignHasItsStep, OnSign, bazaarVars
    <3>2. /\ window'.kind = "price" /\ window'.item = window.item /\ window'.id = opened + 1
          /\ opened' = opened + 1 /\ signed' = [signed EXCEPT !.amount = Amount(order.n)]
      <4>1. /\ OpensAfter(Tail(packets), "price", window.item)
            /\ signed' = [signed EXCEPT !.amount = Amount(order.n)]
        BY <2>1, <3>1 DEF Writes
      <4> QED  BY <4>1, PageOpens
    <3>3. signed' \in [amount : Texts, price : Texts] /\ signed'.amount = Amount(order.n)
      BY <3>2, <2>t
    <3>4. OfTheOrder'
      BY <3>2, <2>s, <1>1, Places DEF OrdersInv, OfTheOrder
    <3>5. SignHasItsStep' /\ Written'
      BY <3>2, <3>3, <1>1 DEF SignHasItsStep, Written, Signs
    <3> QED  BY <3>2, <3>3, <3>4, <3>5, <1>1, StandingKept, Places DEF OrdersInv
  <2>2. CASE window.kind = "price sign"
    <3>1. Writes("price sign", Price(order.n))
      BY <2>0, <2>2, <1>4 DEF OrdersInv, SignHasItsStep, OnSign, bazaarVars
    <3>2. /\ window'.kind = "confirm" /\ window'.item = window.item /\ window'.id = opened + 1
          /\ opened' = opened + 1 /\ signed' = [signed EXCEPT !.price = Price(order.n)]
      <4>1. /\ OpensAfter(Tail(packets), "confirm", window.item)
            /\ signed' = [signed EXCEPT !.price = Price(order.n)]
        BY <2>2, <3>1 DEF Writes
      <4> QED  BY <4>1, PageOpens
    <3>3. /\ signed' \in [amount : Texts, price : Texts] /\ signed'.price = Price(order.n)
          /\ signed'.amount = signed.amount
      BY <3>2, <2>t
    <3>4. OfTheOrder'
      BY <3>2, <2>s, <1>1, Places DEF OrdersInv, OfTheOrder
    <3>5. order.buy => signed.amount = Amount(order.n)
      BY <2>2 DEF OrdersInv, Written
    <3>6. SignHasItsStep' /\ Written'
      BY <3>2, <3>3, <3>5, <1>1 DEF SignHasItsStep, Written, Signs
    <3> QED  BY <3>2, <3>3, <3>4, <3>6, <1>1, StandingKept, Places DEF OrdersInv
  <2> QED  BY <2>0, <2>1, <2>2, <1>2 DEF Signs
<1> QED  BY <1>3, <1>4

(* A handler that goes on leaves the windows with its place. *)
LEMMA HandlersKept ==
    ASSUME TradeTypes, Pages, OrdersInv, NEW h \in handlers, HandlerStep(h),
           UNCHANGED <<order, begun, mode>>, opened' \in {opened, opened + 1},
           window'.item = window.item, window'.item # 0,
           window'.id = window.id \/ window'.id \in {0, opened + 1}
    PROVE  OfTheOrder'
<1>1. \A f \in handlers' : \E g \in handlers : f.window = g.window /\ f.order \in {g.order, order}
  BY DEF HandlerStep, Ends
<1>2. \A f \in handlers' : f.window = opened' => f.order = order'
  BY <1>1, Places DEF OrdersInv, OfTheOrder
<1> QED  BY <1>2 DEF OrdersInv, OfTheOrder

(* A page is started on: only that of an order is searched. *)
LEMMA PageIsStarted ==
    ASSUME TradeTypes, Pages, OrdersInv, NEW h \in handlers, Starts(h)  PROVE OrdersInv'
<1>1. UNCHANGED <<window, opened, signed, standing, order, begun, mode, current>>
  BY DEF Starts, NoEffect, bazaarVars, handlerUnchanged
<1>2. \/ step' = step \/ step' = "Confirm"
      \/ step' = "SearchResults"
  BY DEF Starts
<1>3. h \in Handlers
  BY DEF TradeTypes
<1>4. \A f \in handlers' :
         \/ f \in handlers
         \/ /\ f.window = h.window /\ f.order = order
            /\ f.at = "searches" => mode = "Bazaar" /\ h.kind = "search"
  <2>1. mode \in Flow => /\ Begin(h) \in Handlers /\ Begin(h).window = h.window
                         /\ Begin(h).order = order /\ Begin(h).at = mode
    BY <1>3 DEF Begin, Handlers, TradeTypes
  <2>2. \A at \in {"confirms", "searches"} : mode \in Flow =>
           LET f == [Begin(h) EXCEPT !.at = at]
           IN  f.window = h.window /\ f.order = order /\ f.at = at
    BY <2>1 DEF Handlers
  <2>3. CASE Ends(h)
    BY <2>3 DEF Ends
  <2>4. CASE /\ mode = "Bazaar"
             /\ handlers' = (handlers \ {h}) \cup {[Begin(h) EXCEPT !.at = "confirms"]}
    <3> DEFINE e == [Begin(h) EXCEPT !.at = "confirms"]
    <3>1. e.window = h.window /\ e.order = order /\ e.at = "confirms" /\ handlers' = (handlers \ {h}) \cup {e}
      BY <2>2, <2>4 DEF Flow
    <3> HIDE DEF e
    <3> QED  BY <3>1
  <2>5. CASE /\ mode = "Bazaar" /\ h.kind = "search"
             /\ handlers' = (handlers \ {h}) \cup {[Begin(h) EXCEPT !.at = "searches"]}
    <3> DEFINE e == [Begin(h) EXCEPT !.at = "searches"]
    <3>1. e.window = h.window /\ e.order = order /\ handlers' = (handlers \ {h}) \cup {e}
      BY <2>2, <2>5 DEF Flow
    <3> HIDE DEF e
    <3> QED  BY <3>1, <2>5
  <2>6. CASE mode \in Flow /\ handlers' = (handlers \ {h}) \cup {Begin(h)}
    BY <2>1, <2>6 DEF Flow
  <2> QED  BY <2>3, <2>4, <2>5, <2>6 DEF Starts
<1>5. OfTheOrder'
  <2>1. \A f \in handlers' : /\ f.window = opened' => f.order = order'
                             /\ f.at = "searches" /\ f.window = window'.id => window'.item # 0
    BY <1>1, <1>4, Places DEF OrdersInv, OfTheOrder
  <2> QED  BY <1>1, <2>1 DEF OrdersInv, OfTheOrder
<1>6. SignHasItsStep'
  <2>1. \A f \in handlers' : \E g \in handlers : f.window = g.window
    BY <1>4
  <2> QED  BY <1>1, <1>2, <2>1 DEF OrdersInv, SignHasItsStep
<1>7. Written'
  BY <1>1 DEF OrdersInv, Written
<1> QED  BY <1>1, <1>5, <1>6, <1>7, StandingKept, Places DEF OrdersInv

(* The results of an order's search: its item's page comes next. *)
LEMMA ItemIsChosen ==
    ASSUME TradeTypes, Pages, OrdersInv, NEW h \in handlers, Searches(h)  PROVE OrdersInv'
<1>1. /\ HandlerStep(h) /\ current' = current /\ order' = order /\ begun' = begun
      /\ step' = step /\ Ends(h)
  BY HandlerEffect DEF Handler, Searches, Quits
<1>2. CASE window.id = h.window /\ Leads("item") /\ mode' = mode
  <2>1. /\ opened' = opened + 1 /\ window'.id = opened + 1
        /\ window'.kind = "item" /\ window'.item = window.item
    BY <1>2, PageOpens DEF Leads, Opens
  <2>2. signed' = signed /\ standing' = standing
    BY <1>2 DEF Leads, GoodsStay
  <2>3. window.item # 0
    BY <1>2 DEF Searches, OrdersInv, OfTheOrder
  <2>4. OfTheOrder'
    BY <1>1, <1>2, <2>1, <2>3, HandlersKept
  <2>5. SignHasItsStep' /\ Written'
    BY <2>1 DEF SignHasItsStep, Written, Signs
  <2> QED  BY <1>1, <2>1, <2>2, <2>4, <2>5, StandingKept, Places DEF OrdersInv
<1>3. CASE Aside /\ mode' \in {mode, "Idle"}
  BY <1>1, <1>3, AsideHandlers, OrdersStay DEF NotOfOrders
<1> QED  BY <1>2, <1>3, AsideEffects DEF Searches, Click, Quits

(* The form of an order is filled in: a click on its own page, or none. *)
LEMMA FormGoesOn ==
    ASSUME TradeTypes, Pages, OrdersInv, NEW h \in handlers, GoesOn(h)  PROVE OrdersInv'
<1>1. /\ HandlerStep(h) /\ current' = current /\ order' = order /\ begun' = begun
      /\ mode' = mode /\ Ends(h) /\ h.window = current
  BY HandlerEffect DEF Handler, GoesOn, Superseded
<1>2. CASE window.id # h.window
  <2>1. UNCHANGED <<window, opened, signed, standing>>
    BY <1>2 DEF GoesOn, Click, NoEffect, bazaarVars
  <2>2. window.kind \notin Signs
    BY <1>1 DEF OrdersInv, SignHasItsStep
  <2>3. OfTheOrder'
    BY <1>1, <2>1 DEF Ends, OrdersInv, OfTheOrder
  <2>4. SignHasItsStep' /\ Written'
    BY <1>1, <2>1, <2>2 DEF OrdersInv, SignHasItsStep, Written, Signs
  <2> QED  BY <1>1, <2>1, <2>3, <2>4, StandingKept, Places DEF OrdersInv
<1>3. CASE window.id = h.window
  <2>1. /\ h.window = opened /\ current = opened /\ h.kind = window.kind
        /\ h.order = order /\ h.window # 0
    BY <1>3, Places DEF OrdersInv, OfTheOrder
  <2>2. \A f \in handlers' : f.window # current'
    BY <1>1, Places DEF Ends
  <2>3. standing' = standing /\ signed' \in {signed, Nothing} /\ window.kind \in {"item", "amount", "price"}
    BY <1>3, <2>1 DEF GoesOn, Click, CreatesOrder, GoodsStay
  <2>4. Nothing \in [amount : Texts, price : Texts]
    BY DEF Nothing, Texts
  <2>5. window.item # 0
    BY <2>3 DEF OrdersInv, OfTheOrder, Forms
  <2>s. ASSUME NEW kind, SignOpens(kind)
        PROVE  window'.id = 0 /\ window'.kind = kind /\ window'.item = window.item /\ opened' = opened
    BY <2>s DEF SignOpens, NoWindow
  <2>6. /\ window'.item = window.item
        /\ \/ opened' = opened + 1 /\ window'.id = opened + 1
           \/ opened' = opened /\ window'.id = 0
        /\ window'.kind \in Signs => opened' = opened
        /\ \/ window'.kind = "amount"
           \/ window'.kind = "price" /\ ~ order.buy
           \/ window'.kind = "price sign" /\ ~ order.buy /\ step' = "SelectOrderType"
           \/ window'.kind = "amount sign" /\ step' = "SetAmount"
           \/ /\ window'.kind = "price sign" /\ step' = "SetPrice" /\ window.kind = "price"
              /\ signed' = signed
    <3>1. CASE step' = "SelectOrderType" /\ CreatesOrder(order.buy)
      <4>1. CASE order.buy /\ OpensAfter(packets, "amount", window.item)
        <5>1. /\ opened' = opened + 1 /\ window'.id = opened + 1
              /\ window'.kind = "amount" /\ window'.item = window.item
          BY <4>1, PageOpens
        <5> QED  BY <4>1, <5>1 DEF Signs
      <4>2. CASE ~ order.buy /\ OpensAfter(packets, "price", window.item)
        <5>1. /\ opened' = opened + 1 /\ window'.id = opened + 1
              /\ window'.kind = "price" /\ window'.item = window.item
          BY <4>2, PageOpens
        <5> QED  BY <4>2, <5>1 DEF Signs
      <4>3. CASE ~ order.buy /\ SignOpens("price sign")
        BY <4>3, <3>1, <2>s
      <4> QED  BY <3>1, <4>1, <4>2, <4>3 DEF CreatesOrder, Opens
    <3>2. CASE step' = "SetAmount" /\ SignOpens("amount sign")
      BY <3>2, <2>s
    <3>3. CASE step' = "SetPrice" /\ GoodsStay /\ SignOpens("price sign") /\ window.kind = "price"
      BY <3>3, <2>s DEF GoodsStay
    <3> QED  BY <1>3, <2>1, <3>1, <3>2, <3>3 DEF GoesOn, Click
  <2>7. OfTheOrder'
    BY <1>1, <2>5, <2>6, HandlersKept
  <2>8. SignHasItsStep'
    BY <1>1, <2>1, <2>2, <2>6 DEF SignHasItsStep, Signs
  <2>9. Written'
    BY <1>1, <2>6 DEF OrdersInv, Written
  <2> QED  BY <1>1, <2>3, <2>4, <2>6, <2>7, <2>8, <2>9, StandingKept, Places DEF OrdersInv
<1> QED  BY <1>2, <1>3

(* The order is placed: as it was asked for, and not a second time. *)
LEMMA OrderIsPlaced ==
    ASSUME TradeTypes, Pages, OrdersInv, NEW h \in handlers, Confirms(h)  PROVE OrdersInv'
<1>1. /\ HandlerStep(h) /\ current' = current /\ order' = order /\ begun' = begun
      /\ step' = step /\ (Ends(h) \/ Goes(h, "waits")) /\ mode' \in {mode, "Idle"}
  BY HandlerEffect DEF Handler, Confirms, Quits
<1>2. CASE Aside
  BY <1>1, <1>2, AsideHandlers, OrdersStay DEF NotOfOrders
<1>3. ASSUME window.id = h.window, window.kind = "confirm", PlacesOrder(h.order.buy), ~ Aside
      PROVE  OrdersInv'
  <2>1. /\ h.order = order /\ window.item = order.n /\ window.item # 0
    BY <1>3, Places DEF OrdersInv, OfTheOrder, Forms
  <2> DEFINE new == [item |-> order.n, price |-> signed.price,
                     amount |-> IF order.buy THEN signed.amount ELSE Amount(order.n)]
  <2>2. /\ window' = NoWindow /\ opened' = opened /\ signed' = signed
        /\ standing' = Append(standing, new)
    BY <1>3, <2>1 DEF PlacesOrder, Aside
  <2>3. /\ new.item = order.n /\ new.amount = Amount(order.n) /\ new.price = Price(order.n)
        /\ new \in Placed
    <3>1. signed.price = Price(order.n) /\ (order.buy => signed.amount = Amount(order.n))
      BY <1>3 DEF OrdersInv, Written
    <3>2. Amount(order.n) \in Texts /\ Price(order.n) \in Texts /\ order.n \in Nat
      BY Places DEF Texts, Amount, Price
    <3> QED  BY <3>1, <3>2 DEF Placed
  <2> HIDE DEF new
  <2>4. /\ standing' \in Seq(Placed)
        /\ \A k \in DOMAIN standing' : \/ k \in DOMAIN standing /\ standing'[k] = standing[k]
                                       \/ k = Len(standing) + 1 /\ standing'[k] = new
    BY <2>2, <2>3, Appended DEF OrdersInv
  <2>5. \A k \in DOMAIN standing : standing[k].item \in 1 .. order.n /\ standing[k].item # order.n
    BY <2>1 DEF OrdersInv
  <2>6. PlacedAsAsked'
    <3>1. \A k \in DOMAIN standing' : /\ standing'[k].amount = Amount(standing'[k].item)
                                      /\ standing'[k].price = Price(standing'[k].item)
      BY <2>3, <2>4 DEF OrdersInv, PlacedAsAsked
    <3>2. \A j, k \in DOMAIN standing' : standing'[j].item = standing'[k].item => j = k
      BY <2>3, <2>4, <2>5 DEF OrdersInv, PlacedAsAsked
    <3> QED  BY <3>1, <3>2 DEF PlacedAsAsked
  <2>7. \A k \in DOMAIN standing' : standing'[k].item \in 1 .. order'.n /\ standing'[k].item # window'.item
    BY <1>1, <2>1, <2>2, <2>3, <2>4, <2>5, Places
  <2>8. OfTheOrder'
    <3>1. \A f \in handlers' : \E g \in handlers : f.window = g.window /\ f.order \in {g.order, order}
      BY <1>1 DEF HandlerStep, Ends
    <3>2. \A f \in handlers' : f.window = opened' => f.order = order'
      BY <1>1, <2>2, <3>1, Places DEF OrdersInv, OfTheOrder
    <3>3. \A f \in handlers' : f.window # window'.id
      BY <2>2, <3>1, Places
    <3>4. order.n = begun.orders
      BY DEF OrdersInv, OfTheOrder
    <3> QED  BY <1>1, <2>2, <3>2, <3>3, <3>4, Places DEF OfTheOrder, Forms
  <2>9. SignHasItsStep' /\ Written'
    BY <2>2, Places DEF SignHasItsStep, Written, Signs
  <2> QED  BY <2>2, <2>4, <2>6, <2>7, <2>8, <2>9 DEF OrdersInv
<1>4. GoodsStay /\ UNCHANGED <<window, opened, packets>> => Aside
  BY DEF GoodsStay, Aside
<1> QED  BY <1>2, <1>3, <1>4, AsideEffects DEF Confirms, Click, Quits

(* The flows, the signs and what was written keep together. *)
LEMMA OrdersInvariant == TradeSpec => []OrdersInv
<1>1. TradeInit => OrdersInv
  <2> SUFFICES ASSUME TradeInit  PROVE OrdersInv
    OBVIOUS
  <2>1. standing = <<>> /\ standing \in Seq(Placed) /\ DOMAIN standing = {}
    BY EmptySeq, LenProperties DEF TradeInit
  <2>2. signed \in [amount : Texts, price : Texts]
    BY DEF TradeInit, Nothing, Texts
  <2>3. OfTheOrder /\ SignHasItsStep /\ Written
    BY DEF TradeInit, OfTheOrder, SignHasItsStep, Written, NoWindow, Forms, Signs
  <2> QED  BY <2>1, <2>2, <2>3 DEF OrdersInv, PlacedAsAsked
<1>2. TradeTypes /\ Pages /\ OrdersInv /\ [TradeNext]_tradeVars => OrdersInv'
  <2> SUFFICES ASSUME TradeTypes, Pages, OrdersInv, [TradeNext]_tradeVars  PROVE OrdersInv'
    OBVIOUS
  <2>1. CASE Elsewhere /\ ~ BazaarOrder /\ ~ OnSign
    BY <2>1, NotOfOrdersElsewhere, OrdersStay
  <2>2. CASE BazaarOrder \/ OnOpenScreen \/ OnSign
    BY <2>2, OrderBegins, PageComes, SignIsWritten
  <2>3. ASSUME NEW h \in handlers, Handler(h)  PROVE OrdersInv'
    BY <2>3, NotOfOrdersHandler, OrdersStay, PageIsStarted, ItemIsChosen, FormGoesOn,
       OrderIsPlaced DEF Handler
  <2>4. CASE UNCHANGED tradeVars
    BY <2>4 DEF tradeVars, bazaarVars, taskVars, OrdersInv, OfTheOrder, SignHasItsStep, Written,
                PlacedAsAsked
  <2> QED  BY <2>1, <2>2, <2>3, <2>4 DEF TradeNext, TradeEvent, Elsewhere
<1> QED  BY <1>1, <1>2, TradeBaseInvariant, PTL DEF TradeSpec

(* Every order has the item, the amount and the price of one command, and  *)
(* no command places two: a form and the search that leads to it are of    *)
(* the order the bot has, no handler is left that could move the step      *)
(* while a sign is open, and so each sign has what it asks for             *)
(* (bot/client.rs:3731-3759, 5104-5110).                                   *)
THEOREM OrdersAreAsAsked == TradeSpec => []PlacedAsAsked
<1>1. OrdersInv => PlacedAsAsked
  BY DEF OrdersInv
<1> QED  BY <1>1, OrdersInvariant, PTL

-----------------------------------------------------------------------------
(* What is told *)

(* No flip and no cookie took a window away. *)
Plain == begun.flips = 0 /\ begun.cookies = 0

(* The packets of a sequence, and those that only come while nothing that  *)
(* was asked for before them is still on its way                           *)
Sent(q) == {q[k] : k \in DOMAIN q}
Deeper == {"amount", "price", "confirm"}
Deep(p) == p.is \in {"sign", "nothing"} \/ (Opened(p) /\ p.kind \in Deeper)
FirstOf(q) ==
    \A j, k \in DOMAIN q : j < k /\ Deep(q[k]) => q[j].is \notin {"open", "sign"}

Early == {"Initial", "SearchResults"}
Present == {h \in handlers : h.window = current}

(* A deep packet has nobody at the page before it, and one that is not of  *)
(* the order finds its flow at the start.                                  *)
PacketsInv ==
    /\ FirstOf(packets)
    /\ \A p \in Sent(packets) :
          /\ Deep(p) => Present = {}
          /\ p.is = "sign" => window.id = 0 \/ window.id > current
          /\ mode = "Bazaar" /\ p.is = "sign" =>
                window.kind = p.kind \/ (window.kind \notin Signs /\ step \in Early)
          /\ mode = "Bazaar" /\ Opened(p) /\ p.kind \in Deeper /\ p.id # window.id =>
                step \in Early
    /\ current < opened => \E p \in Sent(packets) : Opened(p) /\ p.id = opened

(* Whoever is at the newest page is of the flow that runs, and the later   *)
(* steps of an order are taken on its own pages only.                      *)
FlowInv ==
    /\ mode \in {"Idle", "Bazaar", "SellingInventoryBz"}
    /\ \A h \in handlers :
          /\ h.at \in {"starts", "Bazaar", "searches", "confirms", "waits", "SellingInventoryBz"}
          /\ h.at = "searches" => h.kind = "search"
    /\ \A h \in Present :
          /\ h.at \in {"Bazaar", "searches", "confirms"} => mode = "Bazaar"
          /\ h.at = "SellingInventoryBz" => mode = "SellingInventoryBz"
          /\ h.at = "confirms" =>
                window.id = h.window /\ window.kind = "confirm" /\ step = "Confirm"
          /\ mode = "Bazaar" /\ h.kind \in Deeper /\ h.window # window.id /\ h.at # "waits" =>
                step \in Early /\ (h.at = "Bazaar" => h.step \in Early)
    /\ window.kind \notin Signs \cup {"none"} => window.id = opened
    /\ mode = "Bazaar" =>
          /\ step = "SetAmount" => window.kind \in {"amount sign", "price"}
          /\ step = "SetPrice" => window.kind \in {"price sign", "confirm"}
          /\ window.kind \in Forms \cup {"search"} \/ \E h \in handlers : h.at = "waits"

(* The order was placed, or a line says why not: one that says that there  *)
(* is a slot again does not come after it.                                 *)
LimitLast(q) ==
    \E k \in DOMAIN q : q[k].is = "limit" /\ \A j \in DOMAIN q : j > k => q[j].is # "claimed"

Answers(n) ==
    \/ \E k \in DOMAIN standing : standing[k].item = n
    \/ rejected
    \/ \E p \in Sent(packets) : p.is = "refused"
    \/ atLimit /\ \A p \in Sent(packets) : p.is # "claimed"
    \/ LimitLast(packets)

Answering == \A h \in handlers : h.at = "waits" => Answers(h.order.n)

WaitsInv ==
    \A h \in handlers : h.at = "waits" =>
        /\ mode = "Bazaar" /\ step = "Confirm"
        /\ h.window = current /\ current = opened /\ window = NoWindow

ToldOK ==
    told \in Seq(Placed) /\ \A k \in DOMAIN told : \E j \in DOMAIN standing : told[k] = standing[j]

ToldInv == PacketsInv /\ FlowInv /\ WaitsInv /\ Answering

(* What is sent, and its order *)
LEMMA SentFacts ==
    ASSUME NEW q \in Seq(Packets), NEW e \in Packets
    PROVE  /\ Sent(Append(q, e)) = Sent(q) \cup {e}
           /\ FirstOf(q) /\ (~ Deep(e) \/ \A p \in Sent(q) : p.is \notin {"open", "sign"})
                 => FirstOf(Append(q, e))
           /\ LimitLast(q) /\ e.is # "claimed" => LimitLast(Append(q, e))
           /\ e.is = "limit" => LimitLast(Append(q, e))
<1>1. /\ Append(q, e) \in Seq(Packets) /\ Len(Append(q, e)) = Len(q) + 1
      /\ \A k \in 1 .. Len(q) : Append(q, e)[k] = q[k]
      /\ Append(q, e)[Len(q) + 1] = e
  BY AppendProperties
<1>2. DOMAIN q = 1 .. Len(q) /\ DOMAIN Append(q, e) = 1 .. Len(q) + 1 /\ Len(q) \in Nat
  BY <1>1, LenProperties
<1> DEFINE a == Append(q, e)
<1>3. /\ DOMAIN a = (DOMAIN q) \cup {Len(q) + 1}
      /\ \A k \in DOMAIN q : a[k] = q[k] /\ k \in Nat /\ k < Len(q) + 1
      /\ a[Len(q) + 1] = e
  BY <1>1, <1>2
<1> HIDE DEF a
<1>4. Sent(a) = Sent(q) \cup {e}
  BY <1>3 DEF Sent
<1>5. FirstOf(q) /\ (~ Deep(e) \/ \A p \in Sent(q) : p.is \notin {"open", "sign"}) => FirstOf(a)
  <2> SUFFICES ASSUME FirstOf(q), ~ Deep(e) \/ \A p \in Sent(q) : p.is \notin {"open", "sign"},
                      NEW j \in DOMAIN a, NEW k \in DOMAIN a, j < k, Deep(a[k])
               PROVE  a[j].is \notin {"open", "sign"}
    BY DEF FirstOf
  <2>1. j \in DOMAIN q /\ a[j] = q[j]
    BY <1>2, <1>3
  <2>2. CASE k \in DOMAIN q
    BY <1>3, <2>1, <2>2 DEF FirstOf
  <2>3. CASE k = Len(q) + 1
    BY <1>3, <2>1, <2>3 DEF Sent
  <2> QED  BY <1>3, <2>2, <2>3
<1>6. LimitLast(q) /\ e.is # "claimed" => LimitLast(a)
  BY <1>3 DEF LimitLast
<1>7. e.is = "limit" => LimitLast(a)
  <2>1. \A j \in DOMAIN a : ~ (j > Len(q) + 1)
    BY <1>2, <1>3
  <2> QED  BY <1>3, <2>1 DEF LimitLast
<1> QED  BY <1>4, <1>5, <1>6, <1>7 DEF a

(* ... and what is left of it when the first is taken *)
LEMMA TakenFacts ==
    ASSUME NEW q \in Seq(Packets), q # <<>>
    PROVE  /\ Tail(q) \in Seq(Packets) /\ Head(q) \in Packets
           /\ Sent(q) = {Head(q)} \cup Sent(Tail(q))
           /\ FirstOf(q) => FirstOf(Tail(q))
           /\ FirstOf(q) /\ Head(q).is \in {"open", "sign"} => \A p \in Sent(Tail(q)) : ~ Deep(p)
           /\ LimitLast(q) => \/ LimitLast(Tail(q))
                              \/ Head(q).is = "limit" /\ \A p \in Sent(Tail(q)) : p.is # "claimed"
<1>1. /\ Tail(q) \in Seq(Packets) /\ Head(q) \in Packets /\ Head(q) = q[1]
      /\ Len(q) \in Nat /\ Len(q) > 0 /\ Len(Tail(q)) = Len(q) - 1
      /\ \A k \in 1 .. Len(Tail(q)) : Tail(q)[k] = q[k + 1]
  BY HeadTailProperties, EmptySeq, LenProperties
<1>2. DOMAIN q = 1 .. Len(q) /\ DOMAIN Tail(q) = 1 .. Len(q) - 1
  BY <1>1, LenProperties
<1> DEFINE t == Tail(q)
<1>3. /\ 1 \in DOMAIN q /\ \A k \in DOMAIN t : k \in Nat /\ k + 1 \in DOMAIN q /\ 1 < k + 1 /\ t[k] = q[k + 1]
      /\ \A k \in DOMAIN q : k \in Nat /\ (k = 1 \/ (k - 1 \in DOMAIN t /\ t[k - 1] = q[k] /\ 1 < k))
  BY <1>1, <1>2
<1> HIDE DEF t
<1>4. Sent(q) = {q[1]} \cup Sent(t)
  <2>1. Sent(t) \subseteq Sent(q) /\ q[1] \in Sent(q)
    BY <1>3 DEF Sent
  <2>2. ASSUME NEW p \in Sent(q)  PROVE p \in {q[1]} \cup Sent(t)
    <3>1. PICK k \in DOMAIN q : p = q[k]
      BY DEF Sent
    <3> QED  BY <1>3, <3>1 DEF Sent
  <2> QED  BY <2>1, <2>2
<1>5. FirstOf(q) => FirstOf(t)
  BY <1>3 DEF FirstOf
<1>6. FirstOf(q) /\ q[1].is \in {"open", "sign"} => \A p \in Sent(t) : ~ Deep(p)
  BY <1>3 DEF FirstOf, Sent
<1>7. LimitLast(q) => LimitLast(t) \/ (q[1].is = "limit" /\ \A p \in Sent(t) : p.is # "claimed")
  <2> SUFFICES ASSUME NEW k \in DOMAIN q, q[k].is = "limit",
                      \A j \in DOMAIN q : j > k => q[j].is # "claimed"
               PROVE  LimitLast(t) \/ (q[1].is = "limit" /\ \A p \in Sent(t) : p.is # "claimed")
    BY DEF LimitLast
  <2>1. \A j \in DOMAIN t : j + 1 > k => t[j].is # "claimed"
    BY <1>3
  <2>2. CASE k = 1
    <3>1. \A j \in DOMAIN t : t[j].is # "claimed"
      BY <1>3, <2>1, <2>2
    <3> QED  BY <2>2, <3>1 DEF Sent
  <2>3. CASE k # 1
    <3>1. k - 1 \in DOMAIN t /\ t[k - 1].is = "limit"
      BY <1>3, <2>3
    <3>2. \A j \in DOMAIN t : j > k - 1 => t[j].is # "claimed"
      BY <1>3, <2>1
    <3> QED  BY <3>1, <3>2 DEF LimitLast
  <2> QED  BY <2>2, <2>3
<1> QED  BY <1>1, <1>4, <1>5, <1>6, <1>7 DEF t

(* The packets and the pages that are on their way *)
LEMMA SentPlaces ==
    ASSUME TradeTypes, Pages
    PROVE  \A p \in Sent(packets) :
              /\ p \in Packets
              /\ Opened(p) => /\ current < p.id /\ p.id <= opened
                              /\ p.id = window.id => p.kind = window.kind
<1>1. packets \in Seq(Packets)
  BY DEF TradeTypes
<1>2. \A k \in DOMAIN packets : packets[k] \in Packets
  BY <1>1, ElementOfSeq, LenProperties
<1> QED  BY <1>2 DEF Sent, Pages

(* Nobody is at the newest page but the one who waits for the answer. *)
LEMMA WaitsAlone ==
    ASSUME TradeTypes, Pages, WaitsInv, NEW h \in handlers, h.at = "waits"
    PROVE  /\ Present = {h} /\ window.id = 0 /\ window.kind = "none"
           /\ \A p \in Sent(packets) : ~ Opened(p)
<1>1. h.window = current /\ current = opened /\ window = NoWindow
  BY DEF WaitsInv
<1>2. Present = {h}
  BY <1>1, Places DEF Present
<1>3. \A p \in Sent(packets) : ~ Opened(p)
  BY <1>1, SentPlaces, Places DEF Packets
<1> QED  BY <1>1, <1>2, <1>3, Places

(* A line is taken or sent. *)
LinesOnly ==
    \/ packets' = packets
    \/ packets # <<>> /\ packets' = Tail(packets) /\ ~ Opened(Head(packets))
    \/ \E p \in Packets : p.is \in {"limit", "refused", "claimed"} /\ packets' = Append(packets, p)

(* ... which changes nothing but the lines. *)
LEMMA Lines ==
    ASSUME packets \in Seq(Packets), LinesOnly
    PROVE  /\ FirstOf(packets) => FirstOf(packets')
           /\ \A p \in Sent(packets') : p \in Sent(packets) \/ p.is \in {"limit", "refused", "claimed"}
           /\ \A p \in Sent(packets) : Opened(p) => p \in Sent(packets')
<1>1. CASE packets' = packets
  BY <1>1
<1>2. CASE packets # <<>> /\ packets' = Tail(packets) /\ ~ Opened(Head(packets))
  BY <1>2, TakenFacts
<1>3. ASSUME NEW p \in Packets, p.is \in {"limit", "refused", "claimed"}, packets' = Append(packets, p)
      PROVE  /\ FirstOf(packets) => FirstOf(packets')
             /\ Sent(packets') = Sent(packets) \cup {p}
  <2>1. ~ Deep(p)
    BY <1>3 DEF Deep, Opened
  <2> QED  BY <1>3, <2>1, SentFacts
<1> QED  BY <1>1, <1>2, <1>3 DEF LinesOnly

(* A flow is over: nobody is at its page. *)
LEMMA FlowIsOver ==
    ASSUME TradeTypes, Pages, PacketsInv, FlowInv, WaitsInv, LinesOnly, mode' = "Idle",
           UNCHANGED <<current, opened>>, window' \in {window, NoWindow},
           handlers' \subseteq handlers, Present' = {}
    PROVE  ToldInv'
<1>1. /\ FirstOf(packets')
      /\ \A p \in Sent(packets') : p \in Sent(packets) \/ p.is \in {"limit", "refused", "claimed"}
      /\ \A p \in Sent(packets) : Opened(p) => p \in Sent(packets')
  BY Lines DEF TradeTypes, PacketsInv
<1>2. PacketsInv'
  <2>1. \A p \in Sent(packets') : p.is = "sign" => window'.id = 0 \/ window'.id > current'
    BY <1>1, Places DEF PacketsInv
  <2>2. current' < opened' => \E p \in Sent(packets') : Opened(p) /\ p.id = opened'
    BY <1>1 DEF PacketsInv
  <2> QED  BY <1>1, <2>1, <2>2 DEF PacketsInv
<1>3. FlowInv'
  BY Places DEF FlowInv
<1>4. \A h \in handlers' : h.at # "waits"
  <2> SUFFICES ASSUME NEW h \in handlers', h.at = "waits"  PROVE FALSE
    OBVIOUS
  <2>1. h \in Present'
    BY DEF WaitsInv, Present
  <2> QED  BY <2>1
<1> QED  BY <1>2, <1>3, <1>4 DEF ToldInv, WaitsInv, Answering

(* A step that moves no flow *)
LEMMA FlowsStay ==
    ASSUME TradeTypes, Pages, PacketsInv, FlowInv, WaitsInv, Answering', LinesOnly,
           UNCHANGED <<current, opened, window, mode>>, mode = "Bazaar" => step' = step,
           handlers' \subseteq handlers, \A h \in handlers : h.at = "waits" => h \in handlers'
    PROVE  ToldInv'
<1>1. /\ FirstOf(packets')
      /\ \A p \in Sent(packets') : p \in Sent(packets) \/ p.is \in {"limit", "refused", "claimed"}
      /\ \A p \in Sent(packets) : Opened(p) => p \in Sent(packets')
  BY Lines DEF TradeTypes, PacketsInv
<1>2. Present' \subseteq Present
  BY DEF Present
<1>3. PacketsInv'
  <2>1. ASSUME NEW p \in Sent(packets')
        PROVE  /\ Deep(p) => Present' = {}
               /\ p.is = "sign" => window'.id = 0 \/ window'.id > current'
               /\ mode' = "Bazaar" /\ p.is = "sign" =>
                     window'.kind = p.kind \/ (window'.kind \notin Signs /\ step' \in Early)
               /\ mode' = "Bazaar" /\ Opened(p) /\ p.kind \in Deeper /\ p.id # window'.id =>
                     step' \in Early
    <3>1. CASE p \in Sent(packets)
      BY <3>1, <1>2 DEF PacketsInv
    <3>2. CASE p.is \in {"limit", "refused", "claimed"}
      BY <3>2 DEF Deep, Opened
    <3> QED  BY <1>1, <3>1, <3>2
  <2>2. current' < opened' => \E p \in Sent(packets') : Opened(p) /\ p.id = opened'
    BY <1>1 DEF PacketsInv
  <2> QED  BY <1>1, <2>1, <2>2 DEF PacketsInv
<1>4. FlowInv'
  <2>1. \A h \in Present' :
          /\ h.at \in {"Bazaar", "searches", "confirms"} => mode' = "Bazaar"
          /\ h.at = "SellingInventoryBz" => mode' = "SellingInventoryBz"
          /\ h.at = "confirms" =>
                window'.id = h.window /\ window'.kind = "confirm" /\ step' = "Confirm"
          /\ mode' = "Bazaar" /\ h.kind \in Deeper /\ h.window # window'.id /\ h.at # "waits" =>
                step' \in Early /\ (h.at = "Bazaar" => h.step \in Early)
    BY <1>2 DEF FlowInv
  <2> QED  BY <2>1 DEF FlowInv
<1>5. WaitsInv'
  BY DEF WaitsInv
<1> QED  BY <1>3, <1>4, <1>5 DEF ToldInv

(* The answer stays the answer as long as nothing is said. *)
LEMMA AnswersStay ==
    ASSUME Answering, handlers' \subseteq handlers,
           UNCHANGED <<standing, packets, atLimit, rejected>>
    PROVE  Answering'
BY DEF Answering, Answers

(* ... and when a line comes to the bot *)
LEMMA AnswersHeard ==
    ASSUME TradeTypes, Answering, handlers' = handlers, standing' = standing,
           packets # <<>>, packets' = Tail(packets),
           rejected \/ Head(packets).is = "refused" => rejected',
           atLimit' = IF Head(packets).is = "limit" THEN TRUE
                      ELSE IF Head(packets).is = "claimed" THEN FALSE ELSE atLimit
    PROVE  Answering'
<1>1. packets \in Seq(Packets)
  BY DEF TradeTypes
<1>2. SUFFICES ASSUME NEW h \in handlers, h.at = "waits"  PROVE Answers(h.order.n)'
  BY DEF Answering
<1> DEFINE n == h.order.n
<1>3. Answers(n)
  BY <1>2 DEF Answering
<1>4. /\ Sent(packets) = {Head(packets)} \cup Sent(packets')
      /\ LimitLast(packets) => \/ LimitLast(packets')
                               \/ /\ Head(packets).is = "limit"
                                  /\ \A p \in Sent(packets') : p.is # "claimed"
  BY <1>1, TakenFacts
<1>5. CASE \E k \in DOMAIN standing : standing[k].item = n
  BY <1>5 DEF Answers
<1>6. CASE rejected \/ \E p \in Sent(packets) : p.is = "refused"
  BY <1>4, <1>6 DEF Answers
<1>7. CASE atLimit /\ \A p \in Sent(packets) : p.is # "claimed"
  BY <1>4, <1>7 DEF Answers
<1>8. CASE LimitLast(packets)
  BY <1>4, <1>8 DEF Answers
<1> QED  BY <1>3, <1>5, <1>6, <1>7, <1>8 DEF Answers

(* The number of the next page *)
LEMMA Numbers == \A n \in Nat : n + 1 \in Nat /\ ~ (n < n)
OBVIOUS

(* A flow begins: none runs. *)
LEMMA FlowBegins ==
    ASSUME TradeTypes, Pages, PacketsInv, FlowInv, WaitsInv, mode = "Idle",
           NEW kind \in {"search", "item"}, NEW item, OpensAfter(packets, kind, item),
           UNCHANGED <<current, handlers>>, step' = "Initial",
           mode' \in {"Bazaar", "SellingInventoryBz"}
    PROVE  ToldInv'
<1> DEFINE p == [is |-> "open", id |-> opened + 1, kind |-> kind]
<1>1. /\ p \in Packets /\ ~ Deep(p) /\ p.is = "open" /\ p.id = opened + 1
      /\ packets' = Append(packets, p) /\ packets \in Seq(Packets)
  <2>1. opened + 1 \in Nat /\ kind \in Kinds
    <3>1. opened \in Nat
      BY DEF TradeTypes
    <3>2. kind \in Kinds
      BY DEF Kinds
    <3> QED  BY <3>1, <3>2, Numbers
  <2>2. p \in Packets /\ p.is = "open" /\ p.id = opened + 1 /\ p.kind = kind
    BY <2>1 DEF Packets
  <2>3. packets' = Append(packets, p) /\ packets \in Seq(Packets)
    BY DEF OpensAfter, TradeTypes
  <2> HIDE DEF p
  <2> QED  BY <2>2, <2>3 DEF Deep, Deeper, Opened
<1>2. /\ opened' = opened + 1 /\ window'.id = opened + 1 /\ window'.kind = kind
  BY PageOpens
<1> HIDE DEF p
<1>3. FirstOf(packets') /\ Sent(packets') = Sent(packets) \cup {p}
  BY <1>1, SentFacts DEF PacketsInv
<1>4. Present' = Present
  BY DEF Present
<1>5. PacketsInv'
  <2>1. ASSUME NEW q \in Sent(packets')
        PROVE  /\ Deep(q) => Present' = {}
               /\ q.is = "sign" => window'.id = 0 \/ window'.id > current'
               /\ mode' = "Bazaar" /\ q.is = "sign" =>
                     window'.kind = q.kind \/ (window'.kind \notin Signs /\ step' \in Early)
               /\ mode' = "Bazaar" /\ Opened(q) /\ q.kind \in Deeper /\ q.id # window'.id =>
                     step' \in Early
    <3>1. window'.id > current' /\ window'.kind \notin Signs /\ step' \in Early
      <4>1. current' = current /\ opened + 1 > current
        BY Places
      <4> QED  BY <1>2, <4>1 DEF Signs, Early
    <3> QED  BY <1>1, <1>3, <1>4, <3>1 DEF PacketsInv
  <2>2. \E q \in Sent(packets') : Opened(q) /\ q.id = opened'
    BY <1>1, <1>2, <1>3 DEF Opened
  <2> QED  BY <1>3, <2>1, <2>2 DEF PacketsInv
<1>6. FlowInv'
  <2>1. \A h \in Present : h.at = "starts"
    BY DEF FlowInv, WaitsInv, Present
  <2> QED  BY <1>2, <1>4, <2>1 DEF FlowInv, Early, Forms
<1>7. \A h \in handlers' : h.at # "waits"
  BY DEF WaitsInv
<1> QED  BY <1>5, <1>6, <1>7 DEF ToldInv, WaitsInv, Answering

(* A page comes to the bot: it is the only one somebody is at. *)
LEMMA PageIsReached ==
    ASSUME TradeTypes, Pages, PacketsInv, FlowInv, WaitsInv, OnOpenScreen
    PROVE  ToldInv'
<1>1. /\ packets # <<>> /\ packets \in Seq(Packets) /\ packets' = Tail(packets)
      /\ Head(packets).is = "open" /\ UNCHANGED <<window, opened, mode, step>>
      /\ current' = Head(packets).id
  BY DEF OnOpenScreen, Take, Done, TradeTypes, bazaarVars
<1> DEFINE p == Head(packets)
<1>2. /\ p \in Packets /\ p \in Sent(packets) /\ Sent(packets) = {p} \cup Sent(packets')
      /\ FirstOf(packets') /\ \A q \in Sent(packets') : ~ Deep(q)
  BY <1>1, TakenFacts DEF PacketsInv
<1>3. current < p.id /\ p.id <= opened /\ p.id \in Nat /\ (p.id = window.id => p.kind = window.kind)
  BY <1>1, <1>2, SentPlaces DEF Opened, Packets
<1> DEFINE new == [window |-> p.id, kind |-> p.kind, at |-> "starts", step |-> "none",
                   order |-> order]
<1>4. handlers' = handlers \cup {new} /\ new.window = p.id /\ new.kind = p.kind /\ new.at = "starts"
  BY DEF OnOpenScreen
<1> HIDE DEF new
<1>5. Present' = {new}
  BY <1>1, <1>3, <1>4, Places DEF Present
<1>6. \A h \in handlers : h.at # "waits"
  BY <1>1, <1>2, WaitsAlone DEF Opened
<1>7. PacketsInv'
  <2>1. \A q \in Sent(packets') : q.is # "sign" /\ ~ (Opened(q) /\ q.kind \in Deeper)
    BY <1>2 DEF Deep
  <2>2. current' < opened' => \E q \in Sent(packets') : Opened(q) /\ q.id = opened'
    <3>1. ASSUME p.id # opened  PROVE \E q \in Sent(packets') : Opened(q) /\ q.id = opened
      BY <1>2, <1>3, <3>1, Places DEF PacketsInv
    <3> QED  BY <1>1, <1>3, <3>1, Places
  <2> QED  BY <1>2, <2>1, <2>2 DEF PacketsInv
<1>8. FlowInv'
  <2>1. mode = "Bazaar" /\ p.kind \in Deeper /\ p.id # window.id => step \in Early
    BY <1>1, <1>2 DEF PacketsInv, Opened
  <2> QED  BY <1>1, <1>4, <1>5, <1>6, <2>1 DEF FlowInv
<1>9. \A h \in handlers' : h.at # "waits"
  BY <1>4, <1>6
<1> QED  BY <1>7, <1>8, <1>9 DEF ToldInv, WaitsInv, Answering

(* At one's own page nothing else is on its way, and nobody waits. *)
LEMMA AtOwnPage ==
    ASSUME TradeTypes, Pages, PacketsInv, WaitsInv, NEW h \in handlers, h.window = current,
           window.id = current
    PROVE  /\ current = opened /\ h.kind = window.kind
           /\ \A p \in Sent(packets) : p.is \notin {"open", "sign"} /\ ~ Deep(p)
           /\ \A g \in handlers : g.at # "waits"
<1>1. current = opened /\ h.kind = window.kind /\ h.window \in 1 .. current
  BY Places
<1>2. h \in Present
  BY DEF Present
<1>3. \A p \in Sent(packets) : ~ Deep(p)
  BY <1>2 DEF PacketsInv
<1>4. \A p \in Sent(packets) : ~ Opened(p)
  BY <1>1, SentPlaces, Places DEF Packets
<1>5. \A g \in handlers : g.at # "waits"
  BY <1>1, WaitsAlone, Places
<1> QED  BY <1>1, <1>3, <1>4, <1>5 DEF Deep, Opened

(* The flow goes on to a page or a sign of its own. *)
LEMMA NextIsOwn ==
    ASSUME TradeTypes, Pages, FlowInv, current = opened, current' = current,
           NEW rest \in Seq(Packets), FirstOf(rest),
           \A q \in Sent(rest) : q.is \notin {"open", "sign"} /\ ~ Deep(q),
           handlers' \subseteq handlers, Present' = {}, \A g \in handlers : g.at # "waits",
           NEW p \in Packets, packets' = Append(rest, p), window'.kind = p.kind,
           \/ /\ p.is = "open" /\ p.id = opened' /\ opened' = opened + 1 /\ window'.id = opened'
              /\ p.kind \notin Signs
           \/ p.is = "sign" /\ opened' = opened /\ window'.id = 0,
           mode' \in {"Bazaar", "SellingInventoryBz"},
           mode' = "Bazaar" =>
              /\ p.kind \in Forms
              /\ step' = "SetAmount" => p.kind \in {"amount sign", "price"}
              /\ step' = "SetPrice" => p.kind \in {"price sign", "confirm"}
    PROVE  ToldInv'
<1>1. FirstOf(packets') /\ Sent(packets') = Sent(rest) \cup {p}
  BY SentFacts
<1>2. PacketsInv'
  <2>1. ASSUME NEW q \in Sent(packets')
        PROVE  /\ Deep(q) => Present' = {}
               /\ q.is = "sign" => window'.id = 0 \/ window'.id > current'
               /\ mode' = "Bazaar" /\ q.is = "sign" =>
                     window'.kind = q.kind \/ (window'.kind \notin Signs /\ step' \in Early)
               /\ mode' = "Bazaar" /\ Opened(q) /\ q.kind \in Deeper /\ q.id # window'.id =>
                     step' \in Early
    <3>1. CASE q = p
      BY <3>1 DEF Opened
    <3>2. CASE q \in Sent(rest)
      BY <3>2 DEF Opened, Deep
    <3> QED  BY <1>1, <3>1, <3>2
  <2>2. current' < opened' => \E q \in Sent(packets') : Opened(q) /\ q.id = opened'
    <3>1. CASE p.is = "open" /\ p.id = opened'
      BY <3>1, <1>1 DEF Opened
    <3>2. CASE opened' = opened
      <4>1. opened \in Nat
        BY DEF TradeTypes
      <4> QED  BY <3>2, <4>1, Numbers
    <3> QED  BY <3>1, <3>2
  <2> QED  BY <1>1, <2>1, <2>2 DEF PacketsInv
<1>3. FlowInv'
  <2>1. p.is = "sign" => p.kind \in Signs
    BY DEF Packets
  <2> QED  BY <2>1 DEF FlowInv
<1>4. \A g \in handlers' : g.at # "waits"
  OBVIOUS
<1> QED  BY <1>2, <1>3, <1>4 DEF ToldInv, WaitsInv, Answering

(* A sign is written if it is the order's own; another one is let be. *)
LEMMA SignIsHeard ==
    ASSUME TradeTypes, Pages, OrdersInv, PacketsInv, FlowInv, WaitsInv, Answering, OnSign
    PROVE  ToldInv'
<1> DEFINE p == Head(packets)
<1>1. /\ packets # <<>> /\ packets \in Seq(Packets) /\ p.is = "sign"
      /\ UNCHANGED <<mode, order, handlers, current, begun, atLimit, rejected, standing>>
  BY DEF OnSign, Take, TradeTypes, taskVars, flagVars, Writes, bazaarVars
<1>2. /\ p \in Packets /\ p.kind \in Signs /\ Sent(packets) = {p} \cup Sent(Tail(packets))
      /\ Tail(packets) \in Seq(Packets) /\ FirstOf(Tail(packets))
      /\ \A q \in Sent(Tail(packets)) : ~ Deep(q)
  BY <1>1, TakenFacts DEF PacketsInv, Packets
<1>3. Present = {} /\ Present' = {}
  BY <1>1, <1>2 DEF PacketsInv, Deep, Present
<1>4. \A h \in handlers : h.at # "waits"
  BY <1>3 DEF WaitsInv, Present
<1>5. mode = "Bazaar" => window.kind = p.kind \/ step \in Early
  BY <1>1, <1>2 DEF PacketsInv
<1>6. CASE Done /\ UNCHANGED <<bazaarVars, step>>
  <2>1. LinesOnly
    BY <1>1, <1>6 DEF LinesOnly, Done, Opened
  <2>2. Answering'
    BY <1>1, <1>4 DEF Answering
  <2> QED  BY <1>1, <1>6, <2>1, <2>2, FlowsStay DEF bazaarVars
<1>7. CASE ~ (Done /\ UNCHANGED <<bazaarVars, step>>)
  <2>1. mode = "Bazaar" /\ step \in {"SetAmount", "SetPrice", "SelectOrderType"}
    BY <1>7 DEF OnSign
  <2>2. window.kind = p.kind
    BY <1>5, <2>1 DEF Early
  <2>3. current = opened
    BY <1>2, <2>2 DEF OrdersInv, SignHasItsStep
  <2>4. \A q \in Sent(Tail(packets)) : q.is \notin {"open", "sign"}
    <3>1. \A q \in Sent(packets) : ~ Opened(q)
      BY <2>3, SentPlaces, Places DEF Packets
    <3> QED  BY <3>1, <1>2 DEF Opened, Deep
  <2>5. \/ /\ p.kind = "amount sign" /\ step' = "SetAmount"
           /\ OpensAfter(Tail(packets), "price", window.item)
        \/ /\ p.kind = "price sign" /\ step' = "SetPrice"
           /\ OpensAfter(Tail(packets), "confirm", window.item)
    <3>1. CASE step = "SetAmount"
      <4>1. p.kind = "amount sign"
        BY <3>1, <2>1, <2>2, <1>2 DEF OrdersInv, SignHasItsStep, Signs
      <4> QED  BY <3>1, <4>1, <2>1, <2>2, <1>7 DEF OnSign, Writes
    <3>2. CASE step \in {"SetPrice", "SelectOrderType"}
      <4>1. p.kind = "price sign"
        BY <3>2, <2>1, <2>2, <1>2 DEF OrdersInv, SignHasItsStep, Signs
      <4> QED  BY <3>2, <4>1, <2>1, <2>2, <1>7 DEF OnSign, Writes
    <3> QED  BY <2>1, <3>1, <3>2
  <2>6. PICK kind \in {"price", "confirm"} :
           /\ OpensAfter(Tail(packets), kind, window.item)
           /\ step' = "SetAmount" => kind = "price"
           /\ step' = "SetPrice" => kind = "confirm"
    BY <2>5
  <2> DEFINE new == [is |-> "open", id |-> opened + 1, kind |-> kind]
  <2>7. opened + 1 \in Nat
    BY Places
  <2>8. kind \in Kinds /\ kind \notin Signs /\ kind \in Forms
    BY DEF Kinds, Signs, Forms
  <2>9. new \in Packets /\ new.is = "open" /\ new.id = opened + 1 /\ new.kind = kind
    BY <2>7, <2>8 DEF Packets
  <2>10. /\ packets' = Append(Tail(packets), new) /\ opened' = opened + 1
         /\ window'.id = opened + 1 /\ window'.kind = kind
    BY <2>6, PageOpens DEF OpensAfter
  <2> HIDE DEF new
  <2> QED  BY <1>1, <1>2, <1>3, <1>4, <2>1, <2>3, <2>4, <2>6, <2>8, <2>9, <2>10, NextIsOwn
<1> QED  BY <1>6, <1>7

(* A click on the newest page, which is one's own: what it asks for is all *)
(* that is on its way.                                                     *)
LEMMA OwnClick ==
    ASSUME TradeTypes, Pages, PacketsInv, FlowInv, WaitsInv, NEW h \in handlers,
           h.window = current, window.id = current, Ends(h), current' = current,
           NEW kind \in Kinds, NEW item,
           (kind \notin Signs /\ Opens(kind, item)) \/ (kind \in Signs /\ SignOpens(kind)),
           mode' \in {"Bazaar", "SellingInventoryBz"},
           mode' = "Bazaar" =>
              /\ kind \in Forms
              /\ step' = "SetAmount" => kind \in {"amount sign", "price"}
              /\ step' = "SetPrice" => kind \in {"price sign", "confirm"}
    PROVE  ToldInv'
<1>1. /\ current = opened /\ \A q \in Sent(packets) : q.is \notin {"open", "sign"} /\ ~ Deep(q)
      /\ \A g \in handlers : g.at # "waits"
  BY AtOwnPage
<1>2. handlers' \subseteq handlers /\ Present' = {}
  BY Places DEF Ends, Present
<1>3. packets \in Seq(Packets) /\ FirstOf(packets)
  BY DEF TradeTypes, PacketsInv
<1>4. CASE kind \notin Signs /\ OpensAfter(packets, kind, item)
  <2> DEFINE new == [is |-> "open", id |-> opened + 1, kind |-> kind]
  <2>1. opened + 1 \in Nat
    BY Places, Numbers
  <2>2. new \in Packets /\ new.is = "open" /\ new.id = opened + 1 /\ new.kind = kind
    BY <2>1 DEF Packets
  <2>3. /\ packets' = Append(packets, new) /\ opened' = opened + 1
        /\ window'.id = opened + 1 /\ window'.kind = kind
    BY <1>4, PageOpens DEF OpensAfter
  <2> HIDE DEF new
  <2> QED  BY <1>1, <1>2, <1>3, <1>4, <2>2, <2>3, NextIsOwn
<1>5. CASE kind \in Signs /\ SignOpens(kind)
  <2> DEFINE new == [is |-> "sign", id |-> 0, kind |-> kind]
  <2>2. new \in Packets /\ new.is = "sign" /\ new.kind = kind
    BY <1>5 DEF Packets
  <2>3. packets' = Append(packets, new) /\ opened' = opened
    BY <1>5 DEF SignOpens
  <2>4. window'.id = 0 /\ window'.kind = kind
    BY <1>5 DEF SignOpens, NoWindow
  <2> HIDE DEF new
  <2> QED  BY <1>1, <1>2, <1>3, <2>2, <2>3, <2>4, NextIsOwn
<1> QED  BY <1>4, <1>5 DEF Opens

(* The form goes on, by its own page or, if the page is another's, nowhere *)
(* but to the type of the order, which its own page does not ask for then. *)
LEMMA FormIsOwn ==
    ASSUME TradeTypes, Pages, PacketsInv, FlowInv, WaitsInv, NEW h \in handlers, GoesOn(h)
    PROVE  ToldInv'
<1>1. /\ current' = current /\ mode' = mode /\ Ends(h) /\ h.window = current /\ h.at = "Bazaar"
      /\ h \in Present
  BY HandlerEffect DEF Handler, GoesOn, Superseded, Present
<1>2. mode = "Bazaar" /\ mode' = "Bazaar"
  BY <1>1 DEF FlowInv
<1>3. CASE window.id = h.window
  <2>1. h.order.buy \in BOOLEAN /\ {"amount", "price", "amount sign", "price sign"} \subseteq Forms \cap Kinds
    BY DEF TradeTypes, Handlers, Orders, Forms, Kinds
  <2>2. ASSUME step' = "SelectOrderType", NEW buy \in BOOLEAN, CreatesOrder(buy)  PROVE ToldInv'
    <3>1. CASE Opens("amount", window.item)
      BY <1>1, <1>2, <1>3, <2>1, <2>2, <3>1, OwnClick DEF Signs
    <3>2. CASE Opens("price", window.item)
      BY <1>1, <1>2, <1>3, <2>1, <2>2, <3>2, OwnClick DEF Signs
    <3>3. CASE SignOpens("price sign")
      BY <1>1, <1>2, <1>3, <2>1, <2>2, <3>3, OwnClick DEF Signs
    <3> QED  BY <2>2, <3>1, <3>2, <3>3 DEF CreatesOrder
  <2>3. ASSUME step' = "SetAmount", SignOpens("amount sign")  PROVE ToldInv'
    BY <1>1, <1>2, <1>3, <2>1, <2>3, OwnClick DEF Signs
  <2>4. ASSUME step' = "SetPrice", SignOpens("price sign")  PROVE ToldInv'
    BY <1>1, <1>2, <1>3, <2>1, <2>4, OwnClick DEF Signs
  <2> QED  BY <1>3, <2>1, <2>2, <2>3, <2>4 DEF GoesOn, Click
<1>4. CASE window.id # h.window
  <2>1. h.step \notin {"SelectOrderType", "SetAmount"} \/ h.kind \notin Deeper
    BY <1>1, <1>2, <1>4 DEF FlowInv, Early
  <2>2. step' = "SelectOrderType"
    BY <2>1 DEF GoesOn, Deeper
  <2>3. UNCHANGED <<window, opened, packets>>
    BY <1>4 DEF GoesOn, Click, NoEffect, bazaarVars
  <2>4. \A p \in Sent(packets) : ~ Deep(p)
    BY <1>1 DEF PacketsInv
  <2>5. handlers' \subseteq handlers /\ Present' = {}
    BY <1>1, Places DEF Ends, Present
  <2>6. \A g \in handlers : g.at # "waits"
    BY <1>1, WaitsAlone
  <2>7. PacketsInv'
    <3>1. \A p \in Sent(packets) : p.is # "sign" /\ ~ (Opened(p) /\ p.kind \in Deeper)
      BY <2>4 DEF Deep
    <3> QED  BY <1>1, <2>3, <2>5, <3>1 DEF PacketsInv
  <2>8. FlowInv'
    BY <1>1, <1>2, <2>2, <2>3, <2>5, <2>6 DEF FlowInv
  <2> QED  BY <2>5, <2>6, <2>7, <2>8 DEF ToldInv, WaitsInv, Answering
<1> QED  BY <1>3, <1>4

(* A handler starts: at SetPrice only the page to confirm can be the       *)
(* newest one.                                                             *)
LEMMA StartIsOwn ==
    ASSUME TradeTypes, Pages, OrdersInv, PacketsInv, FlowInv, WaitsInv, Answering,
           NEW h \in handlers, Starts(h)
    PROVE  ToldInv'
<1>1. /\ UNCHANGED <<window, opened, packets, mode, order, current, standing, atLimit>>
      /\ h.at = "starts"
  BY DEF Starts, NoEffect, bazaarVars, handlerUnchanged
<1>2. h \in Handlers /\ mode \in {"Idle", "Bazaar", "SellingInventoryBz"}
  BY DEF TradeTypes, FlowInv
<1>3. mode \in Flow => /\ Begin(h) \in Handlers /\ Begin(h).window = h.window
                       /\ Begin(h).kind = h.kind /\ Begin(h).at = mode
                       /\ mode = "Bazaar" => Begin(h).step = step
  BY <1>2 DEF Begin, Handlers, TradeTypes
<1>4. \A at \in {"confirms", "searches"} : mode \in Flow =>
         LET f == [Begin(h) EXCEPT !.at = at]
         IN  f.window = h.window /\ f.kind = h.kind /\ f.at = at
  BY <1>3 DEF Handlers
<1>5. \A g \in handlers : g.window = h.window => g = h
  BY Places
<1>6. CASE Ends(h) /\ UNCHANGED <<step, rejected>>
  <2>1. handlers' \subseteq handlers /\ \A g \in handlers : g.at = "waits" => g \in handlers'
    BY <1>1, <1>6 DEF Ends
  <2>2. LinesOnly /\ Answering'
    BY <1>1, <1>6, <2>1, AnswersStay DEF LinesOnly
  <2> QED  BY <1>1, <1>6, <2>1, <2>2, FlowsStay
<1>7. ASSUME mode \in Flow, NEW f, handlers' = (handlers \ {h}) \cup {f},
             f.window = h.window, f.kind = h.kind,
             \/ step' = step /\ rejected' = rejected /\ f.at = mode
                /\ (mode = "Bazaar" => f.step = step)
             \/ /\ step' = "SearchResults" /\ rejected' = rejected /\ f.at = "searches"
                /\ step = "Initial" /\ mode = "Bazaar" /\ h.kind = "search"
             \/ /\ step' = "Confirm" /\ f.at = "confirms" /\ step = "SetPrice" /\ mode = "Bazaar"
      PROVE  ToldInv'
  <2>1. mode \in {"Bazaar", "SellingInventoryBz"}
    BY <1>2, <1>7 DEF Flow
  <2>2. \A g \in handlers' : g = f \/ (g \in handlers /\ g # h)
    BY <1>7
  <2>3. \A g \in Present' : (g = f /\ h \in Present) \/ (g \in Present /\ g # h)
    BY <1>1, <1>7, <2>2 DEF Present
  <2>4. Present = {} => Present' = {}
    BY <2>3
  <2>5. step \notin {"Initial", "SearchResults"} => step' \notin Early
    BY <1>7 DEF Early
  <2>6. \A g \in handlers : g.at = "waits" => g \in handlers' /\ step' = step /\ rejected' = rejected
    BY <1>1, <1>7 DEF WaitsInv
  <2>7. step \in Early => step' \in Early
    BY <1>7 DEF Early
  <2>8. PacketsInv'
    BY <1>1, <2>4, <2>7 DEF PacketsInv
  <2>9. f.at = "confirms" /\ h \in Present =>
           window.id = h.window /\ window.kind = "confirm" /\ step' = "Confirm"
    <3> SUFFICES ASSUME f.at = "confirms", h \in Present
                 PROVE  window.id = h.window /\ window.kind = "confirm" /\ step' = "Confirm"
      OBVIOUS
    <3>1. step = "SetPrice" /\ mode = "Bazaar" /\ step' = "Confirm"
      BY <1>7, <2>1
    <3>2. window.kind \in {"price sign", "confirm"}
      BY <3>1 DEF FlowInv
    <3>3. window.kind = "confirm" /\ window.id = opened
      BY <3>2 DEF FlowInv, Signs, OrdersInv, SignHasItsStep, Present
    <3>4. ~ (current < opened)
      <4> SUFFICES ASSUME current < opened  PROVE FALSE
        OBVIOUS
      <4>1. PICK p \in Sent(packets) : Opened(p) /\ p.id = opened
        BY DEF PacketsInv
      <4>2. p.kind = "confirm"
        BY <3>3, <4>1, SentPlaces
      <4> QED  BY <4>1, <4>2 DEF PacketsInv, Deep, Deeper
    <3>5. current = opened
      BY <3>4, Places
    <3> QED  BY <3>1, <3>3, <3>5 DEF Present
  <2>10. FlowInv'
    <3>1. \A g \in handlers' :
            /\ g.at \in {"starts", "Bazaar", "searches", "confirms", "waits", "SellingInventoryBz"}
            /\ g.at = "searches" => g.kind = "search"
      BY <1>7, <2>1, <2>2 DEF FlowInv
    <3>2. \A g \in Present' :
            /\ g.at \in {"Bazaar", "searches", "confirms"} => mode' = "Bazaar"
            /\ g.at = "SellingInventoryBz" => mode' = "SellingInventoryBz"
            /\ g.at = "confirms" =>
                  window'.id = g.window /\ window'.kind = "confirm" /\ step' = "Confirm"
            /\ mode' = "Bazaar" /\ g.kind \in Deeper /\ g.window # window'.id /\ g.at # "waits" =>
                  step' \in Early /\ (g.at = "Bazaar" => g.step \in Early)
      <4> SUFFICES ASSUME NEW g \in Present'
                   PROVE  /\ g.at \in {"Bazaar", "searches", "confirms"} => mode = "Bazaar"
                          /\ g.at = "SellingInventoryBz" => mode = "SellingInventoryBz"
                          /\ g.at = "confirms" =>
                                window.id = g.window /\ window.kind = "confirm" /\ step' = "Confirm"
                          /\ mode = "Bazaar" /\ g.kind \in Deeper /\ g.window # window.id
                             /\ g.at # "waits" =>
                                step' \in Early /\ (g.at = "Bazaar" => g.step \in Early)
        BY <1>1
      <4>1. CASE g \in Present
        <5>1. step = "Confirm" => step' = "Confirm"
          BY <1>7
        <5> QED  BY <4>1, <5>1, <2>7 DEF FlowInv
      <4>2. CASE g = f /\ h \in Present
        <5>1. mode = "Bazaar" /\ h.kind \in Deeper /\ h.window # window.id => step \in Early
          BY <1>1, <4>2 DEF FlowInv
        <5>2. g.at \in {"Bazaar", "searches", "confirms"} => mode = "Bazaar"
          <6>1. f.at = mode \/ mode = "Bazaar"
            BY <1>7
          <6> QED  BY <6>1, <4>2, <2>1
        <5>3. g.at = "SellingInventoryBz" => mode = "SellingInventoryBz"
          BY <1>7, <4>2
        <5>4. mode = "Bazaar" /\ g.at = "Bazaar" => g.step = step /\ step' = step
          BY <1>7, <4>2
        <5> QED  BY <1>7, <4>2, <5>1, <5>2, <5>3, <5>4, <2>7, <2>9
      <4> QED  BY <2>3, <4>1, <4>2
    <3>3. mode = "Bazaar" /\ step' \in {"SetAmount", "SetPrice"} => step' = step
      BY <1>7
    <3>4. (\E g \in handlers : g.at = "waits") => \E g \in handlers' : g.at = "waits"
      BY <2>6
    <3>5. mode' = "Bazaar" =>
            /\ step' = "SetAmount" => window'.kind \in {"amount sign", "price"}
            /\ step' = "SetPrice" => window'.kind \in {"price sign", "confirm"}
            /\ window'.kind \in Forms \cup {"search"} \/ \E g \in handlers' : g.at = "waits"
      BY <1>1, <3>3, <3>4 DEF FlowInv
    <3>6. window'.kind \notin Signs \cup {"none"} => window'.id = opened'
      BY <1>1 DEF FlowInv
    <3> QED  BY <1>1, <1>2, <3>1, <3>2, <3>5, <3>6 DEF FlowInv
  <2>11. \A g \in handlers' : g.at = "waits" => g \in handlers
    BY <2>1, <2>2, <1>7
  <2>12. WaitsInv'
    BY <1>1, <2>6, <2>11 DEF WaitsInv
  <2>13. Answering'
    BY <1>1, <2>6, <2>11 DEF Answering, Answers
  <2> QED  BY <2>8, <2>10, <2>12, <2>13 DEF ToldInv
<1>8. CASE /\ mode = "Bazaar" /\ step = "SetPrice" /\ step' = "Confirm"
           /\ handlers' = (handlers \ {h}) \cup {[Begin(h) EXCEPT !.at = "confirms"]}
  <2> DEFINE e == [Begin(h) EXCEPT !.at = "confirms"]
  <2>1. e.window = h.window /\ e.kind = h.kind /\ e.at = "confirms" /\ handlers' = (handlers \ {h}) \cup {e}
    BY <1>4, <1>8 DEF Flow
  <2> HIDE DEF e
  <2> QED  BY <2>1, <1>7, <1>8 DEF Flow
<1>9. CASE /\ mode = "Bazaar" /\ step = "Initial" /\ h.kind = "search" /\ step' = "SearchResults"
           /\ UNCHANGED rejected
           /\ handlers' = (handlers \ {h}) \cup {[Begin(h) EXCEPT !.at = "searches"]}
  <2> DEFINE e == [Begin(h) EXCEPT !.at = "searches"]
  <2>1. e.window = h.window /\ e.kind = h.kind /\ e.at = "searches" /\ handlers' = (handlers \ {h}) \cup {e}
    BY <1>4, <1>9 DEF Flow
  <2> HIDE DEF e
  <2> QED  BY <2>1, <1>7, <1>9 DEF Flow
<1>10. CASE mode \in Flow /\ handlers' = (handlers \ {h}) \cup {Begin(h)} /\ UNCHANGED <<step, rejected>>
  BY <1>3, <1>7, <1>10
<1> QED  BY <1>6, <1>8, <1>9, <1>10 DEF Starts

(* Whoever is at the newest page ends the flow. *)
LEMMA FlowQuits ==
    ASSUME TradeTypes, Pages, PacketsInv, FlowInv, WaitsInv, NEW h \in handlers,
           h.window = current, Quits(h), current' = current
    PROVE  ToldInv'
<1>1. /\ handlers' = handlers \ {h} /\ mode' = "Idle" /\ packets' = packets
      /\ opened' = opened /\ window' \in {window, NoWindow}
  BY DEF Quits, Ends, Close
<1>2. Present' = {} /\ LinesOnly
  BY <1>1, Places DEF Present, LinesOnly
<1> QED  BY <1>1, <1>2, FlowIsOver

(* A handler ends, and nothing else is done but to the step of a sale. *)
LEMMA HandlerGoes ==
    ASSUME TradeTypes, Pages, PacketsInv, FlowInv, WaitsInv, Answering, NEW h \in handlers,
           h.at # "waits", Ends(h), NoEffect, UNCHANGED <<current, mode, atLimit, rejected>>,
           mode = "Bazaar" => step' = step
    PROVE  ToldInv'
<1>1. /\ handlers' \subseteq handlers /\ \A g \in handlers : g.at = "waits" => g \in handlers'
      /\ UNCHANGED <<window, opened, packets, standing>>
  BY DEF Ends, NoEffect, bazaarVars
<1>2. Answering' /\ LinesOnly
  BY <1>1, AnswersStay DEF LinesOnly
<1> QED  BY <1>1, <1>2, FlowsStay

(* The search leads to the item. *)
LEMMA SearchIsOwn ==
    ASSUME TradeTypes, Pages, PacketsInv, FlowInv, WaitsInv, Answering,
           NEW h \in handlers, Searches(h)
    PROVE  ToldInv'
<1>1. /\ h.at = "searches" /\ h.window = current /\ h \in Present /\ h.kind = "search"
      /\ UNCHANGED <<current, step, atLimit, rejected>>
  BY DEF Searches, Superseded, Present, handlerUnchanged, FlowInv
<1>2. mode = "Bazaar"
  BY <1>1 DEF FlowInv
<1>3. CASE Ends(h) /\ mode' = mode /\ window.id = h.window /\ Leads("item")
  <2>1. window.kind = "search"
    BY <1>1, <1>3, AtOwnPage
  <2>2. step \notin {"SetAmount", "SetPrice"}
    BY <1>2, <2>1 DEF FlowInv
  <2>3. Opens("item", window.item)
    BY <1>3 DEF Leads
  <2>4. "item" \in Kinds /\ "item" \notin Signs /\ "item" \in Forms
    BY DEF Kinds, Signs, Forms
  <2> QED  BY <1>1, <1>2, <1>3, <2>2, <2>3, <2>4, OwnClick
<1>4. CASE Ends(h) /\ mode' = mode /\ NoEffect
  BY <1>1, <1>4, HandlerGoes
<1>5. CASE Quits(h)
  BY <1>1, <1>5, FlowQuits
<1> QED  BY <1>3, <1>4, <1>5 DEF Searches, Click

(* The order is asked for: it stands, or the answer is on its way.         *)
LEMMA AnswerIsAwaited ==
    ASSUME TradeTypes, Pages, OrdersInv, PacketsInv, FlowInv, WaitsInv, Answering,
           NEW h \in handlers, Confirms(h)
    PROVE  ToldInv'
<1>1. /\ h.at = "confirms" /\ h.window = current /\ h \in Present /\ h \in Handlers
      /\ UNCHANGED <<current, step, atLimit, rejected, order>>
  BY DEF Confirms, Superseded, Present, handlerUnchanged, TradeTypes
<1>2. mode = "Bazaar" /\ window.id = h.window /\ window.kind = "confirm" /\ step = "Confirm"
  BY <1>1 DEF FlowInv
<1>3. /\ current = opened
      /\ \A p \in Sent(packets) : p.is \notin {"open", "sign"} /\ ~ Deep(p)
      /\ \A g \in handlers : g.at # "waits"
  BY <1>1, <1>2, AtOwnPage
<1>4. h.order = order /\ window.item = order.n
  BY <1>1, <1>2, <1>3, Places DEF OrdersInv, OfTheOrder, Forms
<1>5. CASE Quits(h)
  BY <1>1, <1>5, FlowQuits
<1>6. CASE Goes(h, "waits") /\ mode' = mode /\ PlacesOrder(h.order.buy)
  <2> DEFINE e == [h EXCEPT !.at = "waits"]
  <2>1. /\ e.window = current /\ e.order = order /\ e.at = "waits"
        /\ handlers' = (handlers \ {h}) \cup {e}
    BY <1>1, <1>4, <1>6 DEF Goes, Handlers
  <2> HIDE DEF e
  <2>2. window' = NoWindow /\ opened' = opened
    BY <1>6 DEF PlacesOrder
  <2>3. Present' = {e}
    BY <1>1, <2>1, Places DEF Present
  <2>4. \A g \in handlers' : g.at = "waits" => g = e
    BY <1>3, <2>1
  <2>5. packets \in Seq(Packets)
    BY DEF TradeTypes
  <2>6. \A line \in {"limit", "refused"} :
           [is |-> line, id |-> 0, kind |-> "none"] \in Packets
    BY DEF Packets, Kinds
  <2>7. /\ LinesOnly
        /\ (\E k \in DOMAIN standing' : standing'[k].item = order.n)
           \/ (\E p \in Sent(packets') : p.is = "refused") \/ LimitLast(packets')
    <3>1. CASE /\ packets' = packets
               /\ standing' = Append(standing, [item |-> window.item, price |-> signed.price,
                                    amount |-> IF h.order.buy THEN signed.amount
                                               ELSE Amount(window.item)])
      <4> DEFINE new == [item |-> window.item, price |-> signed.price,
                         amount |-> IF h.order.buy THEN signed.amount ELSE Amount(window.item)]
      <4>1. new \in Placed /\ new.item = order.n
        <5>1. signed.price \in Texts /\ signed.amount \in Texts
          BY DEF OrdersInv
        <5>2. order.n \in Nat /\ Amount(order.n) \in Texts
          BY Places DEF Amount, Texts
        <5> QED  BY <1>4, <5>1, <5>2 DEF Placed
      <4> HIDE DEF new
      <4>2. standing \in Seq(Placed) /\ standing' = Append(standing, new)
        BY <3>1 DEF OrdersInv, new
      <4>3. /\ Append(standing, new) \in Seq(Placed)
            /\ Len(Append(standing, new)) = Len(standing) + 1
            /\ Append(standing, new)[Len(standing) + 1] = new
            /\ Len(standing) \in Nat
        BY <4>1, <4>2, AppendProperties, LenProperties
      <4>4. Len(standing) + 1 \in DOMAIN Append(standing, new)
        BY <4>3, LenProperties
      <4> QED  BY <3>1, <4>1, <4>2, <4>3, <4>4 DEF LinesOnly
    <3>2. ASSUME NEW p \in Packets, p.is = "limit", packets' = Append(packets, p)
          PROVE  LinesOnly /\ LimitLast(packets')
      BY <2>5, <3>2, SentFacts DEF LinesOnly
    <3>3. ASSUME NEW p \in Packets, p.is = "refused", packets' = Append(packets, p)
          PROVE  LinesOnly /\ \E q \in Sent(packets') : q.is = "refused"
      BY <2>5, <3>3, SentFacts DEF LinesOnly
    <3>4. AnswersOrder("limit") => LinesOnly /\ LimitLast(packets')
      BY <2>6, <3>2 DEF AnswersOrder
    <3>5. AnswersOrder("refused") => LinesOnly /\ \E q \in Sent(packets') : q.is = "refused"
      BY <2>6, <3>3 DEF AnswersOrder
    <3> QED  BY <1>6, <3>1, <3>4, <3>5 DEF PlacesOrder
  <2>8. Answering'
    <3>1. Answers(order.n)'
      BY <1>1, <2>7 DEF Answers
    <3> QED  BY <1>1, <2>1, <2>4, <3>1 DEF Answering
  <2>9. /\ FirstOf(packets')
        /\ \A p \in Sent(packets') : p \in Sent(packets) \/ p.is \in {"limit", "refused", "claimed"}
    BY <2>5, <2>7, Lines DEF PacketsInv
  <2>10. \A p \in Sent(packets') : p.is \notin {"open", "sign"} /\ ~ Deep(p)
    BY <1>3, <2>9 DEF Deep, Opened
  <2>11. PacketsInv'
    <3>1. ~ (current' < opened')
      BY <1>1, <1>3, <2>2, Places, Numbers
    <3> QED  BY <2>9, <2>10, <3>1 DEF PacketsInv, Opened
  <2>12. FlowInv'
    <3>1. window'.kind = "none" /\ "none" \notin Forms
      BY <2>2, Places DEF Forms
    <3>2. \A g \in handlers' : g \in handlers \/ g = e
      BY <2>1
    <3> QED  BY <1>1, <1>2, <1>6, <2>1, <2>3, <3>1, <3>2 DEF FlowInv
  <2>13. WaitsInv'
    BY <1>1, <1>2, <1>3, <1>6, <2>1, <2>2, <2>4 DEF WaitsInv
  <2> QED  BY <2>8, <2>11, <2>12, <2>13 DEF ToldInv
<1> QED  BY <1>2, <1>5, <1>6 DEF Confirms, Click

(* The order is told of: no line said that it was not placed, so it was,   *)
(* and it is as it was asked for.                                          *)
LEMMA ToldWasPlaced ==
    ASSUME TradeTypes, Pages, OrdersInv, PacketsInv, FlowInv, WaitsInv, Answering, ToldOK,
           NEW h \in handlers, Tells(h)
    PROVE  ToldInv' /\ ToldOK'
<1>1. /\ h.at = "waits" /\ h.window = current /\ current = opened /\ h.order = order
      /\ UNCHANGED <<current, standing>> /\ Quits(h)
  BY DEF Tells, WaitsInv, handlerUnchanged, OrdersInv, OfTheOrder, Quits, Close, GoodsStay
<1>2. ToldInv'
  BY <1>1, FlowQuits
<1>3. CASE told' = told
  BY <1>1, <1>2, <1>3 DEF ToldOK
<1>4. CASE told' # told
  <2> DEFINE new == [item |-> order.n, amount |-> Amount(order.n), price |-> Price(order.n)]
  <2>1. ~ atLimit /\ ~ rejected /\ told' = Append(told, new) /\ Answered
    BY <1>1, <1>4 DEF Tells
  <2>2. /\ \A p \in Sent(packets) : p.is # "refused"
        /\ ~ LimitLast(packets)
    BY <2>1 DEF Answered, Sent, LimitLast
  <2>3. PICK k \in DOMAIN standing : standing[k].item = order.n
    BY <1>1, <2>1, <2>2 DEF Answering, Answers
  <2>4. standing[k] \in Placed
    BY ElementOfSeq, LenProperties DEF OrdersInv
  <2>5. new = standing[k]
    BY <2>3, <2>4 DEF OrdersInv, PlacedAsAsked, Placed
  <2> HIDE DEF new
  <2>6. /\ told' \in Seq(Placed)
        /\ \A j \in DOMAIN told' : \/ j \in DOMAIN told /\ told'[j] = told[j]
                                   \/ told'[j] = new
    BY <2>1, <2>4, <2>5, Appended DEF ToldOK
  <2> QED  BY <1>1, <1>2, <2>5, <2>6 DEF ToldOK
<1> QED  BY <1>2, <1>3, <1>4

(* The inventory is sold by a page of the sale, and nobody waits then.     *)
LEMMA SaleIsOwn ==
    ASSUME TradeTypes, Pages, PacketsInv, FlowInv, WaitsInv, Answering,
           NEW h \in handlers, SellsInventory(h)
    PROVE  ToldInv'
<1>1. /\ h.at = "SellingInventoryBz" /\ h.window = current /\ h \in Present
      /\ UNCHANGED <<current, atLimit, rejected>>
  BY DEF SellsInventory, Superseded, Present, handlerUnchanged
<1>2. mode = "SellingInventoryBz"
  BY <1>1 DEF FlowInv
<1>3. CASE Ends(h) /\ mode' = mode /\ NoEffect
  BY <1>1, <1>2, <1>3, HandlerGoes
<1>4. CASE Quits(h)
  BY <1>1, <1>4, FlowQuits
<1>5. CASE Ends(h) /\ mode' = mode /\ window.id = h.window /\ Opens("sale", 0)
  <2>1. "sale" \in Kinds /\ "sale" \notin Signs
    BY DEF Kinds, Signs
  <2> QED  BY <1>1, <1>2, <1>5, <2>1, OwnClick
<1>6. CASE /\ Ends(h) /\ mode' = mode /\ window.id = h.window
           /\ AnswersOrder("nothing") /\ UNCHANGED <<window, opened>>
  <2> DEFINE p == [is |-> "nothing", id |-> 0, kind |-> "none"]
  <2>1. /\ current = opened
        /\ \A q \in Sent(packets) : q.is \notin {"open", "sign"} /\ ~ Deep(q)
        /\ \A g \in handlers : g.at # "waits"
    BY <1>1, <1>6, AtOwnPage
  <2>2. p \in Packets /\ p.is = "nothing"
    BY DEF Packets, Kinds
  <2>3. packets' = Append(packets, p)
    BY <1>6 DEF AnswersOrder
  <2> HIDE DEF p
  <2>4. FirstOf(packets') /\ Sent(packets') = Sent(packets) \cup {p}
    BY <2>1, <2>2, <2>3, SentFacts DEF TradeTypes, PacketsInv
  <2>5. Present' = {} /\ handlers' \subseteq handlers
    BY <1>1, <1>6, Places DEF Present, Ends
  <2>6. PacketsInv'
    <3>1. ~ (current' < opened')
      BY <1>1, <1>6, <2>1, Places, Numbers
    <3>2. \A q \in Sent(packets') : q.is \notin {"open", "sign"}
      BY <2>1, <2>2, <2>4
    <3> QED  BY <2>4, <2>5, <3>1, <3>2 DEF PacketsInv, Opened
  <2>7. FlowInv'
    BY <1>2, <1>6, <2>5 DEF FlowInv
  <2> QED  BY <2>1, <2>5, <2>6, <2>7 DEF ToldInv, WaitsInv, Answering
<1> QED  BY <1>3, <1>4, <1>5, <1>6 DEF SellsInventory, Click

(* Flips and cookies are never forgotten: as long as there is none there   *)
(* was none.                                                               *)
LEMMA PlainBefore ==
    ASSUME TradeTypes, Pages, [TradeNext]_tradeVars, Plain'
    PROVE  Plain /\ ~ CheckCookie /\ ~ Preempts
<1>1. begun \in Begun
  BY DEF TradeTypes
<1>2. ~ CheckCookie /\ ~ Preempts
  BY <1>1 DEF Plain, CheckCookie, Begins, Preempts, Begun
<1>3. CASE BazaarOrder \/ SellInventoryBz
  BY <1>1, <1>2, <1>3 DEF Plain, BazaarOrder, SellInventoryBz, Begins, Begun
<1>4. CASE \/ FreesSlot \/ FlipEnds \/ TimesOut \/ TradeEvent \/ Watchdog \/ UNCHANGED tradeVars
  BY <1>2, <1>4 DEF Plain, FreesSlot, FlipEnds, TimesOut, TradeEvent, OnOpenScreen, OnSign, OnLimit,
              OnRefused, OnNothingToSell, Watchdog, commandUnchanged, tradeVars
<1>5. ASSUME NEW h \in handlers, Handler(h)  PROVE Plain
  BY <1>5, HandlerEffect DEF Plain
<1> QED  BY <1>2, <1>3, <1>4, <1>5 DEF TradeNext

(* The steps of the server, the commands and the events *)
LEMMA ToldElsewhere ==
    ASSUME TradeTypes, Pages, OrdersInv, PacketsInv, FlowInv, WaitsInv, Answering,
           Elsewhere, ~ CheckCookie, ~ Preempts
    PROVE  ToldInv' /\ UNCHANGED <<told, standing>>
<1>0. packets \in Seq(Packets)
  BY DEF TradeTypes
<1>1. CASE FreesSlot
  <2>1. UNCHANGED <<current, opened, window, mode, step, handlers, standing, atLimit, rejected, told>>
    BY <1>1 DEF FreesSlot, taskVars, flagVars
  <2>2. [is |-> "claimed", id |-> 0, kind |-> "none"] \in Packets
    BY DEF Packets, Kinds
  <2>3. LinesOnly /\ (packets' = packets \/ mode = "Idle")
    BY <1>1, <2>2 DEF FreesSlot, AnswersOrder, LinesOnly
  <2>4. Answering'
    <3>1. CASE packets' = packets
      BY <2>1, <3>1, AnswersStay
    <3>2. CASE mode = "Idle"
      BY <2>1, <3>2 DEF WaitsInv, Answering
    <3> QED  BY <2>3, <3>1, <3>2
  <2> QED  BY <2>1, <2>3, <2>4, FlowsStay
<1>2. CASE BazaarOrder
  <2>1. /\ mode = "Idle" /\ mode' = "Bazaar" /\ step' = "Initial"
        /\ UNCHANGED <<current, handlers, told, standing>>
    BY <1>2 DEF BazaarOrder, Begins, commandUnchanged, taskVars, GoodsStay
  <2>2. PICK page \in {"search", "item"} : OpensAfter(packets, page, begun.orders + 1)
    BY <1>2 DEF BazaarOrder, Opens
  <2> QED  BY <2>1, <2>2, FlowBegins
<1>3. CASE SellInventoryBz
  <2>1. /\ mode = "Idle" /\ mode' = "SellingInventoryBz" /\ step' = "Initial"
        /\ UNCHANGED <<current, handlers, told, standing>> /\ OpensAfter(packets, "search", 0)
    BY <1>3 DEF SellInventoryBz, Begins, commandUnchanged, taskVars, GoodsStay, Opens
  <2> QED  BY <2>1, FlowBegins
<1>4. CASE FlipEnds \/ TimesOut
  BY <1>4 DEF FlipEnds, TimesOut, FlowInv
<1>5. CASE OnSign
  <2>1. UNCHANGED <<told, standing>>
    BY <1>5 DEF OnSign, Writes, bazaarVars
  <2> QED  BY <1>5, <2>1, SignIsHeard
<1>6. CASE OnLimit \/ OnRefused
  <2>1. /\ packets # <<>> /\ packets' = Tail(packets) /\ ~ Opened(Head(packets))
        /\ UNCHANGED <<current, opened, window, mode, step, handlers, standing, told>>
    BY <1>6 DEF OnLimit, OnRefused, Take, Done, Opened, bazaarVars, taskVars
  <2>2. rejected \/ Head(packets).is = "refused" => rejected'
    <3>1. CASE OnLimit
      BY <3>1 DEF OnLimit, Take
    <3>2. CASE OnRefused
      BY <3>2 DEF OnRefused
    <3> QED  BY <1>6, <3>1, <3>2
  <2>3. atLimit' = IF Head(packets).is = "limit" THEN TRUE
                   ELSE IF Head(packets).is = "claimed" THEN FALSE ELSE atLimit
    BY <1>6 DEF OnLimit, OnRefused, Take
  <2>4. Answering'
    BY <2>1, <2>2, <2>3, AnswersHeard
  <2> QED  BY <2>1, <2>4, FlowsStay DEF LinesOnly
<1>7. CASE OnNothingToSell
  <2>1. /\ packets # <<>> /\ packets' = Tail(packets) /\ Head(packets).is = "nothing"
        /\ UNCHANGED <<current, opened, handlers, standing, told>>
    BY <1>7 DEF OnNothingToSell, Take, Done, GoodsStay, bazaarVars, taskVars
  <2>2. Head(packets) \in Sent(packets)
    BY <1>0, <2>1, TakenFacts
  <2>3. Present = {} /\ Present' = {} /\ LinesOnly
    BY <2>1, <2>2 DEF PacketsInv, Deep, Present, LinesOnly, Opened
  <2>4. \A h \in handlers : h.at # "waits"
    BY <2>3 DEF WaitsInv, Present
  <2>5. CASE mode = "SellingInventoryBz"
    <3>1. mode' = "Idle" /\ window' \in {window, NoWindow}
      BY <1>7, <2>5 DEF OnNothingToSell
    <3> QED  BY <2>1, <2>3, <3>1, FlowIsOver
  <2>6. CASE mode # "SellingInventoryBz"
    <3>1. UNCHANGED <<step, mode, window>>
      BY <1>7, <2>6 DEF OnNothingToSell, bazaarVars
    <3>2. Answering'
      BY <2>1, <2>4 DEF Answering
    <3> QED  BY <2>1, <2>3, <3>1, <3>2, FlowsStay
  <2> QED  BY <2>5, <2>6
<1>8. CASE Watchdog
  <2>1. /\ handlers = {} /\ UNCHANGED <<handlers, current, opened, packets, standing, told, step, atLimit, rejected>>
        /\ LinesOnly
    BY <1>8 DEF Watchdog, Close, GoodsStay, NoEffect, bazaarVars, flagVars, LinesOnly
  <2>2. CASE mode' = "Idle" /\ Close(current)
    <3>1. window' \in {window, NoWindow} /\ Present' = {}
      BY <2>1, <2>2 DEF Close, Present
    <3> QED  BY <2>1, <2>2, <3>1, FlowIsOver
  <2>3. CASE UNCHANGED <<window, mode>>
    BY <2>1, <2>3, AnswersStay, FlowsStay
  <2> QED  BY <1>8, <2>2, <2>3 DEF Watchdog, NoEffect, bazaarVars
<1> QED  BY <1>1, <1>2, <1>3, <1>4, <1>5, <1>6, <1>7, <1>8 DEF Elsewhere

(* The steps of the handlers *)
LEMMA ToldHandler ==
    ASSUME TradeTypes, Pages, OrdersInv, PacketsInv, FlowInv, WaitsInv, Answering,
           NEW h \in handlers, Handler(h), ~ Tells(h)
    PROVE  /\ ToldInv' /\ told' = told
           /\ standing' = standing \/ (Confirms(h) /\ \E e : standing' = Append(standing, e))
<1>1. \/ Starts(h) \/ Bails(h) \/ Searches(h) \/ GoesOn(h) \/ FindsNothing(h) \/ Confirms(h)
      \/ SellsInventory(h)
  BY DEF Handler, FlowInv, ReadsMenu, FindsCookie, ClaimsStep, LooksForCookie, Eats
<1>2. told' = told
  BY <1>1 DEF Starts, Bails, Searches, GoesOn, FindsNothing, Confirms, SellsInventory
<1>3. standing' = standing \/ (Confirms(h) /\ \E e : standing' = Append(standing, e))
  BY <1>1 DEF Starts, Bails, Searches, GoesOn, FindsNothing, Confirms, SellsInventory, NoEffect,
              bazaarVars, Click, Leads, GoodsStay, Quits, Close, CreatesOrder, PlacesOrder
<1>4. CASE Bails(h) \/ FindsNothing(h)
  <2>1. h.at # "waits" /\ Ends(h) /\ NoEffect
        /\ UNCHANGED <<current, mode, atLimit, rejected, step>>
    BY <1>4 DEF Bails, FindsNothing, handlerUnchanged
  <2> QED  BY <1>2, <1>3, <2>1, HandlerGoes
<1> QED  BY <1>1, <1>2, <1>3, <1>4, StartIsOwn, SearchIsOwn, FormIsOwn, AnswerIsAwaited, SaleIsOwn

(* What is told as placed was placed (bot/client.rs:5219-5222), as long as *)
(* no flip and no cookie took a window away: the order stands, or its      *)
(* answer is on its way, and nobody is at a later page, until the handler  *)
(* that asked for it has told.                                             *)
THEOREM ToldOrdersArePlaced == TradeSpec => []ToldIsPlaced
<1> DEFINE Inv == Plain => ToldInv /\ ToldOK
<1>1. TradeInit => Inv
  <2> SUFFICES ASSUME TradeInit  PROVE ToldInv /\ ToldOK
    OBVIOUS
  <2>1. DOMAIN packets = {} /\ DOMAIN told = {} /\ told \in Seq(Placed)
    BY EmptySeq, LenProperties DEF TradeInit
  <2>2. PacketsInv
    <3>1. Sent(packets) = {}
      BY <2>1 DEF Sent
    <3> QED  BY <2>1, <3>1 DEF PacketsInv, FirstOf, TradeInit
  <2>3. FlowInv /\ WaitsInv /\ Answering
    BY DEF TradeInit, FlowInv, WaitsInv, Answering, Present, NoWindow
  <2> QED  BY <2>1, <2>2, <2>3 DEF ToldInv, ToldOK
<1>2. TradeTypes /\ Pages /\ OrdersInv /\ Inv /\ [TradeNext]_tradeVars => Inv'
  <2> SUFFICES ASSUME TradeTypes, Pages, OrdersInv, Inv, [TradeNext]_tradeVars, Plain'
               PROVE  ToldInv' /\ ToldOK'
    OBVIOUS
  <2>1. Plain /\ ~ CheckCookie /\ ~ Preempts
    BY PlainBefore
  <2>2. PacketsInv /\ FlowInv /\ WaitsInv /\ Answering /\ ToldOK
    BY <2>1 DEF ToldInv
  <2> HIDE DEF Inv
  <2>3. told' = told /\ standing' = standing => ToldOK'
    BY <2>2 DEF ToldOK
  <2>4. CASE Elsewhere
    BY <2>1, <2>2, <2>3, <2>4, ToldElsewhere
  <2>5. CASE OnOpenScreen
    <3>1. UNCHANGED <<told, standing>>
      BY <2>5 DEF OnOpenScreen, bazaarVars
    <3> QED  BY <2>2, <2>3, <2>5, <3>1, PageIsReached
  <2>6. ASSUME NEW h \in handlers, Tells(h)  PROVE ToldInv' /\ ToldOK'
    BY <2>2, <2>6, ToldWasPlaced
  <2>7. ASSUME NEW h \in handlers, Handler(h), ~ Tells(h)  PROVE ToldInv' /\ ToldOK'
    <3>1. ToldInv' /\ told' = told
      BY <2>2, <2>7, ToldHandler
    <3>2. CASE standing' = standing
      BY <2>3, <3>1, <3>2
    <3>3. CASE Confirms(h) /\ \E e : standing' = Append(standing, e)
      <4>1. standing \in Seq(Placed) /\ standing' \in Seq(Placed)
        BY <3>3, OrderIsPlaced DEF OrdersInv
      <4>2. PICK e : standing' = Append(standing, e)
        BY <3>3
      <4>3. \A k \in DOMAIN standing : k \in DOMAIN standing' /\ standing'[k] = standing[k]
        BY <4>1, <4>2
      <4> QED  BY <2>2, <3>1, <4>3 DEF ToldOK
    <3> QED  BY <2>2, <2>7, <3>2, <3>3, ToldHandler
  <2>8. CASE UNCHANGED tradeVars
    BY <2>2, <2>8 DEF tradeVars, bazaarVars, flagVars, taskVars, ToldInv, ToldOK, PacketsInv, FlowInv,
                      WaitsInv, Answering, Answers, Present
  <2> QED  BY <2>4, <2>5, <2>6, <2>7, <2>8 DEF TradeNext, TradeEvent, Elsewhere
<1>3. Inv => ToldIsPlaced
  BY DEF Plain, ToldOK, ToldIsPlaced
<1> QED  BY <1>1, <1>2, <1>3, TradeBaseInvariant, OrdersInvariant, PTL DEF TradeSpec

=============================================================================
