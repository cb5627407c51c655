------------------------- MODULE BazaarOrders_proofs -------------------------
(***************************************************************************)
(* Proofs about BazaarOrders: for any orders, requests, runs and windows,  *)
(* as long as the server answers what it was asked before the bot asks     *)
(* for more.  With two asks under way the shared context may be that of    *)
(* another order.                                                          *)
(***************************************************************************)
EXTENDS BazaarOrders, FiniteSetTheorems, TLAPS

Fills  == {"open", "part", "rest", "full"}
Logged == [id : Nat, is : {"unlogged", "young", "grown", "stale"}]
Fields == {"win", "at", "about", "order", "more", "goal", "young", "already", "said",
           "mode"}

(* Orders have numbers of their own, not above what was placed.            *)
Numbered ==
    /\ placed \in Nat /\ age \in [Keys -> Logged]
    /\ game \subseteq [id : Nat \ {0}, key : Keys, fill : Fills]
    /\ \A o \in game : o.id <= placed
    /\ \A o, p \in game : o.id = p.id => o.key = p.key

(* The order of this number, if it is still there, has this key.           *)
Named(n) ==
    /\ n.id \in Nat /\ n.id <= placed /\ n.key \in Keys
    /\ \A o \in game : o.id = n.id => o.key = n.key

(* It is not protected, and will not be.                                   *)
NotYoung(id) ==
    /\ id \in Nat /\ id <= placed
    /\ \A o \in game : o.id = id => ~ Young(o)

(* While a click is unanswered the context is that of its order; a cancel  *)
(* is asked of an order that is not protected.                             *)
AskSound(a) ==
    /\ a.for = "click" => a.id = context.id /\ Named(context)
    /\ a.for = "cancel" => NotYoung(a.id)

HandlerSound(h) ==
    /\ DOMAIN h = Fields
    /\ h.about = 0 <=> h.at \in {"scan", "clicked"}
    /\ h.about # 0 => /\ h.order.id = h.about
                      /\ h.goal = "cancel" \/ ~ h.young => NotYoung(h.about)

AsksSound     == asks = <<>> \/ \E a : asks = <<a>> /\ AskSound(a)
HandlersSound == \A h \in handlers : HandlerSound(h)

(* The inductive invariant *)
Sound == Numbered /\ AsksSound /\ HandlersSound

(* What changes an order and leaves its number and key, or its age, keeps  *)
(* names and the lack of protection.                                       *)
LEMMA NamesStay ==
    ASSUME Numbered, placed' \in {placed, placed + 1},
           \A o \in game' : \/ \E p \in game : o.id = p.id /\ o.key = p.key
                            \/ placed' = placed + 1 /\ o.id = placed',
           \A k \in Keys : \/ age'[k] = age[k] \/ age'[k].is # "young"
                           \/ placed' = placed + 1 /\ age'[k].id = placed'
    PROVE  /\ \A n : Named(n) => Named(n)'
           /\ \A id : NotYoung(id) => NotYoung(id)'
<1>1. ASSUME NEW n, Named(n)  PROVE Named(n)'
  BY <1>1 DEF Named, Numbered
<1>2. ASSUME NEW id, NotYoung(id)  PROVE NotYoung(id)'
  <2> SUFFICES ASSUME NEW o \in game', o.id = id  PROVE ~ Young(o)'
    BY <1>2 DEF NotYoung, Numbered
  <2>1. id \in Nat /\ id <= placed
    BY <1>2 DEF NotYoung
  <2>2. PICK p \in game : o.id = p.id /\ o.key = p.key
    BY <2>1 DEF Numbered
  <2>3. ~ Young(p) /\ o.key \in Keys
    BY <1>2, <2>2 DEF NotYoung, Numbered
  <2>4. age[o.key] # [id |-> o.id, is |-> "young"]
    BY <2>2, <2>3 DEF Young
  <2>5. age'[o.key] # [id |-> o.id, is |-> "young"]
    <3>1. CASE age'[o.key] = age[o.key]
      BY <2>4, <3>1
    <3>2. CASE age'[o.key].is # "young"
      BY <3>2
    <3>3. CASE placed' = placed + 1 /\ age'[o.key].id = placed'
      BY <2>1, <3>3 DEF Numbered
    <3> QED  BY <2>3, <3>1, <3>2, <3>3
  <2> QED  BY <2>5 DEF Young
<1> QED  BY <1>1, <1>2

(* A step in which nothing is asked and no handler starts or goes on       *)
LEMMA NothingAsked ==
    ASSUME Sound, Numbered', asks' = asks \/ (asks # <<>> /\ asks' = Tail(asks)),
           handlers' \subseteq handlers,
           context' = context, placed' \in {placed, placed + 1},
           \A o \in game' : \/ \E p \in game : o.id = p.id /\ o.key = p.key
                            \/ placed' = placed + 1 /\ o.id = placed',
           \A k \in Keys : \/ age'[k] = age[k] \/ age'[k].is # "young"
                           \/ placed' = placed + 1 /\ age'[k].id = placed'
    PROVE  Sound'
<1>1. /\ \A n : Named(n) => Named(n)'
      /\ \A id : NotYoung(id) => NotYoung(id)'
  BY NamesStay DEF Sound
<1>2. Named(context) => Named(context)'
  BY <1>1
<1>3. AsksSound'
  <2>1. CASE asks' = <<>>
    BY <2>1 DEF AsksSound
  <2>2. CASE asks' # <<>>
    <3>1. asks # <<>>
      BY <2>2
    <3>a. PICK a : asks = <<a>> /\ AskSound(a)
      BY <3>1 DEF Sound, AsksSound
    <3>2. asks' = <<a>>
      BY <2>2, <3>a
    <3>3. AskSound(a)'
      BY <3>a, <1>1, <1>2 DEF AskSound
    <3> QED  BY <3>2, <3>3 DEF AsksSound
  <2> QED  BY <2>1, <2>2
<1>4. HandlersSound'
  BY <1>1 DEF Sound, HandlersSound, HandlerSound
<1> QED  BY <1>3, <1>4 DEF Sound

(* The market and the asks stay, but for one answer, and so do numbers.    *)
LEMMA OrdersStay ==
    ASSUME Sound, asks' = asks \/ (asks # <<>> /\ asks' = Tail(asks)),
           handlers' \subseteq handlers,
           UNCHANGED <<marketVars, context>>
    PROVE  Sound'
<1>1. Numbered'
  BY DEF Sound, Numbered, marketVars
<1> QED  BY <1>1, NothingAsked DEF marketVars

(* One handler goes on, and may ask for something.                         *)
LEMMA OneAsks ==
    ASSUME Sound, NEW h \in handlers, NEW g, handlers' = (handlers \ {h}) \cup {g},
           UNCHANGED marketVars, HandlerSound(g),
           NEW a, asks = <<>>, asks' = <<a>>, AskSound(a)'
    PROVE  Sound'
<1>1. \A id : NotYoung(id)' <=> NotYoung(id)
  BY DEF NotYoung, Young, marketVars
<1>2. HandlersSound'
  BY <1>1 DEF Sound, HandlersSound, HandlerSound
<1>3. Numbered'
  BY DEF Sound, Numbered, marketVars
<1> QED  BY <1>2, <1>3 DEF Sound, AsksSound

(* What a handler of the list may click is an order of the game.           *)
LEMMA CandidatesInGame ==
    ASSUME NEW r, NEW full
    PROVE  Candidates(r, full) \subseteq game
<1>1. ASSUME NEW S1, NEW S2, S1 \subseteq game, S2 \subseteq game
      PROVE  FirstTier(<<S1, S2>>) \subseteq game
  BY <1>1 DEF FirstTier
<1>2. ASSUME NEW S1, NEW S2, NEW S3, NEW S4, S1 \subseteq game, S2 \subseteq game,
             S3 \subseteq game, S4 \subseteq game
      PROVE  FirstTier(<<S1, S2, S3, S4>>) \subseteq game
  BY <1>2 DEF FirstTier
<1> QED  BY <1>1, <1>2 DEF Candidates, Listed

-----------------------------------------------------------------------------
(* Steps of the market, the loop and the timers ask for the list alone.    *)
LEMMA ListIsAsked ==
    ASSUME MaxAsks = 1, Sound, NEW a, a.for = "list", Len(asks) < MaxAsks,
           asks' = Append(asks, a), handlers' = handlers,
           UNCHANGED <<marketVars, context>>
    PROVE  Sound'
<1>1. asks = <<>>
  BY DEF Sound, AsksSound
<1>2. asks' = <<a>> /\ AskSound(a)'
  BY <1>1 DEF AskSound
<1>3. \A id : NotYoung(id)' <=> NotYoung(id)
  BY DEF NotYoung, Young, marketVars
<1>4. Numbered' /\ HandlersSound'
  BY <1>3 DEF Sound, Numbered, HandlersSound, HandlerSound, marketVars
<1> QED  BY <1>2, <1>4 DEF Sound, AsksSound

(* Placing, filling and aging: what grows older is protected no more.      *)
LEMMA MarketKeeps == ASSUME Sound, MarketStep PROVE Sound'
<1> USE DEF guiVars, runVars, queueVars
<1>a. Numbered
  BY DEF Sound
<1>1. ASSUME NEW k \in Keys, Place(k)  PROVE Sound'
  <2>1. PICK new : /\ new = [id |-> placed + 1, key |-> k, fill |-> "open"]
                   /\ game' = game \cup {new}
    BY <1>1 DEF Place
  <2>2. /\ new.id = placed + 1 /\ new.key = k
        /\ new \in [id : Nat \ {0}, key : Keys, fill : Fills]
    BY <1>a, <2>1 DEF Fills, Numbered
  <2>3. /\ placed' = placed + 1
        /\ age' = [age EXCEPT ![k] = [id |-> placed + 1, is |-> "young"]]
        /\ UNCHANGED <<asks, handlers, context>>
    BY <1>1 DEF Place
  <2>4. Numbered'
    BY <1>a, <2>1, <2>2, <2>3 DEF Numbered, Logged
  <2> QED  BY <1>a, <2>1, <2>2, <2>3, <2>4, NothingAsked DEF Numbered
<1>2. ASSUME NEW k \in Keys, Grow(k)  PROVE Sound'
  <2>1. PICK is \in {"grown", "stale"} : age' = [age EXCEPT ![k].is = is]
    BY <1>2 DEF Grow
  <2>2. age' \in [Keys -> Logged] /\ age'[k].is = is
          /\ \A l \in Keys : l # k => age'[l] = age[l]
    BY <1>a, <2>1 DEF Numbered, Logged
  <2>3. UNCHANGED <<game, placed, asks, handlers, context>>
    BY <1>2 DEF Grow
  <2>4. Numbered'
    BY <1>a, <2>2, <2>3 DEF Numbered
  <2> QED  BY <2>1, <2>2, <2>3, <2>4, NothingAsked
<1>3. ASSUME NEW o \in game, Fill(o)  PROVE Sound'
  <2>1. PICK fill \in Fills : game' = (game \ {o}) \cup {[o EXCEPT !.fill = fill]}
    BY <1>3 DEF Fill, Fills
  <2>2. PICK new : new = [o EXCEPT !.fill = fill]
    OBVIOUS
  <2>3. /\ new.id = o.id /\ new.key = o.key
        /\ new \in [id : Nat \ {0}, key : Keys, fill : Fills]
    BY <1>a, <2>2 DEF Numbered
  <2>4. game' = (game \ {o}) \cup {new}
    BY <2>1, <2>2
  <2>5. UNCHANGED <<placed, age, asks, handlers, context>>
    BY <1>3 DEF Fill
  <2>6. Numbered'
    BY <1>a, <2>3, <2>4, <2>5 DEF Numbered
  <2> QED  BY <2>3, <2>4, <2>5, <2>6, NothingAsked
<1> QED  BY <1>1, <1>2, <1>3 DEF MarketStep

(* Who asks for a run, begins it or gives it up knows no order.            *)
LEMMA LoopKeeps ==
    ASSUME MaxAsks = 1, Sound, RequestStep \/ LoopStep \/ TimerStep \/ Closes
    PROVE  Sound'
<1> USE DEF guiVars, runVars, queueVars
<1>1. ASSUME Len(asks) < MaxAsks, asks' = Append(asks, [for |-> "list", id |-> 0]),
             handlers' = handlers, UNCHANGED <<marketVars, context>>
      PROVE  Sound'
  <2>1. PICK a : a = [for |-> "list", id |-> 0]
    OBVIOUS
  <2> QED  BY <1>1, <2>1, ListIsAsked
<1>2. ASSUME UNCHANGED <<marketVars, context, asks, handlers>>  PROVE Sound'
  BY <1>2, OrdersStay
<1>3. CASE RequestStep
  BY <1>2, <1>3 DEF RequestStep, CancelAll, PeriodicCheck, CancelOrder, HandleFilled,
     Cancel
<1>4. CASE Start
  BY <1>1, <1>2, <1>4 DEF Start, Begins
<1>5. CASE Execute
  BY <1>1, <1>5 DEF Execute, Begins
<1>6. CASE Resend
  BY <1>1, <1>6 DEF Resend
<1>7. CASE Complete \/ GiveUp \/ Preempt \/ Closes
  BY <1>2, <1>7 DEF Complete, GiveUp, Preempt, Closes
<1> QED  BY <1>3, <1>4, <1>5, <1>6, <1>7 DEF LoopStep, TimerStep

(* What an answer to a click or a cancel does to the order it is about     *)
Replaces(o) ==
    \/ game' = game \ {o}
    \/ game' = (game \ {o}) \cup {[o EXCEPT !.fill = "rest"]}

(* An order collected from keeps its number and its key.                   *)
LEMMA ReplacedStay ==
    ASSUME Numbered, NEW o \in game, game' = game \/ Replaces(o),
           UNCHANGED <<placed, age>>
    PROVE  /\ Numbered'
           /\ \A p \in game' : \E q \in game : p.id = q.id /\ p.key = q.key
<1>1. CASE game' \subseteq game
  BY <1>1 DEF Numbered
<1>2. CASE game' = (game \ {o}) \cup {[o EXCEPT !.fill = "rest"]}
  <2>1. PICK new : new = [o EXCEPT !.fill = "rest"]
    OBVIOUS
  <2>2. /\ new.id = o.id /\ new.key = o.key
        /\ new \in [id : Nat \ {0}, key : Keys, fill : Fills]
    BY <2>1 DEF Numbered, Fills
  <2>3. game' = (game \ {o}) \cup {new}
    BY <1>2, <2>1
  <2> QED  BY <2>2, <2>3 DEF Numbered
<1> QED  BY <1>1, <1>2 DEF Replaces

(* The handler of the options is about the order of the context.           *)
LEMMA HandlerStarts ==
    ASSUME NEW h, NEW o \in game, Numbered, o.id = context.id, Named(context),
           h = [Handler("probe", o.id) EXCEPT !.order = context,
                    !.goal = Goal(context.key),
                    !.young = (context.key \in Keys /\ IsYoung(context.key))]
    PROVE  HandlerSound(h)
<1> DEFINE b == Handler("probe", o.id)
<1>1. DOMAIN b = Fields /\ b.about = o.id /\ b.at = "probe"
  BY DEF Handler, Fields
<1> HIDE DEF b
<1>2. /\ DOMAIN h = Fields /\ h.about = o.id /\ h.at = "probe"
      /\ h.order = context /\ h.goal = Goal(context.key)
      /\ h.young = (context.key \in Keys /\ IsYoung(context.key))
  <2>1. h = [b EXCEPT !.order = context, !.goal = Goal(context.key),
                      !.young = (context.key \in Keys /\ IsYoung(context.key))]
    BY DEF b
  <2> QED  BY <2>1, <1>1 DEF Fields
<1>3. o.id # 0 /\ o.key = context.key /\ context.key \in Keys
  BY DEF Numbered, Named
<1>4. ASSUME h.goal = "cancel" \/ ~ h.young  PROVE NotYoung(o.id)
  <2>1. ~ IsYoung(context.key)
    <3>1. CASE h.goal = "cancel"
      BY <1>2, <1>3, <3>1 DEF Goal
    <3>2. CASE ~ h.young
      BY <1>2, <1>3, <3>2, Zenon
    <3> QED  BY <1>4, <3>1, <3>2
  <2>2. \A p \in game : p.id = o.id => ~ Young(p)
    BY <1>3, <2>1 DEF Young, IsYoung, Named
  <2> QED  BY <2>2 DEF NotYoung, Numbered
<1> QED  BY <1>2, <1>3, <1>4 DEF HandlerSound

(* The handler of the list is about no order yet.                          *)
LEMMA ListHandlerStarts ==
    ASSUME NEW h, h = Handler("scan", 0)
    PROVE  HandlerSound(h)
<1>1. DOMAIN h = Fields /\ h.about = 0 /\ h.at = "scan"
  BY DEF Handler, Fields
<1> QED  BY <1>1 DEF HandlerSound

(* The answer to what was asked, if it comes                               *)
LEMMA AnswerKeeps ==
    ASSUME Sound, Answer
    PROVE  /\ Sound'
           /\ \A o \in Gone : ~ Young(o)
<1> USE DEF guiVars, runVars, queueVars
<1>1. PICK a : asks = <<a>> /\ AskSound(a)
  BY DEF Answer, Sound, AsksSound
<1>2. asks' = <<>> /\ Head(asks) = a /\ UNCHANGED <<placed, age, context>>
  BY <1>1 DEF Answer
<1>3. Numbered /\ HandlersSound
  BY DEF Sound
<1>a. ASSUME game' = game \/ \E o \in game : Replaces(o),
             \/ handlers' = handlers
             \/ \E h : handlers' = handlers \cup {h} /\ HandlerSound(h)
      PROVE  Sound'
  <2>1. /\ Numbered'
        /\ \A p \in game' : \E q \in game : p.id = q.id /\ p.key = q.key
    <3>1. CASE game' = game
      BY <1>2, <1>3, <3>1 DEF Numbered
    <3>2. ASSUME NEW o \in game, Replaces(o)
          PROVE  /\ Numbered'
                 /\ \A p \in game' : \E q \in game : p.id = q.id /\ p.key = q.key
      BY <1>2, <1>3, <3>2, ReplacedStay
    <3> QED  BY <1>a, <3>1, <3>2
  <2>2. \A id : NotYoung(id) => NotYoung(id)'
    BY <1>2, <1>3, <2>1, NamesStay
  <2>3. HandlersSound'
    BY <1>3, <1>a, <2>2 DEF HandlersSound, HandlerSound
  <2>4. AsksSound'
    BY <1>2 DEF AsksSound
  <2> QED  BY <2>1, <2>3, <2>4 DEF Sound
<1>4. OpensList =>
         \/ handlers' = handlers
         \/ \E h : handlers' = handlers \cup {h} /\ HandlerSound(h)
  BY ListHandlerStarts DEF OpensList, Dismissed
<1>5. NothingOpens => handlers' = handlers
  BY DEF NothingOpens
<1>6. ASSUME game' = game, OpensList \/ NothingOpens  PROVE Sound'
  BY <1>a, <1>4, <1>5, <1>6
<1>7. ASSUME NEW o \in game, o.id = a.id, a.for = "click", OpensOptions(o), game' = game
      PROVE  Sound'
  <2>1. o.id = context.id /\ Named(context)
    BY <1>1, <1>7 DEF AskSound
  <2>2. \/ handlers' = handlers
        \/ handlers' = handlers \cup
              {[Handler("probe", o.id) EXCEPT !.order = context,
                    !.goal = Goal(context.key),
                    !.young = (context.key \in Keys /\ IsYoung(context.key))]}
    BY <1>7 DEF OpensOptions, Dismissed
  <2>3. \/ handlers' = handlers
        \/ \E h : handlers' = handlers \cup {h} /\ HandlerSound(h)
    BY <1>3, <2>1, <2>2, HandlerStarts
  <2> QED  BY <1>a, <1>7, <2>3
<1>8. ASSUME NEW o \in game, Claims(o), Claimable(o), OpensList \/ NothingOpens
      PROVE  Sound' /\ \A p \in Gone : ~ Young(p)
  <2>1. Replaces(o)
    BY <1>8 DEF Claims, Replaces
  <2>2. Sound'
    BY <1>a, <1>4, <1>5, <1>8, <2>1
  <2>3. ASSUME NEW p \in Gone  PROVE FALSE
    <3>1. p \in game /\ p.fill # "full" /\ \A q \in game' : q.id # p.id
      BY DEF Gone
    <3>2. p = o /\ o.fill = "part"
      BY <1>8, <3>1 DEF Claims, Claimable
    <3>3. PICK new : new = [o EXCEPT !.fill = "rest"]
      OBVIOUS
    <3>4. new \in game' /\ new.id = o.id
      BY <1>3, <1>8, <3>2, <3>3 DEF Claims, Numbered
    <3> QED  BY <3>1, <3>2, <3>4
  <2> QED  BY <2>2, <2>3
<1>9. ASSUME NEW o \in game, o.id = a.id, a.for = "cancel", game' = game \ {o},
             OpensList \/ NothingOpens
      PROVE  Sound' /\ \A p \in Gone : ~ Young(p)
  <2>1. Sound'
    BY <1>a, <1>4, <1>5, <1>9 DEF Replaces
  <2>2. Gone \subseteq {o}
    BY <1>9 DEF Gone
  <2>3. ~ Young(o)
    BY <1>1, <1>9 DEF AskSound, NotYoung
  <2> QED  BY <2>1, <2>2, <2>3
<1>10. game' = game => Gone = {}
  BY DEF Gone
<1>11. CASE Head(asks).for = "list" /\ OpensList /\ game' = game
  BY <1>6, <1>10, <1>11
<1>12. CASE game' = game /\ NothingOpens
  BY <1>6, <1>10, <1>12
<1>13. ASSUME NEW o \in InGame(a.id),
              \/ /\ a.for = "click" /\ o.fill = "full"
                 /\ Claims(o)
                 /\ OpensList \/ NothingOpens
              \/ /\ a.for = "click" /\ o.fill # "full"
                 /\ OpensOptions(o)
                 /\ UNCHANGED game
              \/ /\ a.for = "collect" /\ Claimable(o)
                 /\ Claims(o)
                 /\ OpensList \/ NothingOpens
              \/ /\ a.for = "cancel"
                 /\ game' = game \ {o}
                 /\ OpensList \/ NothingOpens
       PROVE  Sound' /\ \A p \in Gone : ~ Young(p)
  <2>1. o \in game /\ o.id = a.id
    BY DEF InGame
  <2>2. o.fill = "full" => Claimable(o)
    BY DEF Claimable
  <2> QED  BY <1>7, <1>8, <1>9, <1>10, <1>13, <2>1, <2>2
<1> QED  BY <1>2, <1>11, <1>12, <1>13 DEF Answer

-----------------------------------------------------------------------------
(* Only what is not protected is asked to be cancelled.                    *)
LEMMA HandlerAsks ==
    ASSUME MaxAsks = 1, Sound, NEW h \in handlers, h.about # 0,
           UNCHANGED <<marketVars, context>>,
           NEW what \in {"collect", "cancel"}, NEW said, Clicks(h, what, said),
           what = "cancel" => h.goal = "cancel" \/ ~ h.young
    PROVE  Sound'
<1>1. asks = <<>>
  BY DEF Clicks, Asks, Sound, AsksSound
<1>2. PICK a : a = [for |-> what, id |-> h.about]
  OBVIOUS
<1>3. asks' = <<a>>
  BY <1>1, <1>2 DEF Clicks, Asks
<1>4. HandlerSound(h)
  BY DEF Sound, HandlersSound
<1>5. PICK g : g = [h EXCEPT !.at = what, !.already = (h.at = "collect"), !.said = said]
  OBVIOUS
<1>6. handlers' = (handlers \ {h}) \cup {g}
  BY <1>5 DEF Clicks, Becomes
<1>7. /\ DOMAIN g = Fields /\ g.at = what /\ g.about = h.about /\ g.order = h.order
      /\ g.goal = h.goal /\ g.young = h.young
  BY <1>4, <1>5 DEF HandlerSound, Fields
<1>8. HandlerSound(g)
  BY <1>4, <1>7 DEF HandlerSound
<1>9. AskSound(a)
  BY <1>2, <1>4 DEF AskSound, HandlerSound
<1>10. AskSound(a)'
  BY <1>2, <1>9 DEF AskSound, NotYoung, Young, marketVars
<1> QED  BY <1>1, <1>3, <1>6, <1>8, <1>10, OneAsks

(* The click on an order leaves its name in the context.                   *)
LEMMA ListClicks ==
    ASSUME MaxAsks = 1, Sound, NEW h \in handlers, h.at = "scan", UNCHANGED marketVars,
           NEW o \in game, ClickOrder(h, o)
    PROVE  Sound'
<1>1. asks = <<>>
  BY DEF ClickOrder, Asks, Sound, AsksSound
<1>2. PICK a : a = [for |-> "click", id |-> o.id]
  OBVIOUS
<1>3. asks' = <<a>>
  BY <1>1, <1>2 DEF ClickOrder, Asks
<1>4. HandlerSound(h) /\ Numbered
  BY DEF Sound, HandlersSound
<1>5. PICK g : g = [h EXCEPT !.at = "clicked", !.order = Name(o),
                             !.more = Cardinality(Listed) > 1]
  OBVIOUS
<1>6. handlers' = (handlers \ {h}) \cup {g}
  BY <1>5 DEF ClickOrder, Becomes
<1>7. DOMAIN g = Fields /\ g.at = "clicked" /\ g.about = h.about
  BY <1>4, <1>5 DEF HandlerSound, Fields
<1>8. HandlerSound(g)
  BY <1>4, <1>7 DEF HandlerSound
<1>9. context'.id = o.id /\ context'.key = o.key
  BY DEF ClickOrder, Name
<1>10. AskSound(a)'
  BY <1>2, <1>4, <1>9 DEF AskSound, Named, Numbered, marketVars
<1> QED  BY <1>1, <1>3, <1>6, <1>8, <1>10, OneAsks

(* The handlers click, ask or end; each ask is sound when it is made.      *)
LEMMA HandlerKeeps ==
    ASSUME MaxAsks = 1, Sound, HandlerStep
    PROVE  Sound'
<1> USE DEF guiVars, runVars, queueVars
<1> PICK h \in handlers :
        \/ ListScan(h) \/ ListLeaves(h) \/ ListConcludes(h)
        \/ OptionsProbe(h) \/ OptionsCollected(h) \/ OptionsCancelled(h)
  BY DEF HandlerStep
<1>1. HandlerSound(h)
  BY DEF Sound, HandlersSound
<1>2. ASSUME Ends(h), UNCHANGED <<marketVars, context, asks>>  PROVE Sound'
  BY <1>2, OrdersStay DEF Ends
<1>3. CASE ListScan(h)
  <2>1. CASE \E o \in Candidates(h.mode, FALSE) \cup Candidates(h.mode, TRUE) :
                ClickOrder(h, o)
    <3>1. PICK o \in game : ClickOrder(h, o)
      BY <2>1, CandidatesInGame
    <3>2. h.at = "scan" /\ UNCHANGED marketVars
      BY <1>3 DEF ListScan
    <3> QED  BY <3>1, <3>2, ListClicks
  <2>2. CASE Ends(h) /\ UNCHANGED <<marketVars, context, asks>>
    BY <1>2, <2>2
  <2> QED  BY <1>3, <2>1, <2>2 DEF ListScan, ListEnds
<1>4. CASE ListLeaves(h) \/ ListConcludes(h)
  BY <1>2, <1>4 DEF ListLeaves, ListConcludes, ListEnds
<1>5. ASSUME NEW r, OptionsEnds(h, r), UNCHANGED <<marketVars, context>>  PROVE Sound'
  BY <1>2, <1>5 DEF OptionsEnds
<1>6. CASE OptionsProbe(h)
  <2>1. h.about # 0 /\ UNCHANGED <<marketVars, context>>
    BY <1>1, <1>6 DEF OptionsProbe, HandlerSound
  <2>2. \/ Clicks(h, "collect", FALSE)
        \/ h.goal = "cancel" /\ Clicks(h, "cancel", FALSE)
        \/ OptionsEnds(h, h.goal = "cancel")
    BY <1>6 DEF OptionsProbe
  <2>3. CASE Clicks(h, "collect", FALSE)
    BY <2>1, <2>3, HandlerAsks
  <2>4. CASE h.goal = "cancel" /\ Clicks(h, "cancel", FALSE)
    BY <2>1, <2>4, HandlerAsks
  <2> QED  BY <1>5, <2>1, <2>2, <2>3, <2>4
<1>7. CASE OptionsCollected(h)
  <2>1. h.about # 0 /\ UNCHANGED <<marketVars, context>>
    BY <1>1, <1>7 DEF OptionsCollected, HandlerSound
  <2>2. \/ (h.goal = "cancel" \/ ~ h.young) /\ Clicks(h, "cancel", Confirmed(h))
        \/ OptionsEnds(h, TRUE)
    BY <1>7, Zenon DEF OptionsCollected
  <2>3. CASE (h.goal = "cancel" \/ ~ h.young) /\ Clicks(h, "cancel", Confirmed(h))
    BY <2>1, <2>3, HandlerAsks
  <2> QED  BY <1>5, <2>1, <2>2, <2>3
<1>8. CASE OptionsCancelled(h)
  BY <1>5, <1>8 DEF OptionsCancelled
<1> QED  BY <1>3, <1>4, <1>6, <1>7, <1>8

-----------------------------------------------------------------------------
(* A session starts without a click under way, on orders with numbers.    *)
LEMMA StartIsSound == Init => Sound
<1> SUFFICES ASSUME Init PROVE Sound
  OBVIOUS
<1>1. placed \in Nat
  BY StartAssumption, FS_CardinalityType DEF Init
<1>2. /\ \A o \in game : o.id <= placed
      /\ \A o, p \in game : o.id = p.id => o.key = p.key
  BY StartAssumption DEF Init
<1>3. game \subseteq [id : Nat \ {0}, key : Keys, fill : Fills]
  BY StartAssumption DEF Init, Order, Fills
<1>4. age \in [Keys -> Logged]
  <2> SUFFICES ASSUME NEW k \in Keys
               PROVE  (IF \E o \in OrdersAtStart : o.key = k
                       THEN [id |-> (CHOOSE o \in OrdersAtStart : o.key = k).id,
                             is |-> "grown"]
                       ELSE [id |-> 0, is |-> "unlogged"]) \in Logged
    BY DEF Init
  <2>1. ASSUME \E o \in OrdersAtStart : o.key = k
        PROVE  (CHOOSE o \in OrdersAtStart : o.key = k).id \in Nat
    <3>1. (CHOOSE o \in OrdersAtStart : o.key = k) \in OrdersAtStart
      BY <2>1
    <3> QED  BY <1>3, <3>1 DEF Init
  <2> QED  BY <2>1 DEF Logged
<1>5. asks = <<>> /\ handlers = {}
  BY DEF Init
<1> QED  BY <1>1, <1>2, <1>3, <1>4, <1>5 DEF Sound, Numbered, AsksSound, HandlersSound

(* The inductive invariant of this module *)
LEMMA OrdersSound == ASSUME MaxAsks = 1 PROVE Spec => []Sound
<1>1. Sound /\ [Next]_vars => Sound'
  <2> SUFFICES ASSUME Sound, [Next]_vars PROVE Sound'
    OBVIOUS
  <2>1. CASE MarketStep
    BY <2>1, MarketKeeps
  <2>2. CASE RequestStep \/ LoopStep \/ TimerStep \/ Closes
    BY <2>2, LoopKeeps
  <2>3. CASE Answer
    BY <2>3, AnswerKeeps
  <2>4. CASE HandlerStep
    BY <2>4, HandlerKeeps
  <2>5. CASE UNCHANGED vars
    BY <2>5, OrdersStay DEF vars, guiVars, runVars
  <2> QED  BY <2>1, <2>2, <2>3, <2>4, <2>5 DEF Next
<1> QED  BY <1>1, StartIsSound, PTL DEF Spec

(* The handler of an options window works on the order the window is about *)
(* although it reads the order from a shared cell (bot/client.rs:6574).    *)
THEOREM ClicksKeepTheirOrder == ASSUME MaxAsks = 1 PROVE Spec => []RightContext
<1>1. Sound => RightContext
  BY DEF Sound, HandlersSound, HandlerSound, RightContext
<1> QED  BY <1>1, OrdersSound, PTL

(* No step cancels an order of the last five minutes, neither the step     *)
(* that follows a collection nor one of a run that started in the          *)
(* meantime (bot/client.rs:6594).                                          *)
THEOREM YoungOrdersStay == ASSUME MaxAsks = 1 PROVE Spec => YoungOrdersKept
<1> USE DEF guiVars, runVars, queueVars
<1>1. Sound /\ [Next]_vars => [\A o \in Gone : ~ Young(o)]_vars
  <2> SUFFICES ASSUME Sound, Next PROVE \A o \in Gone : ~ Young(o)
    OBVIOUS
  <2>1. CASE Answer
    BY <2>1, AnswerKeeps
  <2>2. ASSUME NEW o \in game, Fill(o)  PROVE Gone = {}
    <3>1. PICK new : new.id = o.id /\ game' = (game \ {o}) \cup {new}
      <4>1. PICK fill \in Fills : game' = (game \ {o}) \cup {[o EXCEPT !.fill = fill]}
        BY <2>2 DEF Fill, Fills
      <4>2. PICK new : new = [o EXCEPT !.fill = fill]
        OBVIOUS
      <4>3. new.id = o.id
        BY <4>2 DEF Sound, Numbered
      <4> QED  BY <4>1, <4>2, <4>3
    <3> QED  BY <3>1 DEF Gone
  <2>3. ASSUME game \subseteq game'  PROVE Gone = {}
    BY <2>3 DEF Gone
  <2>4. CASE MarketStep
    BY <2>2, <2>3, <2>4 DEF MarketStep, Place, Grow
  <2>5. CASE RequestStep
    BY <2>3, <2>5 DEF RequestStep, CancelAll, PeriodicCheck, CancelOrder, HandleFilled,
       Cancel, marketVars
  <2>6. CASE LoopStep \/ TimerStep \/ Closes
    BY <2>3, <2>6 DEF LoopStep, Start, Execute, Complete, TimerStep, Resend, GiveUp,
       Preempt, Closes, marketVars
  <2>7. CASE HandlerStep
    BY <2>3, <2>7 DEF HandlerStep, ListScan, ListLeaves, ListConcludes, OptionsProbe,
       OptionsCollected, OptionsCancelled, marketVars
  <2> QED  BY <2>1, <2>4, <2>5, <2>6, <2>7 DEF Next
<1> QED  BY <1>1, OrdersSound, PTL DEF Spec, YoungOrdersKept

=============================================================================
