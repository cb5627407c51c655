---------------------------- MODULE BazaarOrders ----------------------------
(***************************************************************************)
(* What the bot does to the bazaar orders of the account: the runs of      *)
(* ManageOrders and the window handlers that carry them out                *)
(* (bot/client.rs:4380-4466, 6150-7015).                                   *)
(*                                                                         *)
(* A run opens the orders list, clicks one order and ends.  Nobody owns    *)
(* it: the processor loop starts and completes it, one task per opened     *)
(* window carries it on, timers give it up, and all of them meet in the    *)
(* bot state, the number of the open window and a few shared cells.  A     *)
(* task that outlives its run goes on clicking in the next one.            *)
(*                                                                         *)
(* An order is known to the bot by its key, the item and the side; id is   *)
(* its identity in the game, and stands for its price where a request      *)
(* names one.                                                              *)
(***************************************************************************)
EXTENDS Integers, Sequences, SequencesExt, FiniteSets

CONSTANTS
    Buys, Sells,        \* the keys: item and side
    AgeCancel,          \* bazaar_order_cancel_minutes_per_million > 0
    Prompt,             \* the server answers before the bot stops waiting
    OrdersAtStart,      \* left by an earlier session
    MaxOrders,          \* bound of the model: orders ever placed, those included
    MaxCancels,         \* bound of the model: distinct cancel requests
    MaxWork,            \* bound of the model: runs executed, cancels requested
    MaxWindows,         \* bound of the model: running handlers
    MaxAsks,            \* bound of the model: unanswered asks
    MaxCancelRetries    \* MAX_CANCEL_RETRIES, 5 in the code

Keys == Buys \cup Sells

ASSUME KeysAssumption == Buys \cap Sells = {} /\ IsFiniteSet(Keys)
ASSUME OrderBounds ==
    /\ MaxOrders \in Nat /\ MaxCancels \in Nat /\ MaxWork \in Nat
    /\ MaxWindows \in Nat \ {0} /\ MaxAsks \in Nat \ {0}
    /\ MaxCancelRetries \in Nat \ {0}
    /\ AgeCancel \in BOOLEAN /\ Prompt \in BOOLEAN

VARIABLES
    game,       \* the orders in the game
    placed,     \* orders placed so far
    age,        \* of each key: the order last logged, and the time since
    cancels,    \* the cancel requests made so far
    queue,      \* pending ManageOrders commands
    run,        \* {} or the set of the current one
    starting,   \* it is on its way to execute_command
    runs,       \* ManageOrders executed so far
    managing,   \* the bot state is ManagingOrders
    processed,  \* manage_orders_processed: keys
    context,    \* managing_order_context: the order last clicked
    failures,   \* order_cancel_failures
    window,     \* last_window_id, 0 when there is none, and the title
    asks,       \* what the server was asked and has not answered
    handlers    \* the running window handlers

marketVars == <<game, placed, age>>
queueVars  == <<cancels, queue, run, starting, runs>>
runVars    == <<managing, processed, context, failures>>
guiVars    == <<window, asks, handlers>>
vars == <<marketVars, queueVars, runVars, guiVars>>

(* "rest" is what is left of an order after one collection.                *)
Order   == [id : 1 .. MaxOrders, key : Keys,
            fill : {"open", "part", "rest", "full"}]
ASSUME StartAssumption ==
    /\ OrdersAtStart \subseteq Order /\ IsFiniteSet(OrdersAtStart)
    /\ \A o \in OrdersAtStart : o.id <= Cardinality(OrdersAtStart)
    /\ \A o, p \in OrdersAtStart : o.id = p.id => o = p
    /\ Cardinality(OrdersAtStart) <= MaxOrders

Age     == [id : 0 .. MaxOrders, is : {"unlogged", "young", "grown", "stale"}]
AnyKey  == "any"            \* no target
Request == [cancel : BOOLEAN, target : Keys \cup {AnyKey},
            id : 0 .. MaxOrders,        \* the price of the target, 0: none
            urgent : BOOLEAN,           \* Critical
            interruptible : BOOLEAN]
Ask     == [for : {"list", "click", "collect", "cancel"}, id : 0 .. MaxOrders]
Name(o) == [id |-> o.id, key |-> o.key]
NoOrder == [id |-> 0, key |-> AnyKey]
Shut    == [no |-> 0, shows |-> "nothing"]

IsBuy(o)      == o.key \in Buys
Claimable(o)  == o.fill \in {"part", "full"}
InGame(id)    == {o \in game : o.id = id}
DueToAge(k)   == AgeCancel /\ age[k].is = "stale"
IsYoung(k)    == age[k].is = "young"    \* is_order_below_min_cancel_age

-----------------------------------------------------------------------------
(* The command queue, as far as ManageOrders goes *)

HasManageOrders == queue # <<>> \/ run # {}

Work == runs + Cardinality(cancels)

Manage(cancel, target, id, urgent, interruptible) ==
    [cancel |-> cancel, target |-> target, id |-> id, urgent |-> urgent,
     interruptible |-> interruptible]

Enqueued(q, r) ==
    IF r.urgent
    THEN SelectSeq(q, LAMBDA x : x.urgent) \o <<r>>
             \o SelectSeq(q, LAMBDA x : ~ x.urgent)
    ELSE Append(q, r)

(* What a handler asks for when it leaves orders behind. *)
Requeued(cancel) ==
    IF HasManageOrders THEN queue
    ELSE Enqueued(queue, Manage(cancel, AnyKey, 0, FALSE, FALSE))

-----------------------------------------------------------------------------
(* The market *)

(* A bazaar command of the bot. *)
Place(k) ==
    /\ placed < MaxOrders /\ run = {} /\ ~ managing
    /\ placed' = placed + 1
    /\ game' = game \cup {[id |-> placed + 1, key |-> k, fill |-> "open"]}
    /\ age' = [age EXCEPT ![k] = [id |-> placed + 1, is |-> "young"]]
    /\ UNCHANGED <<queueVars, runVars, guiVars>>

(* Other players fill the order. *)
Fill(o) ==
    /\ \/ o.fill = "open" /\ game' = (game \ {o}) \cup {[o EXCEPT !.fill = "part"]}
       \/ o.fill # "full" /\ game' = (game \ {o}) \cup {[o EXCEPT !.fill = "full"]}
    /\ UNCHANGED <<placed, age, queueVars, runVars, guiVars>>

(* 5 min since the last order of the key was logged, then the threshold of *)
(* cancelling for age.                                                     *)
Grow(k) ==
    /\ \/ IsYoung(k) /\ age' = [age EXCEPT ![k].is = "grown"]
       \/ AgeCancel /\ age[k].is = "grown" /\ age' = [age EXCEPT ![k].is = "stale"]
    /\ UNCHANGED <<game, placed, queueVars, runVars, guiVars>>

-----------------------------------------------------------------------------
(* What asks for a run *)

(* The event loop of main.rs handles the chat message of a full order.     *)
HandleFilled(o) ==
    /\ o.fill = "full" /\ ~ HasManageOrders
    /\ queue' = Enqueued(queue, Manage(FALSE, AnyKey, 0, FALSE, TRUE))
    /\ UNCHANGED <<marketVars, cancels, run, starting, runs, runVars, guiVars>>

(* The periodic check.  Without AgeCancel it also depends on the tracker,  *)
(* which is not in this module: it may happen.                             *)
PeriodicCheck ==
    /\ ~ managing /\ ~ HasManageOrders
    /\ queue' = Enqueued(queue, Manage(FALSE, AnyKey, 0, FALSE, FALSE))
    /\ UNCHANGED <<marketVars, cancels, run, starting, runs, runVars, guiVars>>

Cancel(r) ==
    /\ Work < MaxWork /\ Cardinality(cancels) < MaxCancels
    /\ cancels' = cancels \cup {r}
    /\ queue' = Enqueued(queue, r)
    /\ UNCHANGED <<marketVars, run, starting, runs, runVars, guiVars>>

(* The panel's cancel button, and COFL's cancelOrder, which names a price. *)
CancelOrder(o) ==
    \E id \in {0, o.id} : Cancel(Manage(TRUE, o.key, id, TRUE, FALSE))

(* The panel's "cancel all"; at startup the same run, not urgent.          *)
CancelAll ==
    Cancel(Manage(TRUE, AnyKey, 0, TRUE, FALSE))

-----------------------------------------------------------------------------
(* The run, as the processor loop and the timers see it *)

Begins ==
    /\ Len(asks) < MaxAsks
    /\ starting' = FALSE
    /\ processed' = {}
    /\ managing' = TRUE
    /\ asks' = Append(asks, [for |-> "list", id |-> 0])

(* The loop sends it to the bot, which first closes a window left open.    *)
Start ==
    /\ run = {} /\ queue # <<>> /\ Work < MaxWork
    /\ runs' = runs + 1
    /\ run' = {Head(queue)}
    /\ queue' = Tail(queue)
    /\ window' = Shut
    /\ \/ window = Shut /\ Begins
       \/ /\ window # Shut
          /\ starting' = TRUE
          /\ UNCHANGED <<processed, managing, asks>>
    /\ UNCHANGED <<marketVars, cancels, context, failures, handlers>>

(* It has slept 150 ms for that.                                           *)
Execute ==
    /\ starting /\ Begins
    /\ UNCHANGED <<marketVars, cancels, queue, run, runs, context, failures,
                   window, handlers>>

Complete ==
    /\ run # {} /\ ~ starting /\ ~ managing
    /\ run' = {}
    /\ UNCHANGED <<marketVars, cancels, queue, starting, runs, runVars, guiVars>>

(* The retry task sends /bz again when no window has come. *)
Resend ==
    /\ managing /\ window = Shut
    /\ Prompt => asks = <<>>
    /\ Len(asks) < MaxAsks
    /\ asks' = Append(asks, [for |-> "list", id |-> 0])
    /\ UNCHANGED <<marketVars, queueVars, runVars, window, handlers>>

(* The retry task, the GUI watchdog or the deadline of the processor loop  *)
(* gives up; the watchdog has closed the window before (Closes).     *)
GiveUp ==
    /\ managing
    /\ Prompt => \A a \in ToSet(asks) : a.for # "list"
    /\ managing' = FALSE
    /\ UNCHANGED <<marketVars, queueVars, processed, context, failures, guiVars>>

(* Something more urgent came; the window is left open. *)
Preempt ==
    /\ managing /\ \E r \in run : r.interruptible
    /\ managing' = FALSE
    /\ UNCHANGED <<marketVars, queueVars, processed, context, failures, guiVars>>

-----------------------------------------------------------------------------
(* The server answers in the order it was asked.  A window it opens finds  *)
(* a handler, which reads the state of the bot at once.                    *)

Mode == LET r == CHOOSE r \in run : TRUE
        IN  [cancel |-> r.cancel, target |-> r.target, id |-> r.id]

Fresh == CHOOSE n \in 1 .. MaxWindows + 2 :
             n # window.no /\ \A h \in handlers : h.win # n

Handler(at, about) ==
    [win |-> Fresh, at |-> at, about |-> about, order |-> NoOrder,
     more |-> FALSE, goal |-> "none", young |-> FALSE, already |-> FALSE,
     said |-> FALSE, mode |-> Mode]

(* check_manage_orders_deadline, or AH flips are coming: the run is over.  *)
Dismissed ==
    /\ window' = Shut
    /\ managing' = FALSE
    /\ UNCHANGED handlers

OpensList ==
    /\ \/ /\ ~ managing
          /\ window' = [no |-> Fresh, shows |-> "list"]
          /\ UNCHANGED <<managing, handlers>>
       \/ managing /\ Dismissed
       \/ /\ managing
          /\ window' = [no |-> Fresh, shows |-> "list"]
          /\ handlers' = handlers \cup {Handler("scan", 0)}
          /\ UNCHANGED managing
    /\ UNCHANGED processed

GoalWhateverItsAge(k) ==          \* mutant: no protection of young orders
    IF Mode.cancel \/ (k \in Keys /\ DueToAge(k)) THEN "cancel" ELSE "collect"

Goal(k) ==
    IF k \in Keys /\ IsYoung(k) THEN "collect"
    ELSE IF Mode.cancel \/ (k \in Keys /\ DueToAge(k)) THEN "cancel"
    ELSE "collect"

(* The options of an order; that it is the order of the context, the       *)
(* handler takes for granted.                                              *)
OpensOptions(o) ==
    LET k     == context.key
        goal  == Goal(k)
        young == k \in Keys /\ IsYoung(k)
        tired == k \in Keys /\ goal = "cancel" /\ failures[k] >= MaxCancelRetries
    IN  \/ /\ ~ managing
           /\ window' = [no |-> Fresh, shows |-> "options"]
           /\ UNCHANGED <<managing, handlers, processed>>
        \/ /\ managing
           /\ Dismissed
           /\ processed' \in {processed, IF tired THEN processed \cup {k}
                                         ELSE processed}
        \/ /\ managing /\ k \notin processed /\ ~ tired
           /\ window' = [no |-> Fresh, shows |-> "options"]
           /\ handlers' = handlers \cup
                 {[Handler("probe", o.id) EXCEPT !.order = context,
                                                 !.goal = goal, !.young = young]}
           /\ UNCHANGED <<managing, processed>>

NothingOpens == UNCHANGED <<window, managing, handlers, processed>>

Claims(o) ==
    game' = (game \ {o}) \cup
               (IF o.fill = "part" THEN {[o EXCEPT !.fill = "rest"]} ELSE {})

Answer ==
    /\ asks # <<>> /\ Cardinality(handlers) < MaxWindows
    /\ asks' = Tail(asks)
    /\ LET a == Head(asks)
       IN  \/ a.for = "list" /\ OpensList /\ UNCHANGED game
           \/ \E o \in InGame(a.id) :
                 \/ /\ a.for = "click" /\ o.fill = "full"
                    /\ Claims(o)
                    /\ OpensList \/ NothingOpens
                 \/ /\ a.for = "click" /\ o.fill # "full"
                    /\ OpensOptions(o)
                    /\ UNCHANGED game
                 \/ /\ a.for = "collect" /\ Claimable(o)
                    /\ Claims(o)
                    /\ OpensList \/ NothingOpens
                 \/ /\ a.for = "cancel"
                    /\ game' = game \ {o}
                    /\ OpensList \/ NothingOpens
           \/ UNCHANGED game /\ NothingOpens          \* lost or refused
    /\ UNCHANGED <<placed, age, queueVars, context, failures>>

(* The server closes the window, or the GUI watchdog does.                 *)
Closes ==
    /\ window # Shut /\ window' = Shut
    /\ UNCHANGED <<marketVars, queueVars, runVars, asks, handlers>>

-----------------------------------------------------------------------------
(* The handler of the orders list *)

Open(h)     == window.no = h.win
Closed(h)   == IF Open(h) THEN Shut ELSE window
Becomes(h, g) == handlers' = (handlers \ {h}) \cup {g}
Ends(h)     == handlers' = handlers \ {h}
Waits(what, id) == [for |-> what, id |-> id] \in ToSet(asks)
Asks(what, id) ==
    /\ Len(asks) < MaxAsks
    /\ asks' = Append(asks, [for |-> what, id |-> id])

(* What it sees: the orders whose key this run has not processed.          *)
Listed == {o \in game : o.key \notin processed}

FirstTier(tiers) ==
    LET I == {i \in DOMAIN tiers : tiers[i] # {}}
    IN  IF I = {} THEN {} ELSE tiers[CHOOSE i \in I : \A j \in I : i <= j]

(* What it may choose, by the slots of the window; the nearest price may   *)
(* be that of any order of the key when the one asked for is gone.         *)
Candidates(r, full) ==
    LET sells == {o \in Listed : ~ IsBuy(o)}
        buys  == {o \in Listed : IsBuy(o)}
        same  == {o \in Listed : o.key = r.target}
        due(S)     == {o \in S : ~ Claimable(o) /\ DueToAge(o.key)}
        claimed(S) == {o \in S : Claimable(o)}
    IN  IF r.target # AnyKey
        THEN FirstTier(<<same \cap InGame(r.id), same>>)
        ELSE IF r.cancel THEN FirstTier(<<sells, buys>>)
        ELSE FirstTier(<<claimed(sells), IF full THEN {} ELSE claimed(buys),
                         due(sells), due(buys)>>)

Processed(h) == processed \cup ({h.order.key} \ {AnyKey})

ListEnds(h) ==
    /\ window' = Closed(h)
    /\ managing' = FALSE
    /\ Ends(h)
    /\ UNCHANGED asks

ClickBeforeContext(h, o) ==       \* mutant: the context is left as it was
    /\ UNCHANGED context
    /\ Asks("click", o.id)
    /\ Becomes(h, [h EXCEPT !.at = "clicked", !.order = Name(o),
                            !.more = Cardinality(Listed) > 1])
    /\ UNCHANGED <<managing, processed, window>>

ClickOrder(h, o) ==
    /\ context' = Name(o)
    /\ Asks("click", o.id)
    /\ Becomes(h, [h EXCEPT !.at = "clicked", !.order = Name(o),
                            !.more = Cardinality(Listed) > 1])
    /\ UNCHANGED <<managing, processed, window>>

ListScan(h) ==
    /\ h.at = "scan"
    /\ \/ /\ window' = Shut /\ managing' = FALSE  \* check_manage_orders_deadline
          /\ Ends(h)
          /\ UNCHANGED <<processed, context, asks>>
       \/ /\ ~ Open(h)
          /\ Ends(h)
          /\ UNCHANGED <<managing, processed, context, window, asks>>
       \/ /\ Open(h) /\ \E full \in BOOLEAN : Candidates(h.mode, full) = {}
          /\ ListEnds(h)
          /\ UNCHANGED <<processed, context>>
       \/ \E o \in Candidates(h.mode, FALSE) \cup Candidates(h.mode, TRUE) :
             /\ Open(h) /\ IsBuy(o) /\ ~ h.mode.cancel   \* no room, it turns out
             /\ processed' = processed \cup {o.key}
             /\ ListEnds(h)
             /\ UNCHANGED context
       \/ \E o \in Candidates(h.mode, FALSE) \cup Candidates(h.mode, TRUE) :
             Open(h) /\ ClickOrder(h, o)
    /\ UNCHANGED <<marketVars, queueVars, failures>>

(* The options opened, or it must be assumed: that window's handler takes  *)
(* over, and the run with it.                                              *)
ListLeaves(h) ==
    /\ h.at = "clicked"
    /\ \/ ~ Open(h) /\ window.shows # "list"
       \/ Open(h) /\ IsBuy(h.order)              \* no room to claim it
    /\ window' = Closed(h)
    /\ Ends(h)
    /\ UNCHANGED <<marketVars, queueVars, runVars, asks>>

(* Another list, or no answer within 5 s: taken for a collection. *)
ListConcludes(h) ==
    /\ h.at = "clicked"
    /\ \/ ~ Open(h) /\ window.shows = "list"
       \/ Open(h) /\ (Prompt => ~ Waits("click", h.order.id))
    /\ processed' = Processed(h)
    /\ ListEnds(h)
    /\ queue' = IF h.more /\ h.mode.target = AnyKey
                THEN Requeued(h.mode.cancel) ELSE queue
    /\ UNCHANGED <<marketVars, cancels, run, starting, runs, context, failures>>

-----------------------------------------------------------------------------
(* The handler of the options of one order *)

(* The order whose buttons the window shows.                               *)
Shown(h) == IF Open(h) THEN InGame(h.about) ELSE {}

OptionsEnds(h, requeues) ==
    /\ processed' = Processed(h)
    /\ window' = Closed(h)
    /\ managing' = FALSE
    /\ Ends(h)
    /\ queue' = IF requeues THEN Requeued(h.mode.cancel) ELSE queue
    /\ UNCHANGED asks

Clicks(h, what, said) ==
    /\ Asks(what, h.about)
    /\ Becomes(h, [h EXCEPT !.at = what, !.already = (h.at = "collect"),
                            !.said = said])
    /\ UNCHANGED <<processed, window, managing, queue>>

(* It looks for the buttons.  To collect only, it needs a Collect; to      *)
(* cancel, it collects first what there is.                                *)
OptionsProbe(h) ==
    /\ h.at = "probe"
    /\ \/ /\ \E o \in Shown(h) : Claimable(o)
          /\ Clicks(h, "collect", FALSE)
       \/ /\ h.goal = "cancel" /\ \E o \in Shown(h) : ~ Claimable(o)
          /\ Clicks(h, "cancel", FALSE)
       \/ /\ \A o \in Shown(h) : h.goal = "collect" /\ ~ Claimable(o)
          /\ OptionsEnds(h, h.goal = "cancel")
    /\ UNCHANGED <<marketVars, cancels, run, starting, runs, context, failures>>

(* The confirmation it waits for is that the window changed or the button  *)
(* is gone; after 3 s it waits no longer.                                  *)
Confirmed(h) ==
    IF h.at = "collect" THEN \A o \in Shown(h) : ~ Claimable(o)
                        ELSE Shown(h) = {}
Concludes(h) == Confirmed(h) \/ (Prompt => ~ Waits(h.at, h.about))

(* After collecting, what is left is cancelled: always when it came to     *)
(* cancel, else only of a buy order old enough.                            *)
OptionsCollected(h) ==
    /\ h.at = "collect" /\ Concludes(h)
    /\ LET cancels2 == /\ Shown(h) # {}
                       /\ \/ h.goal = "cancel"
                          \/ Confirmed(h) /\ IsBuy(h.order) /\ ~ h.young
       IN  IF cancels2 THEN Clicks(h, "cancel", Confirmed(h))
           ELSE OptionsEnds(h, TRUE)
    /\ UNCHANGED <<marketVars, cancels, run, starting, runs, context, failures>>

(* The count of failed cancels is kept at the limit it is compared with.   *)
OptionsCancelled(h) ==
    /\ h.at = "cancel" /\ Concludes(h)
    /\ failures' =
         [k \in Keys |->
             IF k # h.order.key THEN failures[k]
             ELSE IF Confirmed(h) THEN 0
             ELSE IF h.goal = "cancel" /\ failures[k] < MaxCancelRetries
             THEN failures[k] + 1 ELSE failures[k]]
    /\ OptionsEnds(h, TRUE)
    /\ UNCHANGED <<marketVars, cancels, run, starting, runs, context>>

-----------------------------------------------------------------------------
Init ==
    /\ game = OrdersAtStart /\ placed = Cardinality(OrdersAtStart)
    /\ age = [k \in Keys |->
                 IF \E o \in OrdersAtStart : o.key = k
                 THEN [id |-> (CHOOSE o \in OrdersAtStart : o.key = k).id,
                       is |-> "grown"]
                 ELSE [id |-> 0, is |-> "unlogged"]]
    /\ cancels = {} /\ queue = <<>> /\ run = {} /\ runs = 0 /\ starting = FALSE
    /\ managing = FALSE /\ processed = {} /\ context = NoOrder
    /\ failures = [k \in Keys |-> 0]
    /\ window = Shut /\ asks = <<>> /\ handlers = {}

MarketStep  == \/ \E k \in Keys : Place(k) \/ Grow(k)
               \/ \E o \in game : Fill(o)
RequestStep == \/ CancelAll \/ PeriodicCheck
               \/ \E o \in game : CancelOrder(o) \/ HandleFilled(o)
LoopStep    == Start \/ Execute \/ Complete
TimerStep   == Resend \/ GiveUp \/ Preempt
HandlerStep ==
    \E h \in handlers :
        \/ ListScan(h) \/ ListLeaves(h) \/ ListConcludes(h)
        \/ OptionsProbe(h) \/ OptionsCollected(h) \/ OptionsCancelled(h)

Next == MarketStep \/ RequestStep \/ LoopStep \/ TimerStep \/ Answer
        \/ Closes \/ HandlerStep

Spec == Init /\ [][Next]_vars
-----------------------------------------------------------------------------
(* Properties *)

(* Every variable ranges over the values the code can give it. *)
TypeOK ==
    /\ game \subseteq Order /\ placed \in 0 .. MaxOrders
    /\ age \in [Keys -> Age] /\ cancels \subseteq Request
    /\ queue \in Seq(Request) /\ run \subseteq Request
    /\ starting \in BOOLEAN /\ runs \in 0 .. MaxWork
    /\ managing \in BOOLEAN /\ processed \subseteq Keys
    /\ context \in {NoOrder} \cup [id : 1 .. MaxOrders, key : Keys]
    /\ failures \in [Keys -> 0 .. MaxCancelRetries]
    /\ asks \in Seq(Ask)
    /\ \A h \in handlers : h.win \in 1 .. MaxWindows + 2

(* The options handler works on the order its window is about, though all  *)
(* it has is the shared context the last click left.                       *)
RightContext ==
    \A h \in handlers : h.about # 0 => h.order.id = h.about

(* Orders that leave the game unfilled in a step, by a cancel. *)
Gone == {o \in game : o.fill # "full" /\ \A p \in game' : p.id # o.id}

Young(o) == age[o.key] = [id |-> o.id, is |-> "young"]

(* No order placed in the last 5 minutes is ever cancelled, whatever runs  *)
(* overlap ("Protect recently-placed orders (< 5 min) from cancellation,   *)
(* even in cancel_open (startup) mode.", bot/client.rs:6594).              *)
YoungOrdersKept == [][\A o \in Gone : ~ Young(o)]_vars

(* A cancelled order was asked to be cancelled, by itself or with all, or  *)
(* it was due to its age, or it is what was left of a buy order            *)
(* ("When set, only the matching order is cancelled instead of all open    *)
(* orders.", types.rs:349).                                                *)
CancelsOnlyWanted ==
    [][ \A o \in Gone : \/ \E r \in cancels : r.target \in {AnyKey, o.key}
                        \/ DueToAge(o.key)
                        \/ IsBuy(o) /\ o.fill = "rest" ]_vars

=============================================================================
