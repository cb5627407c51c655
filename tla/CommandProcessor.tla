-------------------------- MODULE CommandProcessor --------------------------
(***************************************************************************)
(* How a queued command is carried out.  Four kinds of task share the bot  *)
(* state, the open window and the queue:                                   *)
(*   - the processor loop (main.rs:5394) starts a command, drops it at one *)
(*     of its gates or sends it to the bot, and waits until the bot state  *)
(*     allows commands again, a deadline passes, or something more urgent  *)
(*     preempts an interruptible command;                                  *)
(*   - the bot's command_processor (bot/client.rs:3956) executes what it   *)
(*     is sent, one command after the other;                               *)
(*   - every window the server opens gets a handler and a GUI watchdog;    *)
(*   - every ManageOrders gets a retry task.                               *)
(* The queue is PriorityQueue, which CommandQueue implements.              *)
(*                                                                         *)
(* Time.  A tick is 5 s.  A timer set for n ticks expires at some moment   *)
(* of the n-th next tick, in any order with what else happens in it.       *)
(* What takes well under the loop's 250 ms poll (a receive, the body of a  *)
(* command that does not sleep) is over before the loop's next poll.       *)
(***************************************************************************)
EXTENDS Integers, Sequences, FiniteSets, CommandTypes

CONSTANTS
    Requests,           \* what the rest of the program enqueues
    MaxQueueSize,
    MaxRequests,        \* bound of the model: requests in a behaviour
    MaxWindows,         \* bound of the model: windows the server opens
    Toggles,            \* the flags other tasks change in this instance
    SkipFlipsWhenFull   \* skip_flips_when_inventory_full

Flag == {"macroPaused", "startup", "ahPause", "inventoryFull", "slotsFew",
         "slotsNearFew", "auctionLimit", "slotBlocked", "bazaarLimit"}

ASSUME RequestsAssumption ==
    Requests \subseteq [kind : CommandType, priority : CommandPriority,
                        interruptible : BOOLEAN, guard : BOOLEAN]
ASSUME ProcessorBounds ==
    /\ MaxQueueSize \in Nat /\ MaxRequests \in Nat /\ MaxWindows \in Nat
    /\ Toggles \subseteq Flag /\ SkipFlipsWhenFull \in BOOLEAN

VARIABLES
    pending, current,   \* the command queue
    nextId, requested,  \* the next fresh id, the requests made so far
    loop,               \* where the processor loop is
    patience,           \* ticks to the loop's deadline
    sellingFor,         \* ticks in selling mode, at most 6; None = -1
    flags,              \* what is set of startup_in_progress, the pause and
                        \* limit flags and the cached inventory facts
    channel,            \* commands sent to the bot and not yet received
    phase,              \* where command_processor is
    executing,          \* {} or the set of the command it executes
    generation,         \* command_generation: commands executed so far
    drowsy,             \* ticks the command sleeping in its body may still take
    state,              \* the bot state
    window,             \* last_window_id, 0: no container is open
    opened,             \* windows the server has opened so far
    asked,              \* chat commands and clicks the server may answer
                        \* with a window
    handlers,           \* running handle_window_interaction tasks
    watchdogs,          \* running GUI watchdogs
    retries,            \* running ManageOrders retry tasks
    manageDeadline      \* ticks to manage_orders_deadline, 0: passed or None

queueVars == <<pending, current, nextId>>
loopVars  == <<loop, patience, sellingFor>>
execVars  == <<channel, phase, executing, generation, drowsy>>
guiVars   == <<opened, asked, handlers, watchdogs, retries, manageDeadline>>
vars == <<queueVars, requested, loopVars, flags, execVars, state, window,
          guiVars>>

Command == [id : 1 .. 3 * MaxRequests + MaxWindows, kind : CommandType,
            priority : CommandPriority, interruptible : BOOLEAN]

Queue == INSTANCE PriorityQueue

StartupEssential ==
    {"CheckCookie", "ManageOrders", "ClaimSoldItem", "ClaimPurchasedItem"}
SellingKinds ==
    {"SellToAuction", "BazaarSellOrder", "ManageOrders", "ClaimSoldItem",
     "SellInventoryBz", "CancelAuction"}
Sleeping == {"ClickSlot", "GoToIsland"}

(* The state a command's body leaves the bot in, if it changes it.         *)
BusyState(k) ==
    CASE k = "PurchaseAuction"    -> "Purchasing"
      [] k \in BazaarOrder        -> "Bazaar"
      [] k = "SellToAuction"      -> "Selling"
      [] k = "ClaimSoldItem"      -> "ClaimingSold"
      [] k = "ClaimPurchasedItem" -> "ClaimingPurchased"
      [] k = "CheckCookie"        -> "CheckingCookie"
      [] k = "ManageOrders"       -> "ManagingOrders"
      [] k = "CancelAuction"      -> "CancellingAuction"
      [] k = "SellInventoryBz"    -> "SellingInventoryBz"
      [] OTHER                    -> "Idle"

(* Window-driven states the GUI watchdog may end. *)
Interactive ==
    {"Purchasing", "Bazaar", "Selling", "ClaimingPurchased", "ClaimingSold",
     "InstaSelling", "CancellingAuction", "SellingInventoryBz",
     "ManagingOrders"}

(* Ticks of the loop's deadline: 60, 15, 20, 15 and 10 s.                  *)
Timeout(k) ==
    CASE k \in {"ClaimPurchasedItem", "ClaimSoldItem", "CheckCookie"} -> 12
      [] k \in {"ManageOrders", "SellToAuction"} -> 3
      [] k \in BazaarOrder -> 4
      [] OTHER -> 2

Request(k, p, i) == [id |-> nextId, kind |-> k, priority |-> p,
                     interruptible |-> i]
HasManageOrders == \E c \in pending \cup current : c.kind = "ManageOrders"

-----------------------------------------------------------------------------
(* The rest of the program *)

(* A guarded request is not made while a ManageOrders is pending or        *)
(* current.                                                                *)
Enqueue ==
    /\ requested < MaxRequests
    /\ \E r \in Requests :
          /\ ~ (r.guard /\ HasManageOrders)
          /\ pending' = Bounded(pending \cup {Request(r.kind, r.priority,
                                                      r.interruptible)},
                                MaxQueueSize)
    /\ nextId' = nextId + 1
    /\ requested' = requested + 1
    /\ UNCHANGED <<current, loopVars, flags, execVars, state, window, guiVars>>

(* Hypixel chat, COFL messages, inventory packets and the web panel set    *)
(* and clear the flags.                                                    *)
Toggle ==
    /\ \E f \in Toggles : flags' = IF f \in flags THEN flags \ {f}
                                   ELSE flags \cup {f}
    /\ UNCHANGED <<queueVars, requested, loopVars, execVars, state, window,
                   guiVars>>

-----------------------------------------------------------------------------
(* The processor loop's gates *)

IsFull(f) == {"inventoryFull", "slotsFew"} \subseteq f

Take ==
    /\ loop = "take"
    /\ "macroPaused" \notin flags
    /\ Queue!Start
    /\ loop' = "gate"
    /\ UNCHANGED <<nextId, requested, patience, sellingFor, flags, execVars,
                   state, window, guiVars>>

HeldForStartup(c) == "startup" \in flags /\ c.kind \notin StartupEssential

PauseHoldsManage(c) ==            \* mutant: no exception for a full inventory
    /\ "ahPause" \in flags
    /\ c.kind \in {"BazaarBuyOrder", "ManageOrders"}

HeldForPause(c) ==
    /\ "ahPause" \in flags
    /\ \/ c.kind = "BazaarBuyOrder"
       \/ c.kind = "ManageOrders" /\ ~ IsFull(flags)

(* is_inventory_full clears a flag the slot count contradicts; after more  *)
(* than 30 s of selling mode the loop clears it whatever the slots say.    *)
Overdue == IsFull(flags) /\ sellingFor = 6
Rechecked ==
    IF Overdue \/ "slotsFew" \notin flags THEN flags \ {"inventoryFull"}
    ELSE flags
SellingSince ==
    IF Overdue \/ ~ IsFull(flags) THEN -1
    ELSE IF sellingFor = -1 THEN 0 ELSE sellingFor

HeldForSpace(c) ==
    /\ IsFull(Rechecked)
    /\ c.kind \notin SellingKinds
    /\ SkipFlipsWhenFull \/ c.kind # "PurchaseAuction"

HeldForLimit(c) ==
    \/ c.kind = "SellToAuction" /\ {"auctionLimit", "slotBlocked"} \cap flags # {}
    \/ c.kind = "ClaimPurchasedItem" /\ "slotsNearFew" \in flags
    \/ c.kind = "BazaarBuyOrder" /\ "bazaarLimit" \in flags

(* A held command is completed without having been sent: it is gone.       *)
DropEarly(c) ==
    /\ \/ HeldForStartup(c) /\ UNCHANGED flags
       \/ /\ ~ HeldForStartup(c)
          /\ HeldForPause(c)
          /\ flags' = IF "slotsFew" \in flags THEN flags
                      ELSE flags \ {"inventoryFull"}
    /\ Queue!Finish
    /\ UNCHANGED <<nextId, sellingFor>>

DropAtLimit(c) ==
    /\ ~ HeldForSpace(c)
    /\ HeldForLimit(c)
    /\ flags' = Rechecked
    /\ sellingFor' = SellingSince
    /\ Queue!Finish
    /\ UNCHANGED nextId

(* Selling mode: the drop makes sure that orders are collected and, at     *)
(* most every 90 s, that the inventory is sold off on the bazaar.          *)
DropForSpace(c) ==
    /\ HeldForSpace(c)
    /\ flags' = Rechecked
    /\ sellingFor' = SellingSince
    /\ current' = {}
    /\ \E sellAll \in BOOLEAN :
       LET rest   == pending
           manage == IF \E d \in rest : d.kind = "ManageOrders" THEN {}
                     ELSE {Request("ManageOrders", High, FALSE)}
           sale   == IF sellAll THEN {[Request("SellInventoryBz", High, FALSE)
                                          EXCEPT !.id = nextId + 1]}
                     ELSE {}
       IN  pending' = Bounded(Bounded(rest \cup manage, MaxQueueSize) \cup sale,
                              MaxQueueSize)
    /\ nextId' = nextId + 2

Drop ==
    /\ loop = "gate"
    /\ \E c \in current :
          \/ DropEarly(c)
          \/ /\ ~ HeldForStartup(c) /\ ~ HeldForPause(c)
             /\ DropAtLimit(c) \/ DropForSpace(c)
    /\ loop' = "take"
    /\ UNCHANGED <<requested, patience, execVars, state, window, guiVars>>

(* Past the gates: send_command, and the deadline starts to run.           *)
Send ==
    /\ loop = "gate"
    /\ \E c \in current :
          /\ ~ HeldForStartup(c) /\ ~ HeldForPause(c)
          /\ ~ HeldForSpace(c) /\ ~ HeldForLimit(c)
          /\ channel' = Append(channel, c)
          /\ patience' = Timeout(c.kind)
    /\ flags' = Rechecked
    /\ sellingFor' = SellingSince
    /\ loop' = "poll"
    /\ UNCHANGED <<queueVars, requested, phase, executing, generation, drowsy,
                   state, window, guiVars>>

-----------------------------------------------------------------------------
(* The processor loop's wait *)

(* command_processor is awake and has something to do. *)
BotMoving == phase = "body" \/ (phase = "recv" /\ channel # <<>>)

Preempted ==
    \E c \in current : c.interruptible /\ \E d \in pending :
                                              d.priority < c.priority

CompleteCurrent ==
    /\ Queue!Finish
    /\ loop' = "take"
    /\ patience' = 0
    /\ UNCHANGED <<nextId, requested, sellingFor, flags, execVars, window,
                   guiVars>>

PollFree ==
    /\ loop = "poll" /\ ~ BotMoving
    /\ AllowsCommands(state)
    /\ CompleteCurrent
    /\ UNCHANGED state

TimeoutKeepsState ==              \* mutant: no safety reset
    /\ loop = "poll" /\ ~ BotMoving
    /\ ~ AllowsCommands(state)
    /\ patience = 0
    /\ CompleteCurrent
    /\ UNCHANGED state

NoDeadline ==                     \* mutant: the deadline is not looked at
    FALSE /\ UNCHANGED vars

(* The deadline has passed: force Idle. *)
PollTimeout ==
    /\ loop = "poll" /\ ~ BotMoving
    /\ ~ AllowsCommands(state)
    /\ patience = 0
    /\ CompleteCurrent
    /\ state' = "Idle"

PollInterrupt ==
    /\ loop = "poll" /\ ~ BotMoving
    /\ ~ AllowsCommands(state)
    /\ patience > 0
    /\ Preempted
    /\ CompleteCurrent
    /\ state' = "Idle"

-----------------------------------------------------------------------------
(* command_processor *)

(* A command is received; a window still open is closed first (SafeClose). *)
Receive ==
    /\ phase = "recv"
    /\ channel # <<>>
    /\ executing' = {Head(channel)}
    /\ channel' = Tail(channel)
    /\ generation' = generation + 1
    /\ window' = 0
    /\ phase' = "body"
    /\ UNCHANGED <<queueVars, requested, loopVars, flags, drowsy, state,
                   guiVars>>

(* Bodies that return without doing anything: an auction without a UUID,   *)
(* a buy order at the order limit, a cookie check that is disabled.        *)
ReturnsEarly(k) ==
    \/ k \in {"PurchaseAuction", "CheckCookie"}
    \/ k = "BazaarBuyOrder" /\ "bazaarLimit" \in flags

(* Asks the server for a window, sets the busy state. *)
Execute ==
    /\ phase = "body"
    /\ \E c \in executing :
          /\ c.kind \notin Sleeping
          /\ \/ /\ ReturnsEarly(c.kind)
                /\ UNCHANGED <<state, asked, retries, manageDeadline>>
             \/ /\ ~ (c.kind = "BazaarBuyOrder" /\ "bazaarLimit" \in flags)
                /\ BusyState(c.kind) # "Idle"
                /\ state' = BusyState(c.kind)
                /\ asked' = asked \cup {generation}
                /\ IF c.kind = "ManageOrders"
                   THEN /\ retries' = retries \cup
                               {[gen |-> generation, left |-> 1, tries |-> 1]}
                        /\ manageDeadline' = 2
                   ELSE UNCHANGED <<retries, manageDeadline>>
             \/ /\ BusyState(c.kind) = "Idle"
                /\ UNCHANGED <<state, asked, retries, manageDeadline>>
    /\ executing' = {}
    /\ phase' = "recv"
    /\ UNCHANGED <<queueVars, requested, loopVars, flags, channel, generation,
                   drowsy, window, opened, handlers, watchdogs>>

(* ClickSlot and GoToIsland sleep in their body; the bot state does not    *)
(* show it.                                                                *)
Doze ==
    /\ phase = "body"
    /\ \E c \in executing : c.kind \in Sleeping
    /\ phase' = "asleep"
    /\ drowsy' = 1
    /\ UNCHANGED <<queueVars, requested, loopVars, flags, channel, executing,
                   generation, state, window, guiVars>>

Awake ==
    /\ phase = "asleep"
    /\ executing' = {}
    /\ phase' = "recv"
    /\ UNCHANGED <<queueVars, requested, loopVars, flags, channel, generation,
                   drowsy, state, window, guiVars>>

(* disconnect_requested: the task ends, the loop does not. *)
GoOffline ==
    /\ phase = "recv"
    /\ phase' = "offline"
    /\ UNCHANGED <<queueVars, requested, loopVars, flags, channel, executing,
                   generation, drowsy, state, window, guiVars>>

-----------------------------------------------------------------------------
(* Windows *)

OpenScreen ==
    /\ phase # "offline"
    /\ opened < MaxWindows
    /\ \E g \in asked :
          /\ asked' = asked \ {g}
          /\ window' = opened + 1
          /\ opened' = opened + 1
          /\ handlers' = handlers \cup {[win |-> opened + 1, gen |-> g,
                                         seen |-> "unread"]}
          /\ watchdogs' = watchdogs \cup {[win |-> opened + 1,
                                           gen |-> generation,
                                           left |-> 1, at |-> "asleep"]}
    /\ UNCHANGED <<queueVars, requested, loopVars, flags, execVars, state,
                   retries, manageDeadline>>

ContainerClose ==
    /\ window # 0
    /\ window' = 0
    /\ UNCHANGED <<queueVars, requested, loopVars, flags, execVars, state,
                   guiVars>>

(* A handler reads the bot state once, and acts on what it read.           *)
HandlerReads(h) ==
    /\ h.seen = "unread"
    /\ handlers' = (handlers \ {h}) \cup
                       IF AllowsCommands(state) THEN {}
                       ELSE {[h EXCEPT !.seen = state]}
    /\ UNCHANGED <<queueVars, requested, loopVars, flags, execVars, state,
                   window, opened, asked, watchdogs, retries, manageDeadline>>

(* It clicks on to a next window; the click is refused in a window that is *)
(* no longer the open one.                                                 *)
HandlerClicks(h) ==
    /\ h.seen \notin {"unread", "requeue"}
    /\ handlers' = handlers \ {h}
    /\ asked' = IF window = h.win THEN asked \cup {h.gen} ELSE asked
    /\ UNCHANGED <<queueVars, requested, loopVars, flags, execVars, state,
                   window, opened, watchdogs, retries, manageDeadline>>

(* It is done: closes the window and goes Idle, whatever the state is now. *)
(* A ManageOrders handler that leaves orders behind then re-queues.        *)
HandlerFinishes(h) ==
    /\ h.seen \notin {"unread", "requeue"}
    /\ state' = "Idle"
    /\ IF h.seen = "ManagingOrders"
       THEN /\ window' = IF window = h.win THEN 0 ELSE window
            /\ manageDeadline' = 0
            /\ flags' \in {flags, flags \ {"bazaarLimit"}}
            /\ \/ handlers' = handlers \ {h}
               \/ handlers' = (handlers \ {h}) \cup
                                  {[h EXCEPT !.seen = "requeue"]}
       ELSE /\ window' = 0
            /\ handlers' = handlers \ {h}
            /\ UNCHANGED <<flags, manageDeadline>>
    /\ UNCHANGED <<queueVars, requested, loopVars, execVars, opened,
                   asked, watchdogs, retries>>

HandlerRequeues(h) ==
    /\ h.seen = "requeue"
    /\ handlers' = handlers \ {h}
    /\ IF HasManageOrders
       THEN UNCHANGED <<pending, nextId>>
       ELSE /\ pending' = Bounded(pending \cup
                                      {Request("ManageOrders", Normal, FALSE)},
                                  MaxQueueSize)
            /\ nextId' = nextId + 1
    /\ UNCHANGED <<current, requested, loopVars, flags, execVars, state,
                   window, opened, asked, watchdogs, retries, manageDeadline>>

-----------------------------------------------------------------------------
(* The GUI watchdog of a window *)

WatchdogImpatient(d) ==           \* mutant: no waiting for ManagingOrders
    /\ d.at = "asleep" /\ d.left = 0
    /\ watchdogs' = (watchdogs \ {d}) \cup {[d EXCEPT !.at = "check"]}
    /\ UNCHANGED <<queueVars, requested, loopVars, flags, execVars, state,
                   window, opened, asked, handlers, retries, manageDeadline>>

(* After 5 s; ManagingOrders is left alone until its own deadline and a    *)
(* margin have passed.                                                     *)
WatchdogWakes(d) ==
    /\ d.at = "asleep" /\ d.left = 0
    /\ watchdogs' = (watchdogs \ {d}) \cup
          {IF state = "ManagingOrders" /\ manageDeadline > 0
           THEN [d EXCEPT !.at = "patient", !.left = manageDeadline + 1]
           ELSE [d EXCEPT !.at = "check"]}
    /\ UNCHANGED <<queueVars, requested, loopVars, flags, execVars, state,
                   window, opened, asked, handlers, retries, manageDeadline>>

(* It acts on a window that is still open in an interactive state, if no   *)
(* command was executed since it opened.  (bed_timing_active keeps it from *)
(* a Purchasing window.)                                                   *)
WatchdogChecks(d) ==
    /\ d.at = "check" \/ (d.at = "patient" /\ d.left = 0)
    /\ \/ watchdogs' = (watchdogs \ {d}) \cup
             IF window = d.win /\ state \in Interactive /\ generation = d.gen
             THEN {[d EXCEPT !.at = IF state = "ManagingOrders"
                                   THEN "fireManaging" ELSE "fire"]}
             ELSE {}
       \/ state = "Purchasing" /\ watchdogs' = watchdogs \ {d}
    /\ UNCHANGED <<queueVars, requested, loopVars, flags, execVars, state,
                   window, opened, asked, handlers, retries, manageDeadline>>

WatchdogFires(d) ==
    /\ d.at \in {"fire", "fireManaging"}
    /\ watchdogs' = watchdogs \ {d}
    /\ window' = 0
    /\ state' = "Idle"
    /\ IF d.at = "fireManaging"
       THEN /\ manageDeadline' = 0
            /\ flags' = flags \ {"bazaarLimit"}
       ELSE UNCHANGED <<manageDeadline, flags>>
    /\ UNCHANGED <<queueVars, requested, loopVars, execVars, opened, asked,
                   handlers, retries>>

-----------------------------------------------------------------------------
(* The retry task of a ManageOrders: /bz again after 5 s without a window, *)
(* Idle after 5 s more.                                                    *)

RetryWakes(r) ==
    /\ r.left = 0
    /\ IF state # "ManagingOrders" \/ window # 0
       THEN /\ retries' = retries \ {r}
            /\ UNCHANGED <<state, asked>>
       ELSE IF r.tries = 1
       THEN /\ retries' = (retries \ {r}) \cup
                              {[r EXCEPT !.left = 1, !.tries = 2]}
            /\ asked' = asked \cup {r.gen}
            /\ UNCHANGED state
       ELSE /\ retries' = retries \ {r}
            /\ state' = "Idle"
            /\ UNCHANGED asked
    /\ UNCHANGED <<queueVars, requested, loopVars, flags, execVars, window,
                   opened, handlers, watchdogs, manageDeadline>>

-----------------------------------------------------------------------------
(* Nothing that is due may be late: the loop's poll, the bot's work and    *)
(* every expired timer come before the next tick.                          *)
Due ==
    \/ BotMoving
    \/ loop = "gate"
    \/ loop = "take" /\ pending # {} /\ "macroPaused" \notin flags
    \/ loop = "poll" /\ (AllowsCommands(state) \/ patience = 0 \/ Preempted)
    \/ phase = "asleep" /\ drowsy = 0
    \/ \E d \in watchdogs : d.left = 0 \/ d.at \in {"check", "fire", "fireManaging"}
    \/ \E r \in retries : r.left = 0
    \/ \E h \in handlers : h.seen \in {"unread", "requeue"}

Less(n) == IF n = 0 THEN 0 ELSE n - 1

Tick ==
    /\ ~ Due
    /\ \/ loop = "poll" \/ phase = "asleep" \/ watchdogs # {} \/ retries # {}
       \/ manageDeadline > 0 \/ sellingFor \in 0 .. 5
    /\ patience' = Less(patience)
    /\ sellingFor' = IF sellingFor \in 0 .. 5 THEN sellingFor + 1 ELSE sellingFor
    /\ drowsy' = Less(drowsy)
    /\ watchdogs' = {[d EXCEPT !.left = Less(@)] : d \in watchdogs}
    /\ retries' = {[r EXCEPT !.left = Less(@)] : r \in retries}
    /\ manageDeadline' = Less(manageDeadline)
    /\ UNCHANGED <<queueVars, requested, loop, flags, channel, phase, executing,
                   generation, state, window, opened, asked, handlers>>

Init ==
    /\ pending = {} /\ current = {} /\ nextId = 1 /\ requested = 0
    /\ loop = "take" /\ patience = 0 /\ sellingFor = -1
    /\ flags = {}
    /\ channel = <<>> /\ phase = "recv" /\ executing = {} /\ generation = 0
    /\ drowsy = 0
    /\ state = "GracePeriod"
    /\ window = 0 /\ opened = 0 /\ asked = {}
    /\ handlers = {} /\ watchdogs = {} /\ retries = {}
    /\ manageDeadline = 0

LoopStep == Take \/ Drop \/ Send \/ PollFree \/ PollTimeout \/ PollInterrupt
BotStep  == Receive \/ Execute \/ Doze \/ Awake
TaskStep ==
    \/ \E d \in watchdogs :
          WatchdogWakes(d) \/ WatchdogChecks(d) \/ WatchdogFires(d)
    \/ \E r \in retries : RetryWakes(r)
    \/ \E h \in handlers : HandlerReads(h) \/ HandlerRequeues(h)
ServerStep ==
    \/ OpenScreen \/ ContainerClose
    \/ \E h \in handlers : HandlerClicks(h) \/ HandlerFinishes(h)

Next ==
    \/ Enqueue \/ Toggle \/ GoOffline
    \/ LoopStep \/ BotStep \/ TaskStep \/ ServerStep \/ Tick

Spec == Init /\ [][Next]_vars

(* The runtime keeps every task moving and time passes.  Nothing is asked  *)
(* of the server, of the handlers that wait for it, or of the callers.     *)
Fairness ==
    /\ WF_vars(LoopStep) /\ WF_vars(BotStep) /\ WF_vars(TaskStep)
    /\ WF_vars(Tick)

FairSpec == Spec /\ Fairness
-----------------------------------------------------------------------------
(* Properties *)

(* Every variable ranges over the values the code can give it, and at most *)
(* one command is current and at most one is executed at a time.           *)
TypeOK ==
    /\ pending \subseteq Command /\ current \subseteq Command
    /\ executing \subseteq Command /\ channel \in Seq(Command)
    /\ Cardinality(current) <= 1 /\ Cardinality(executing) <= 1
    /\ \A c, d \in pending \cup current : c.id = d.id => c = d
    /\ nextId \in Nat /\ requested \in 0 .. MaxRequests
    /\ loop \in {"take", "gate", "poll"} /\ patience \in 0 .. 12
    /\ sellingFor \in -1 .. 6 /\ flags \subseteq Flag
    /\ phase \in {"recv", "body", "asleep", "offline"}
    /\ generation \in Nat /\ drowsy \in 0 .. 1
    /\ state \in BotState
    /\ window \in 0 .. opened /\ opened \in 0 .. MaxWindows
    /\ asked \subseteq 0 .. generation
    /\ handlers \subseteq [win : 1 .. opened, gen : 1 .. generation,
                           seen : BotState \cup {"unread", "requeue"}]
    /\ watchdogs \subseteq [win : 1 .. opened, gen : 1 .. generation,
                            left : 0 .. 3,
                            at : {"asleep", "patient", "check", "fire",
                                  "fireManaging"}]
    /\ retries \subseteq [gen : 1 .. generation, left : 0 .. 1, tries : 1 .. 2]
    /\ manageDeadline \in 0 .. 2

(* A command is executed only when the bot is free: two commands never     *)
(* drive the windows at the same time, through any preemption, deadline or *)
(* stale window (main.rs:5682-5725).                                       *)
ExecutesWhenFree == phase = "body" => AllowsCommands(state)

(* What the bot executes is the command the queue holds as current: the    *)
(* loop does not complete a command before it was carried out ("Safe:      *)
(* commands execute sequentially from the queue processor.",               *)
(* bot/client.rs:4059).                                                    *)
ExecutesCurrent == executing \subseteq current

(* No GUI watchdog decides to close a ManageOrders window before the       *)
(* deadline of that ManageOrders has passed: the handler in it is given    *)
(* its full time (bot/client.rs:3504-3514).                                *)
ManageWindowKept ==
    [][ \A d \in watchdogs :
            /\ d.at # "fireManaging"
            /\ [d EXCEPT !.at = "fireManaging"] \in watchdogs'
            => manageDeadline = 0 ]_vars

(* A watchdog never closes the window, or resets the state, of a command   *)
(* executed after its own window opened ("prevents a stale watchdog from   *)
(* interrupting a new command", bot/client.rs:3489).                       *)
WatchdogSparesNewCommand ==
    [][ \A d \in watchdogs :
            d.at \in {"fire", "fireManaging"} /\ d \notin watchdogs'
            => d.gen = generation ]_vars

(* A retry task acts for its own ManageOrders only ("The handler finishing *)
(* fast is already covered by the state check above: it leaves             *)
(* `ManagingOrders`, so no spurious retry is sent.", bot/client.rs:4439).  *)
RetryForItsOwn ==
    [][ \A r \in retries :
            r \notin retries' /\ (state' # state \/ asked' # asked)
            => r.gen = generation ]_vars

(* A command the startup gate holds back is still there afterwards ("All   *)
(* other commands are deferred until startup completes", main.rs:5429).    *)
DeferredCommandKept ==
    [][ \A c \in current :
            loop = "gate" /\ loop' = "take" /\ HeldForStartup(c)
            => \E d \in pending' : d.kind = c.kind ]_vars

(* The queue is never blocked: a started command is completed, whatever    *)
(* the server does or does not do.                                         *)
CommandCompletes == current # {} ~> current = {}

(* Selling mode works towards its end, in the AH flip window too: once a   *)
(* command is refused for lack of space, orders are collected, unless room *)
(* is found before (main.rs:594-597 and 5575-5587).                        *)
SellingModeCollects ==
    (loop = "gate" /\ \E c \in current : /\ c.kind # "BazaarBuyOrder"
                                         /\ HeldForSpace(c))
    ~> \/ state = "ManagingOrders" \/ ~ IsFull(flags)
       \/ "startup" \in flags \/ phase = "offline"
=============================================================================
