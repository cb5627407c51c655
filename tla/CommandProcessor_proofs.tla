------------------------ MODULE CommandProcessor_proofs ------------------------
(***************************************************************************)
(* Proofs about CommandProcessor: for any requests, any number of commands *)
(* and windows, and any limit of the queue.                                *)
(***************************************************************************)
EXTENDS MCCommandProcessor, TLAPS

-----------------------------------------------------------------------------
(* One command at a time drives the windows *)

(* The loop sends a command only to a free bot, and while the command is   *)
(* neither received nor begun nothing makes the bot busy.                  *)
Turns ==
    /\ phase \in {"recv", "body", "offline"} /\ loop \in {"take", "gate", "poll"}
    /\ phase = "offline" \/ loop = "poll" \/ (channel = <<>> /\ phase = "recv")
    /\ phase \in {"recv", "body"} => \/ AllowsCommands(state)
                                     \/ loop = "poll" /\ ~ BotMoving
    /\ phase = "body" => channel = <<>> /\ loop = "poll"
    /\ phase = "recv" => channel = <<>> \/ \E c : channel = <<c>>

(* No command that waits or is carried out sleeps in its body. *)
Awakes(cs) == \A c \in cs : c.kind \notin Sleeping

NoSleeper ==
    /\ Awakes(pending) /\ Awakes(current) /\ Awakes(executing)
    /\ \A i \in DOMAIN channel : channel[i].kind \notin Sleeping

(* A step of the processor, the bot or the tasks takes turns, whatever is  *)
(* enqueued, as long as no command sleeps.                                 *)
LEMMA TurnsStay ==
    ASSUME Turns, Awakes(executing), [Next]_vars
    PROVE  Turns'
<1> USE DEF Turns, BotMoving, execVars, loopVars, queueVars, guiVars
<1>1. CASE Enqueue
  BY <1>1 DEF Enqueue
<1>2. CASE Toggle
  BY <1>2 DEF Toggle
<1>3. CASE GoOffline
  BY <1>3 DEF GoOffline
<1>4. CASE LoopStep
  <2>1. CASE Take
    BY <1>4, <2>1 DEF Take
  <2>2. CASE Drop
    BY <2>2 DEF Drop
  <2>3. CASE Send
    <3>1. PICK c \in current : channel' = Append(channel, c)
      BY <2>3 DEF Send
    <3>2. channel = <<>> => channel' = <<c>>
      BY <3>1
    <3> QED  BY <2>3, <3>2 DEF Send
  <2>4. CASE PollFree
    BY <2>4 DEF PollFree, CompleteCurrent
  <2>5. CASE PollTimeout
    BY <2>5 DEF PollTimeout, CompleteCurrent, AllowsCommands
  <2>6. CASE PollInterrupt
    BY <2>6 DEF PollInterrupt, CompleteCurrent, AllowsCommands
  <2> QED  BY <1>4, <2>1, <2>2, <2>3, <2>4, <2>5, <2>6 DEF LoopStep
<1>5. CASE BotStep
  <2>1. CASE Receive
    <3>1. PICK c : channel = <<c>>
      BY <2>1 DEF Receive
    <3>2. channel' = <<>>
      BY <2>1, <3>1 DEF Receive
    <3> QED  BY <2>1, <3>2 DEF Receive
  <2>2. CASE Execute
    BY <2>2 DEF Execute
  <2>3. CASE Doze
    BY <2>3 DEF Doze, Awakes
  <2>4. CASE Awake
    BY <2>4 DEF Awake
  <2> QED  BY <1>5, <2>1, <2>2, <2>3, <2>4 DEF BotStep
<1>6. CASE TaskStep
  <2>1. ASSUME NEW d \in watchdogs,
               WatchdogWakes(d) \/ WatchdogChecks(d) \/ WatchdogFires(d)
        PROVE  Turns'
    BY <2>1 DEF WatchdogWakes, WatchdogChecks, WatchdogFires, AllowsCommands
  <2>2. ASSUME NEW r \in retries, RetryWakes(r)  PROVE Turns'
    BY <2>2 DEF RetryWakes, AllowsCommands
  <2>3. ASSUME NEW h \in handlers, HandlerReads(h) \/ HandlerRequeues(h)
        PROVE  Turns'
    BY <2>3 DEF HandlerReads, HandlerRequeues
  <2> QED  BY <1>6, <2>1, <2>2, <2>3 DEF TaskStep
<1>7. CASE ServerStep
  <2>1. ASSUME NEW h \in handlers, HandlerClicks(h) \/ HandlerFinishes(h)
        PROVE  Turns'
    BY <2>1 DEF HandlerClicks, HandlerFinishes, AllowsCommands
  <2> QED  BY <1>7, <2>1 DEF ServerStep, OpenScreen, ContainerClose
<1>8. CASE Tick
  BY <1>8 DEF Tick
<1>9. CASE UNCHANGED vars
  BY <1>9 DEF vars
<1> QED  BY <1>1, <1>2, <1>3, <1>4, <1>5, <1>6, <1>7, <1>8, <1>9 DEF Next

(* What the loop drops, sends and starts was waiting, and what it and the  *)
(* handlers ask for themselves does not sleep.                             *)
LEMMA NoSleeperStays ==
    ASSUME NoSleeper, Turns, [Next]_vars,
           \A c \in pending' \ pending : requested' # requested => c.kind \notin Sleeping
    PROVE  NoSleeper'
<1> USE DEF NoSleeper, Awakes, execVars, loopVars, queueVars, guiVars
<1>a. \A P, n : Bounded(P, n) \subseteq P
  BY DEF Bounded
<1>b. ASSUME UNCHANGED <<pending, current, channel, executing>>  PROVE NoSleeper'
  BY <1>b
<1>1. CASE Enqueue
  <2>1. requested' # requested
    BY <1>1 DEF Enqueue
  <2> QED  BY <1>1, <2>1 DEF Enqueue
<1>2. CASE Toggle \/ GoOffline \/ Tick
  BY <1>2, <1>b DEF Toggle, GoOffline, Tick
<1>4. CASE LoopStep
  <2>1. CASE Take
    BY <2>1 DEF Take, Queue!Start
  <2>2. CASE Drop
    <3>1. UNCHANGED <<channel, executing>>
      BY <2>2 DEF Drop
    <3>2. ASSUME NEW c \in current, DropEarly(c) \/ DropAtLimit(c)  PROVE NoSleeper'
      BY <3>1, <3>2 DEF DropEarly, DropAtLimit, Queue!Finish
    <3>3. ASSUME NEW c \in current, DropForSpace(c)  PROVE NoSleeper'
      <4> DEFINE orders == Request("ManageOrders", High, FALSE)
                 sale   == [Request("SellInventoryBz", High, FALSE) EXCEPT !.id = nextId + 1]
      <4>1. orders.kind = "ManageOrders" /\ sale.kind = "SellInventoryBz"
        BY DEF Request
      <4> HIDE DEF orders, sale
      <4>2. PICK S \in {{}, {orders}}, T \in {{}, {sale}} :
               pending' = Bounded(Bounded(pending \cup S, MaxQueueSize) \cup T,
                                  MaxQueueSize)
        BY <3>3 DEF DropForSpace, orders, sale
      <4>3. pending' \subseteq (pending \cup S) \cup T
        BY <4>2, <1>a
      <4>4. current' = {}
        BY <3>3 DEF DropForSpace
      <4>5. Awakes(pending')
        BY <4>1, <4>3 DEF Sleeping
      <4> QED  BY <3>1, <4>4, <4>5
    <3> QED  BY <2>2, <3>2, <3>3 DEF Drop
  <2>3. CASE Send
    BY <2>3 DEF Send
  <2>4. CASE PollFree \/ PollTimeout \/ PollInterrupt
    BY <2>4 DEF PollFree, PollTimeout, PollInterrupt, CompleteCurrent, Queue!Finish
  <2> QED  BY <1>4, <2>1, <2>2, <2>3, <2>4 DEF LoopStep
<1>5. CASE BotStep
  BY <1>5 DEF BotStep, Receive, Execute, Doze, Awake
<1>6. CASE TaskStep
  <2>1. ASSUME NEW d \in watchdogs,
               WatchdogWakes(d) \/ WatchdogChecks(d) \/ WatchdogFires(d)
        PROVE  NoSleeper'
    BY <2>1, <1>b DEF WatchdogWakes, WatchdogChecks, WatchdogFires
  <2>2. ASSUME NEW r \in retries, RetryWakes(r)  PROVE NoSleeper'
    BY <2>2, <1>b DEF RetryWakes
  <2>3. ASSUME NEW h \in handlers, HandlerReads(h)  PROVE NoSleeper'
    BY <2>3, <1>b DEF HandlerReads
  <2>4. ASSUME NEW h \in handlers, HandlerRequeues(h)  PROVE NoSleeper'
    BY <2>4, <1>a DEF HandlerRequeues, Request, Sleeping
  <2> QED  BY <1>6, <2>1, <2>2, <2>3, <2>4 DEF TaskStep
<1>7. CASE ServerStep
  <2>1. ASSUME NEW h \in handlers, HandlerClicks(h) \/ HandlerFinishes(h)
        PROVE  NoSleeper'
    BY <2>1, <1>b DEF HandlerClicks, HandlerFinishes
  <2> QED  BY <1>7, <2>1, <1>b DEF ServerStep, OpenScreen, ContainerClose
<1>9. CASE UNCHANGED vars
  BY <1>9, <1>b DEF vars
<1> QED  BY <1>1, <1>2, <1>4, <1>5, <1>6, <1>7, <1>9 DEF Next

(* Nothing is on its way at the start. *)
LEMMA TurnsBegin == ASSUME Init PROVE Turns /\ NoSleeper
BY DEF Init, Turns, NoSleeper, Awakes, AllowsCommands

(* A bot that carries out a command was free when it began.                *)
LEMMA TurnsSuffice == Turns => ExecutesWhenFree
BY DEF Turns, ExecutesWhenFree, BotMoving

(* But for commands that sleep in their body, two commands never drive the *)
(* windows at the same time, whatever else is asked for, refused, preempted*)
(* or timed out (main.rs:5682-5725).                                       *)
THEOREM CommandsExecuteWhenFree ==
    ASSUME \A r \in Requests : r.kind \notin Sleeping
    PROVE  Spec => []ExecutesWhenFree
<1>1. Turns /\ NoSleeper /\ [Next]_vars => (Turns /\ NoSleeper)'
  <2> SUFFICES ASSUME Turns, NoSleeper, [Next]_vars  PROVE (Turns /\ NoSleeper)'
    OBVIOUS
  <2>1. \A c \in pending' \ pending : requested' # requested => c.kind \notin Sleeping
    <3>1. CASE Enqueue
      <4>1. PICK r \in Requests :
               pending' = Bounded(pending \cup {Request(r.kind, r.priority,
                                                        r.interruptible)}, MaxQueueSize)
        BY <3>1 DEF Enqueue
      <4>2. pending' \subseteq pending \cup {Request(r.kind, r.priority, r.interruptible)}
        BY <4>1 DEF Bounded
      <4>3. Request(r.kind, r.priority, r.interruptible).kind = r.kind
        BY DEF Request
      <4> QED  BY <4>2, <4>3
    <3>2. CASE ~ Enqueue
      <4>1. requested' = requested
        BY <3>2 DEF Next, LoopStep, BotStep, TaskStep, ServerStep, Toggle, GoOffline,
           Tick, Take, Drop, Send, PollFree, PollTimeout, PollInterrupt,
           CompleteCurrent, Receive, Execute, Doze, Awake, WatchdogWakes,
           WatchdogChecks, WatchdogFires, RetryWakes, HandlerReads, HandlerRequeues,
           OpenScreen, ContainerClose, HandlerClicks, HandlerFinishes, vars
      <4> QED  BY <4>1
    <3> QED  BY <3>1, <3>2
  <2>2. Awakes(executing)
    BY DEF NoSleeper
  <2> QED  BY <2>1, <2>2, TurnsStay, NoSleeperStays
<1> QED  BY <1>1, TurnsBegin, TurnsSuffice, PTL DEF Spec

(* Flips, their orders and order checks never drive the windows two at a   *)
(* time (main.rs:5682-5725), with any number of them and of windows.       *)
THEOREM FlipsDriveAlone == MCSpec => []FlipsExecuteWhenFree
<1> DEFINE Alone == part = "windows" => Turns /\ NoSleeper
<1>1. MCInit => Alone
  BY TurnsBegin DEF MCInit
<1>2. Alone /\ [MCNext]_<<vars, part>> => Alone'
  <2> SUFFICES ASSUME Alone, [MCNext]_<<vars, part>>, part' = "windows"
               PROVE  (Turns /\ NoSleeper)'
    OBVIOUS
  <2>1. part = "windows" /\ [Next]_vars
    BY DEF MCNext
  <2>2. \A c \in pending' \ pending : requested' # requested => c.kind \notin Sleeping
    <3>1. CASE MCNext
      <4>1. \A c \in pending' \ pending :
               requested' # requested => \E r \in Flips : c.kind = r.kind
        BY <2>1, <3>1 DEF MCNext, Within
      <4>2. \A r \in Flips : r.kind \notin Sleeping
        BY DEF Flips, Purchase, BuyOrder, OrderCheck, Ask, Sleeping
      <4> QED  BY <4>1, <4>2
    <3>2. CASE UNCHANGED <<vars, part>>
      BY <3>2 DEF vars
    <3> QED  BY <3>1, <3>2
  <2>3. Awakes(executing)
    BY <2>1 DEF NoSleeper
  <2> QED  BY <2>1, <2>2, <2>3, TurnsStay, NoSleeperStays
<1>3. Alone => FlipsExecuteWhenFree
  BY TurnsSuffice DEF FlipsExecuteWhenFree
<1> QED  BY <1>1, <1>2, <1>3, PTL DEF MCSpec

-----------------------------------------------------------------------------
(* The full time of a ManageOrders window *)

(* A watchdog belongs to one window.                                       *)
OneEach ==
    /\ opened \in Nat /\ generation \in Nat /\ manageDeadline \in Nat
    /\ \A d \in watchdogs :
          /\ DOMAIN d = {"win", "gen", "left", "at"}
          /\ d.win \in Nat /\ d.win <= opened /\ d.gen \in Nat /\ d.gen <= generation
          /\ d.left \in Nat
    /\ \A d, e \in watchdogs : d.win = e.win => d = e

(* A watchdog whose window is of the last command has slept through the    *)
(* body of it, and waits longer than the deadline that the body set.       *)
Late(d) ==
    /\ phase = "body" => d.at = "asleep" /\ d.left = 1
    /\ d.at = "check" /\ state = "ManagingOrders" => manageDeadline = 0
    /\ d.at = "patient" => manageDeadline = 0 \/ manageDeadline < d.left

Patience == \A d \in watchdogs : d.gen = generation => Late(d)

(* One watchdog goes on, the others stay. *)
LEMMA OneGoesOn ==
    ASSUME OneEach, Patience, NEW d \in watchdogs, NEW e,
           DOMAIN e = DOMAIN d, e.win = d.win, e.gen = d.gen, e.left \in Nat,
           watchdogs' = (watchdogs \ {d}) \cup {e},
           d.gen = generation => Late(e),
           UNCHANGED <<opened, generation, manageDeadline, phase, state>>
    PROVE  OneEach' /\ Patience'
<1>1. OneEach'
  BY DEF OneEach
<1>2. Patience'
  BY DEF Patience, Late
<1> QED  BY <1>1, <1>2

(* Watchdogs end, and the state is not set to ManagingOrders. *)
LEMMA SomeEnd ==
    ASSUME OneEach, Patience, watchdogs' \subseteq watchdogs,
           UNCHANGED <<opened, generation>>,
           manageDeadline' \in {0, manageDeadline}, phase' = "body" => phase = "body",
           state' = "ManagingOrders" => state = "ManagingOrders"
    PROVE  OneEach' /\ Patience'
<1>1. OneEach'
  BY DEF OneEach
<1>2. Patience'
  BY DEF Patience, Late
<1> QED  BY <1>1, <1>2

(* Only the body of a command sets the deadline, and only a new command     *)
(* comes between a window and its body.                                    *)
LEMMA PatienceStays ==
    ASSUME OneEach, Patience, [Next]_vars
    PROVE  OneEach' /\ Patience'
<1> USE DEF execVars, loopVars, queueVars, guiVars
<1>1. CASE Enqueue \/ Toggle \/ GoOffline
  BY <1>1, SomeEnd DEF Enqueue, Toggle, GoOffline
<1>4. CASE LoopStep
  BY <1>4, SomeEnd DEF LoopStep, Take, Drop, Send, PollFree, PollTimeout, PollInterrupt,
     CompleteCurrent
<1>5. CASE BotStep
  <2>1. CASE Receive
    <3>1. /\ watchdogs' = watchdogs /\ opened' = opened
          /\ manageDeadline' = manageDeadline /\ generation' = generation + 1
      BY <2>1 DEF Receive
    <3>2. \A d \in watchdogs' : d.gen # generation'
      BY <3>1 DEF OneEach
    <3> QED  BY <3>1, <3>2 DEF OneEach, Patience
  <2>2. CASE Execute
    <3>1. /\ phase = "body" /\ phase' = "recv"
          /\ UNCHANGED <<watchdogs, opened, generation>>
          /\ manageDeadline' \in {2, manageDeadline}
      BY <2>2 DEF Execute
    <3>2. OneEach'
      BY <3>1 DEF OneEach
    <3>3. \A d \in watchdogs : d.gen = generation => d.at = "asleep"
      BY <3>1 DEF Patience, Late
    <3>4. Patience'
      BY <3>1, <3>3 DEF Patience, Late
    <3> QED  BY <3>2, <3>4
  <2>3. CASE Doze \/ Awake
    BY <2>3, SomeEnd DEF Doze, Awake
  <2> QED  BY <1>5, <2>1, <2>2, <2>3 DEF BotStep
<1>6. CASE TaskStep
  <2>1. ASSUME NEW d \in watchdogs, WatchdogWakes(d)  PROVE OneEach' /\ Patience'
    <3>1. PICK e : /\ e = IF state = "ManagingOrders" /\ manageDeadline > 0
                          THEN [d EXCEPT !.at = "patient", !.left = manageDeadline + 1]
                          ELSE [d EXCEPT !.at = "check"]
                   /\ watchdogs' = (watchdogs \ {d}) \cup {e}
      BY <2>1 DEF WatchdogWakes
    <3>2. DOMAIN d = {"win", "gen", "left", "at"} /\ d.left \in Nat /\ manageDeadline \in Nat
      BY DEF OneEach
    <3>3. /\ DOMAIN e = DOMAIN d /\ e.win = d.win /\ e.gen = d.gen
          /\ IF state = "ManagingOrders" /\ manageDeadline > 0
             THEN e.at = "patient" /\ e.left = manageDeadline + 1
             ELSE e.at = "check" /\ e.left = d.left
      BY <3>1, <3>2
    <3>4. d.gen = generation => Late(e)
      BY <2>1, <3>2, <3>3 DEF Late, Patience, WatchdogWakes
    <3>5. UNCHANGED <<opened, generation, manageDeadline, phase, state>>
      BY <2>1 DEF WatchdogWakes
    <3>6. e.left \in Nat /\ watchdogs' = (watchdogs \ {d}) \cup {e}
      BY <3>1, <3>2, <3>3
    <3>7. DOMAIN e = DOMAIN d /\ e.win = d.win /\ e.gen = d.gen
      BY <3>3
    <3> QED  BY <3>4, <3>5, <3>6, <3>7, OneGoesOn
  <2>2. ASSUME NEW d \in watchdogs, WatchdogChecks(d)  PROVE OneEach' /\ Patience'
    <3>1. UNCHANGED <<opened, generation, manageDeadline, phase, state>>
      BY <2>2 DEF WatchdogChecks
    <3>2. CASE watchdogs' = watchdogs \ {d}
      BY <3>1, <3>2, SomeEnd
    <3>3. ASSUME NEW how \in {"fire", "fireManaging"},
                 watchdogs' = (watchdogs \ {d}) \cup {[d EXCEPT !.at = how]}
          PROVE  OneEach' /\ Patience'
      <4>1. PICK e : e = [d EXCEPT !.at = how]
        OBVIOUS
      <4>2. DOMAIN d = {"win", "gen", "left", "at"} /\ d.left \in Nat
        BY DEF OneEach
      <4>3. /\ DOMAIN e = DOMAIN d /\ e.win = d.win /\ e.gen = d.gen
            /\ e.at = how /\ e.left = d.left
        BY <4>1, <4>2
      <4>4. d.gen = generation => Late(e)
        BY <2>2, <4>3 DEF Late, Patience, WatchdogChecks
      <4>5. watchdogs' = (watchdogs \ {d}) \cup {e}
        BY <3>3, <4>1
      <4> QED  BY <3>1, <4>2, <4>3, <4>4, <4>5, OneGoesOn
    <3> QED  BY <2>2, <3>2, <3>3 DEF WatchdogChecks
  <2>3. ASSUME NEW d \in watchdogs, WatchdogFires(d)  PROVE OneEach' /\ Patience'
    BY <2>3, SomeEnd DEF WatchdogFires
  <2>4. ASSUME NEW r \in retries, RetryWakes(r)  PROVE OneEach' /\ Patience'
    BY <2>4, SomeEnd DEF RetryWakes
  <2>5. ASSUME NEW h \in handlers, HandlerReads(h) \/ HandlerRequeues(h)
        PROVE  OneEach' /\ Patience'
    BY <2>5, SomeEnd DEF HandlerReads, HandlerRequeues
  <2> QED  BY <1>6, <2>1, <2>2, <2>3, <2>4, <2>5 DEF TaskStep
<1>7. CASE ServerStep
  <2>1. CASE OpenScreen
    <3>1. PICK e : /\ e = [win |-> opened + 1, gen |-> generation, left |-> 1,
                           at |-> "asleep"]
                   /\ watchdogs' = watchdogs \cup {e}
      BY <2>1 DEF OpenScreen
    <3>2. /\ e.win = opened + 1 /\ e.gen = generation /\ e.left = 1 /\ e.at = "asleep"
          /\ DOMAIN e = {"win", "gen", "left", "at"}
      BY <3>1
    <3>3. /\ opened' = opened + 1
          /\ UNCHANGED <<generation, manageDeadline, phase, state>>
      BY <2>1 DEF OpenScreen
    <3>4. OneEach'
      BY <3>1, <3>2, <3>3 DEF OneEach
    <3>5. Patience'
      BY <3>1, <3>2, <3>3 DEF Patience, Late
    <3> QED  BY <3>4, <3>5
  <2>2. ASSUME NEW h \in handlers, HandlerClicks(h) \/ HandlerFinishes(h)
        PROVE  OneEach' /\ Patience'
    BY <2>2, SomeEnd DEF HandlerClicks, HandlerFinishes
  <2>3. CASE ContainerClose
    BY <2>3, SomeEnd DEF ContainerClose
  <2> QED  BY <1>7, <2>1, <2>2, <2>3 DEF ServerStep
<1>8. CASE Tick
  <2>1. /\ watchdogs' = {[d EXCEPT !.left = Less(@)] : d \in watchdogs}
        /\ manageDeadline' = Less(manageDeadline)
        /\ UNCHANGED <<opened, generation, phase, state>>
        /\ phase # "body"
    BY <1>8 DEF Tick, Due, BotMoving
  <2>2. \A n \in Nat : Less(n) \in Nat /\ Less(n) = IF n = 0 THEN 0 ELSE n - 1
    BY DEF Less
  <2>3. ASSUME NEW e \in watchdogs'
        PROVE  \E d \in watchdogs :
                   /\ e = [d EXCEPT !.left = Less(@)]
                   /\ e.win = d.win /\ e.gen = d.gen /\ e.at = d.at
                   /\ e.left = Less(d.left) /\ DOMAIN e = DOMAIN d
    <3>1. PICK d \in watchdogs : e = [d EXCEPT !.left = Less(@)]
      BY <2>1, <2>3
    <3>2. DOMAIN d = {"win", "gen", "left", "at"}
      BY DEF OneEach
    <3> QED  BY <3>1, <3>2
  <2>4. OneEach'
    <3>1. \A e \in watchdogs' :
             /\ DOMAIN e = {"win", "gen", "left", "at"}
             /\ e.win \in Nat /\ e.win <= opened /\ e.gen \in Nat /\ e.gen <= generation
             /\ e.left \in Nat
      BY <2>2, <2>3 DEF OneEach
    <3>2. \A d, e \in watchdogs' : d.win = e.win => d = e
      BY <2>3 DEF OneEach
    <3> QED  BY <2>1, <2>2, <3>1, <3>2 DEF OneEach
  <2>5. Patience'
    <3> SUFFICES ASSUME NEW e \in watchdogs', e.gen = generation  PROVE Late(e)'
      BY <2>1 DEF Patience
    <3>1. PICK d \in watchdogs : /\ e.gen = d.gen /\ e.at = d.at
                                 /\ e.left = Less(d.left)
      BY <2>3
    <3>2. Late(d) /\ d.left \in Nat /\ manageDeadline \in Nat
      BY <3>1 DEF Patience, OneEach
    <3> QED  BY <2>1, <2>2, <3>1, <3>2 DEF Late
  <2> QED  BY <2>4, <2>5
<1>9. CASE UNCHANGED vars
  BY <1>9, SomeEnd DEF vars
<1> QED  BY <1>1, <1>4, <1>5, <1>6, <1>7, <1>8, <1>9 DEF Next

(* No watchdog decides to close the window of a ManageOrders before its    *)
(* deadline has passed, however windows, retries and further commands      *)
(* interleave (bot/client.rs:3504-3514).                                   *)
THEOREM ManageKeepsItsWindow == Spec => ManageWindowKept
<1>1. Init => OneEach /\ Patience
  BY DEF Init, OneEach, Patience
<1>2. OneEach /\ Patience /\ [Next]_vars => (OneEach /\ Patience)'
  BY PatienceStays
<1>3. OneEach /\ Patience /\ [Next]_vars
         => [ \A d \in watchdogs :
                /\ d.at # "fireManaging"
                /\ [d EXCEPT !.at = "fireManaging"] \in watchdogs'
                => manageDeadline = 0 ]_vars
  <2> SUFFICES ASSUME OneEach, Patience, Next, NEW d \in watchdogs,
                      d.at # "fireManaging",
                      NEW e, e = [d EXCEPT !.at = "fireManaging"], e \in watchdogs'
               PROVE  manageDeadline = 0
    OBVIOUS
  <2>1. DOMAIN d = {"win", "gen", "left", "at"}
    BY DEF OneEach
  <2>2. e.win = d.win /\ e.at = "fireManaging"
    BY <2>1
  <2>3. e \notin watchdogs
    BY <2>2 DEF OneEach
  <2> USE DEF execVars, loopVars, queueVars, guiVars
  <2>4. ASSUME NEW c \in watchdogs, WatchdogChecks(c)  PROVE manageDeadline = 0
    <3>1. DOMAIN c = {"win", "gen", "left", "at"} /\ c.left \in Nat
      BY DEF OneEach
    <3>2. PICK how \in {"fire", "fireManaging"} : e = [c EXCEPT !.at = how]
      BY <2>3, <2>4 DEF WatchdogChecks
    <3>3. e.win = c.win /\ e.at = how
      BY <3>1, <3>2
    <3>4. /\ state = "ManagingOrders" /\ generation = c.gen
          /\ c.at = "check" \/ (c.at = "patient" /\ c.left = 0)
      BY <2>2, <2>3, <2>4, <3>1, <3>3 DEF WatchdogChecks
    <3>5. Late(c) /\ manageDeadline \in Nat
      BY <3>4 DEF Patience, OneEach
    <3> QED  BY <3>4, <3>5 DEF Late
  <2>5. ASSUME NEW c \in watchdogs, WatchdogWakes(c)  PROVE FALSE
    <3>1. DOMAIN c = {"win", "gen", "left", "at"}
      BY DEF OneEach
    <3>2. e = [c EXCEPT !.at = "patient", !.left = manageDeadline + 1]
             \/ e = [c EXCEPT !.at = "check"]
      BY <2>3, <2>5 DEF WatchdogWakes
    <3> QED  BY <2>2, <3>1, <3>2
  <2>6. CASE Tick
    <3>1. PICK c \in watchdogs : e = [c EXCEPT !.left = Less(@)]
      BY <2>6 DEF Tick
    <3>2. DOMAIN c = {"win", "gen", "left", "at"}
      BY DEF OneEach
    <3>3. e.win = c.win /\ e.at = c.at
      BY <3>1, <3>2
    <3> QED  BY <2>2, <3>3 DEF OneEach
  <2>7. CASE OpenScreen
    BY <2>2, <2>3, <2>7 DEF OpenScreen
  <2>8. watchdogs' \subseteq watchdogs => FALSE
    BY <2>3
  <2>9. CASE Enqueue \/ Toggle \/ GoOffline \/ LoopStep \/ BotStep
    BY <2>8, <2>9 DEF Enqueue, Toggle, GoOffline, LoopStep, Take, Drop, Send, PollFree,
       PollTimeout, PollInterrupt, CompleteCurrent, BotStep, Receive, Execute, Doze, Awake
  <2>10. CASE \/ \E c \in watchdogs : WatchdogFires(c)
              \/ \E r \in retries : RetryWakes(r)
              \/ \E h \in handlers : \/ HandlerReads(h) \/ HandlerRequeues(h)
                                     \/ HandlerClicks(h) \/ HandlerFinishes(h)
              \/ ContainerClose
    BY <2>8, <2>10 DEF WatchdogFires, RetryWakes, HandlerReads, HandlerRequeues,
       HandlerClicks, HandlerFinishes, ContainerClose
  <2> QED  BY <2>4, <2>5, <2>6, <2>7, <2>9, <2>10 DEF Next, TaskStep, ServerStep
<1> QED  BY <1>1, <1>2, <1>3, PTL DEF Spec, ManageWindowKept

=============================================================================
