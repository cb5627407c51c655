------------------------------ MODULE Purchase -------------------------------
(***************************************************************************)
(* A purchase at the auction house (bot/client.rs): the command asks for   *)
(* the auction's view, and from then on several tasks act on the same      *)
(* windows and the same bot state: the fast path, woken by the observer of *)
(* opened windows; the handler of each window, spawned by its packet,      *)
(* which comes later; the loop that waits for a bed to become a nugget;    *)
(* the clicks of the grace period; the handler of chat lines; and the      *)
(* watchdog of each window.                                                *)
(*                                                                         *)
(* The raw clicks and closes are not seen by the client's own menu.  A     *)
(* read of slot 31 and the click it decides are one step: nothing awaits   *)
(* between them.  That the skip is on is assumed; prices are left out.     *)
(***************************************************************************)
EXTENDS Integers, Sequences, FiniteSets

CONSTANTS
    MaxConfirmRetries,  \* MAX_CONFIRM_RETRIES, 3 in the code
    MaxByHand,          \* bound of the model: auctions viewed by hand
    MaxBuys,            \* bound of the model: purchases asked for
    MaxWindows,         \* bound of the model: windows the server opens
    MaxInbox            \* bound of the model: packets and lines on their way

VARIABLES
    mode,           \* bot_state
    generation,     \* command_generation: purchases begun
    awaited,        \* server: it has a /viewauction to answer
    windows,        \* server: the kinds of the windows opened so far
    open,           \* server: the window that is open, 0 if none
    clicks,         \* server: clicks under way, <<window, slot>>
    inbox,          \* packets and chat lines on the way to event_handler
    slot31,         \* what the client's menu shows there
    info,           \* window_open_info: the window last opened, 0 for None
    last,           \* last_window_id
    title,          \* current_window_title
    fast,           \* fast-path tasks: <<purchase, where it is>>
    tasks,          \* window handlers: [window, at]
    watchdogs,      \* <<window, generation when it opened>>
    spam,           \* window of the grace-period clicks, 0 if there are none
    fastBuyClicked, skipClickSent, bedTimingActive,
    byHand,         \* auctions viewed by hand so far
    buyClicks       \* history: buy clicks for each purchase

flags      == <<fastBuyClicked, skipClickSent, bedTimingActive>>
serverVars == <<awaited, byHand, windows, open>>
clientVars == <<mode, generation, slot31, info, last, title, fast, tasks, watchdogs,
                spam, flags, buyClicks>>
purchaseVars == <<serverVars, clicks, inbox, clientVars>>

Kind(w)   == IF w = 0 THEN "none" ELSE windows[w]
Packet(is, w) == [is |-> is, window |-> w]
Duds      == {"potato", "feather"}
BuySlot   == 31
ConfirmSlot == 11

-----------------------------------------------------------------------------
(* Parts of the client's steps *)

Click(cs) == clicks' = clicks \o cs

(* A raw close: the client's menu stays as it is. *)
Close(w) ==
    /\ open' = IF open = w THEN 0 ELSE open
    /\ title' = "none"
KeepOpen == UNCHANGED <<open, title>>

BuyClick(w) ==
    /\ Click(<<<<w, BuySlot>>>>)
    /\ buyClicks' = [buyClicks EXCEPT ![generation] = @ + 1]

(* The buy click, and ahead of its window the confirming one. *)
BuyAndSkip(w) ==
    /\ Click(<<<<w, BuySlot>>, <<w + 1, ConfirmSlot>>>>)
    /\ skipClickSent' = TRUE
    /\ buyClicks' = [buyClicks EXCEPT ![generation] = @ + 1]

NoClick == UNCHANGED <<clicks, buyClicks, skipClickSent>>

-----------------------------------------------------------------------------
(* The command, and an auction viewed by hand *)

Buy ==
    /\ mode = "Idle" /\ generation < MaxBuys
    /\ generation' = generation + 1
    /\ mode' = "Purchasing"
    /\ info' = 0 /\ fastBuyClicked' = FALSE
    /\ fast' = fast \cup {<<generation + 1, "waits">>}
    /\ awaited' = TRUE
    /\ UNCHANGED <<byHand, windows, open, clicks, inbox, slot31, last, title, tasks,
                   watchdogs, spam, skipClickSent, bedTimingActive, buyClicks>>

(* The line of a panel's chat is no command of the queue. *)
ViewByHand ==
    /\ byHand < MaxByHand /\ mode = "Idle" /\ ~ awaited /\ inbox = <<>>
    /\ byHand' = byHand + 1
    /\ awaited' = TRUE
    /\ UNCHANGED <<windows, open, clicks, inbox, clientVars>>

-----------------------------------------------------------------------------
(* The server, and the observers that see what it sends before the event   *)
(* handler does *)

Wakes(f) == {IF t[2] = "waits" THEN <<t[1], "woken">> ELSE t : t \in f}

Opens(kind, content) ==
    LET w == Len(windows) + 1
    IN  /\ w <= MaxWindows
        /\ windows' = Append(windows, kind)
        /\ open' = w
        /\ info' = w /\ fast' = Wakes(fast)
        /\ slot31' = content
        /\ inbox' = Append(inbox, Packet("open", w))

AnswerView ==
    /\ awaited /\ Len(inbox) < MaxInbox
    /\ awaited' = FALSE
    /\ \/ \E content \in {"air", "nugget", "bed"} : Opens("view", content)
       \/ /\ inbox' = Append(inbox, Packet("failed", 0))
          /\ UNCHANGED <<windows, open, info, fast, slot31>>
    /\ UNCHANGED <<byHand, clicks, mode, generation, last, title, tasks, watchdogs, spam,
                   flags, buyClicks>>

SlotArrives ==
    /\ slot31 = "air" /\ Kind(open) = "view"
    /\ slot31' \in {"nugget", "bed"} \cup Duds
    /\ UNCHANGED <<serverVars, clicks, inbox, mode, generation, info, last, title, fast,
                   tasks, watchdogs, spam, flags, buyClicks>>

BedEnds ==
    /\ slot31 = "bed"
    /\ slot31' \in {"nugget"} \cup Duds
    /\ UNCHANGED <<serverVars, clicks, inbox, mode, generation, info, last, title, fast,
                   tasks, watchdogs, spam, flags, buyClicks>>

(* A click on the open view opens the confirmation, or is refused; a click *)
(* on that buys or not, and closes it.  Other clicks are lost.             *)
TakeClick ==
    /\ clicks # <<>> /\ Len(inbox) < MaxInbox
    /\ clicks' = Tail(clicks)
    /\ LET c == Head(clicks)
       IN  \/ /\ c = <<open, BuySlot>> /\ Kind(open) = "view" /\ slot31 = "nugget"
              /\ \/ Opens("confirm", "air")
                 \/ /\ \E line \in {"failed", "grace"} :
                          inbox' = Append(inbox, Packet(line, 0))
                    /\ UNCHANGED <<windows, open, info, fast, slot31>>
           \/ /\ c = <<open, ConfirmSlot>> /\ Kind(open) = "confirm"
              /\ open' = 0 /\ slot31' = "air"
              /\ \/ inbox' = Append(inbox, Packet("close", open))
                 \/ inbox' = inbox \o <<Packet("close", open), Packet("failed", 0)>>
              /\ UNCHANGED <<windows, info, fast>>
           \/ /\ c[1] # open \/ (c[2] = BuySlot) # (Kind(open) = "view")
                 \/ (Kind(open) = "view" /\ slot31 # "nugget")
              /\ UNCHANGED <<windows, open, info, fast, slot31, inbox>>
    /\ UNCHANGED <<awaited, byHand, mode, generation, last, title, tasks, watchdogs, spam, flags,
                   buyClicks>>

-----------------------------------------------------------------------------
(* The fast path *)

Moves(t, at) == fast' = (fast \ {t}) \cup {<<t[1], at>>}
fastUnchanged == UNCHANGED <<serverVars, inbox, mode, generation, slot31, info, last,
                             title, tasks, watchdogs, spam, bedTimingActive>>

FastChecks(t) ==
    /\ t[2] = "woken"
    /\ IF mode = "Purchasing" /\ Kind(info) = "view" THEN Moves(t, "reads")
       ELSE fast' = fast \ {t}
    /\ NoClick /\ UNCHANGED fastBuyClicked /\ fastUnchanged

(* It waits half a second at most for the slot. *)
FastReads(t) ==
    /\ t[2] = "reads"
    /\ IF slot31 = "nugget"
       THEN BuyAndSkip(info) /\ Moves(t, "clicked")
       ELSE NoClick /\ fast' = fast \ {t}
    /\ UNCHANGED fastBuyClicked /\ fastUnchanged

FastMarks(t) ==
    /\ t[2] = "clicked"
    /\ fastBuyClicked' = TRUE
    /\ fast' = fast \ {t}
    /\ NoClick /\ fastUnchanged

-----------------------------------------------------------------------------
(* event_handler *)

Take(is) == inbox # <<>> /\ Head(inbox).is = is /\ inbox' = Tail(inbox)
eventUnchanged == UNCHANGED <<awaited, byHand, windows, clicks, slot31, info, fast, generation,
                              fastBuyClicked, buyClicks>>

OnOpenScreen ==
    /\ Take("open")
    /\ LET w == Head(inbox).window
       IN  /\ last' = w /\ title' = Kind(w)
           /\ tasks' = tasks \cup {[window |-> w, at |-> "starts", tries |-> 0]}
           /\ watchdogs' = watchdogs \cup {<<w, generation>>}
    /\ eventUnchanged
    /\ UNCHANGED <<open, mode, spam, skipClickSent, bedTimingActive>>

OnContainerClose ==
    /\ Take("close")
    /\ title' = "none" /\ spam' = 0 /\ bedTimingActive' = FALSE
    /\ eventUnchanged
    /\ UNCHANGED <<open, last, mode, tasks, watchdogs, skipClickSent>>

OnFailure ==
    /\ Take("failed")
    /\ IF mode = "Purchasing"
       THEN /\ mode' = "Idle"
            /\ IF last > 0 THEN Close(last) ELSE KeepOpen
            /\ spam' = 0 /\ skipClickSent' = FALSE /\ bedTimingActive' = FALSE
       ELSE KeepOpen /\ UNCHANGED <<mode, spam, skipClickSent, bedTimingActive>>
    /\ eventUnchanged /\ UNCHANGED <<last, tasks, watchdogs>>

OnGracePeriod ==
    /\ Take("grace")
    /\ spam' = IF mode = "Purchasing" /\ spam = 0 THEN last ELSE spam
    /\ eventUnchanged
    /\ UNCHANGED <<open, title, last, mode, tasks, watchdogs, skipClickSent,
                   bedTimingActive>>

-----------------------------------------------------------------------------
(* The handlers of windows *)

Ends(h) == tasks' = tasks \ {h}
Goes(h, at) == tasks' = (tasks \ {h}) \cup {[h EXCEPT !.at = at]}
taskUnchanged == UNCHANGED <<awaited, byHand, windows, inbox, slot31, info, last, fast, watchdogs,
                             spam, generation>>

Starts(h) ==
    /\ h.at = "starts"
    /\ \/ /\ mode = "Purchasing"
          /\ Goes(h, Kind(h.window))
          /\ UNCHANGED <<mode, fastBuyClicked>>
       \/ /\ mode = "Idle" /\ Kind(h.window) = "view"
          /\ mode' = "Purchasing" /\ fastBuyClicked' = FALSE
          /\ Goes(h, "view")
       \/ /\ mode = "Idle" /\ Kind(h.window) = "confirm"
          /\ Ends(h)
          /\ UNCHANGED <<mode, fastBuyClicked>>
    /\ KeepOpen /\ NoClick /\ UNCHANGED bedTimingActive /\ taskUnchanged

(* The handler of a view, when the slot is there or half a second is over. *)
ReadsSlot(h) ==
    /\ h.at = "view" /\ UNCHANGED fastBuyClicked
    /\ \/ /\ slot31 = "nugget" /\ Ends(h)
          /\ IF fastBuyClicked THEN NoClick ELSE BuyAndSkip(h.window)
          /\ KeepOpen /\ UNCHANGED <<mode, bedTimingActive>>
       \/ /\ slot31 = "bed" /\ Goes(h, "bed")
          /\ bedTimingActive' = TRUE
          /\ KeepOpen /\ NoClick /\ UNCHANGED mode
       \/ /\ slot31 \in Duds /\ Ends(h)
          /\ IF mode = "Purchasing" THEN mode' = "Idle" /\ Close(h.window)
             ELSE UNCHANGED mode /\ KeepOpen
          /\ NoClick /\ UNCHANGED bedTimingActive
       \/ /\ slot31 = "air" /\ Ends(h)
          /\ KeepOpen /\ NoClick /\ UNCHANGED <<mode, bedTimingActive>>
    /\ taskUnchanged

GivesUp(h) == mode' = "Idle" /\ Close(h.window)

(* The loop at a bed polls the slot, for 70 s at most, when the watchdogs  *)
(* of 5 s are long over; the clicks on the bed itself do nothing.          *)
AwaitsNugget(h) ==
    /\ h.at = "bed" /\ Ends(h) /\ UNCHANGED <<fastBuyClicked, skipClickSent>>
    /\ bedTimingActive' = FALSE
    /\ \/ /\ slot31 = "nugget"
          /\ IF last = h.window THEN BuyClick(h.window) ELSE UNCHANGED <<clicks, buyClicks>>
          /\ KeepOpen /\ UNCHANGED mode
       \/ /\ slot31 # "nugget" /\ (slot31 = "bed" => watchdogs = {})
          /\ GivesUp(h)
          /\ UNCHANGED <<clicks, buyClicks>>
    /\ taskUnchanged

ConfirmClick(w) == Click(<<<<w, ConfirmSlot>>>>)

Confirms(h) ==
    /\ h.at = "confirm" /\ Goes(h, "retries")
    /\ skipClickSent' = FALSE
    /\ IF skipClickSent THEN UNCHANGED clicks ELSE ConfirmClick(h.window)
    /\ KeepOpen /\ UNCHANGED <<mode, fastBuyClicked, bedTimingActive, buyClicks>>
    /\ taskUnchanged

(* A handler starts before any wait is over. *)
AllStarted == \A h \in tasks : h.at # "starts"

Retries(h) ==
    /\ h.at = "retries" /\ AllStarted
    /\ IF h.tries < MaxConfirmRetries /\ title = "confirm"
       THEN /\ ConfirmClick(h.window)
            /\ tasks' = (tasks \ {h}) \cup {[h EXCEPT !.tries = @ + 1]}
            /\ KeepOpen /\ UNCHANGED mode
       ELSE GivesUp(h) /\ Ends(h) /\ UNCHANGED clicks
    /\ UNCHANGED <<flags, buyClicks>> /\ taskUnchanged

-----------------------------------------------------------------------------
(* The clicks of the grace period.  They come one after the other, each    *)
(* taken by the server before the next: the interval is 100 ms.            *)
Spam ==
    /\ spam # 0 /\ (clicks = <<>> \/ slot31 # "nugget")
    /\ \/ /\ spam # last /\ spam' = 0
          /\ UNCHANGED <<mode, clicks>>
       \/ /\ spam = last /\ slot31 = "nugget"
          /\ Click(<<<<spam, BuySlot>>>>)
          /\ UNCHANGED <<spam, mode>>
       \/ /\ spam = last /\ slot31 # "nugget"
          /\ spam' = 0 /\ mode' = "Idle"
    /\ (spam = last /\ slot31 # "nugget") => UNCHANGED clicks
    /\ UNCHANGED <<serverVars, inbox, generation, slot31, info, last, title, fast, tasks,
                   watchdogs, flags, buyClicks>>

-----------------------------------------------------------------------------
Stuck(w, g) ==
    last = w /\ generation = g /\ mode = "Purchasing" /\ ~ bedTimingActive

ClosesOnly(d) ==                  \* mutant: the state is left as it is
    /\ d \in watchdogs
    /\ AllStarted /\ \A h \in tasks : h.window = d[1] => h.at # "view"
    /\ watchdogs' = watchdogs \ {d}
    /\ IF Stuck(d[1], d[2]) THEN Close(d[1]) /\ spam' = 0
       ELSE KeepOpen /\ UNCHANGED spam
    /\ UNCHANGED <<awaited, byHand, windows, clicks, inbox, generation, slot31, info, last, fast,
                   mode, tasks, flags, buyClicks>>

(* Five seconds after the window was opened: its handler has waited its    *)
(* half second for the slot then.                                          *)
WatchdogFires(d) ==
    /\ d \in watchdogs
    /\ AllStarted /\ \A h \in tasks : h.window = d[1] => h.at # "view"
    /\ watchdogs' = watchdogs \ {d}
    /\ IF Stuck(d[1], d[2])
       THEN mode' = "Idle" /\ Close(d[1]) /\ spam' = 0
       ELSE KeepOpen /\ UNCHANGED <<mode, spam>>
    /\ UNCHANGED <<awaited, byHand, windows, clicks, inbox, generation, slot31, info, last, fast,
                   tasks, flags, buyClicks>>

-----------------------------------------------------------------------------
PurchaseInit ==
    /\ mode = "Idle" /\ generation = 0 /\ awaited = FALSE /\ byHand = 0
    /\ windows = <<>> /\ open = 0 /\ clicks = <<>> /\ inbox = <<>>
    /\ slot31 = "air" /\ info = 0 /\ last = 0 /\ title = "none"
    /\ fast = {} /\ tasks = {} /\ watchdogs = {} /\ spam = 0
    /\ fastBuyClicked = FALSE /\ skipClickSent = FALSE /\ bedTimingActive = FALSE
    /\ buyClicks = [n \in 0 .. MaxBuys |-> 0]

FastStep(t) == FastChecks(t) \/ FastReads(t) \/ FastMarks(t)
HandlerStep(h) == Starts(h) \/ ReadsSlot(h) \/ AwaitsNugget(h) \/ Confirms(h) \/ Retries(h)
EventStep   == OnOpenScreen \/ OnContainerClose \/ OnFailure \/ OnGracePeriod

PurchaseNext ==
    \/ Buy \/ ViewByHand \/ AnswerView \/ SlotArrives \/ BedEnds \/ TakeClick
    \/ EventStep \/ Spam
    \/ \E t \in fast : FastStep(t)
    \/ \E h \in tasks : HandlerStep(h)
    \/ \E d \in watchdogs : WatchdogFires(d)

(* A click that is not put off by the grace period, which is short. *)
Decided == TakeClick /\ inbox' # Append(inbox, Packet("grace", 0))

(* The server answers what it is asked, in the end; tasks and timers run.  *)
PurchaseFairness ==
    /\ WF_purchaseVars(AnswerView) /\ WF_purchaseVars(BedEnds)
    /\ WF_purchaseVars(TakeClick) /\ SF_purchaseVars(Decided) /\ WF_purchaseVars(EventStep)
    /\ WF_purchaseVars(Spam)
    /\ WF_purchaseVars(\E t \in fast : FastStep(t))
    /\ WF_purchaseVars(\E h \in tasks : HandlerStep(h))
    /\ WF_purchaseVars(\E d \in watchdogs : WatchdogFires(d))

PurchaseSpec == PurchaseInit /\ [][PurchaseNext]_purchaseVars /\ PurchaseFairness
-----------------------------------------------------------------------------
PurchaseTypeOK ==
    /\ mode \in {"Idle", "Purchasing"}
    /\ open \in 0 .. Len(windows) /\ last \in 0 .. Len(windows)
    /\ slot31 \in {"air", "nugget", "bed"} \cup Duds
    /\ title \in {"none", "view", "confirm"}
    /\ \A h \in tasks : h.tries \in 0 .. MaxConfirmRetries

(* A purchase comes to an end by its windows and their watchdogs, without  *)
(* the deadline of the command, unless auctions are viewed by hand as well *)
(* (bot/client.rs:3484-3488).                                              *)
PurchaseEnds == mode = "Purchasing" ~> (mode = "Idle" \/ byHand > 0)

=============================================================================
