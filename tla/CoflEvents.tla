------------------------------ MODULE CoflEvents ------------------------------
(***************************************************************************)
(* The event loop for what COFL sends (main.rs:4000-5390) behind the       *)
(* sockets of CoflSocket, the sign-in before it (main.rs:2275-2403) and    *)
(* the tasks it spawns: the resume watcher of the AH pause, deferred       *)
(* listings, region switches and the summary of /cofl bz l.                *)
(*                                                                         *)
(* What others toggle at will (the panel's switches, the state of the      *)
(* inventory, the order limits) is read afresh by every handler: closed is *)
(* what it finds closed, nothing or one gate, which is as good as two.     *)
(* The queue is a set here; CommandQueue has its order and its limit.      *)
(***************************************************************************)
EXTENDS CoflSocket

CONSTANTS
    AuthMaxRetries  \* AUTH_MAX_RETRIES, 3 in the code

ASSUME RetriesAssumption == AuthMaxRetries \in Nat \ {0}

(* The types the read task knows; it ignores a message of any other.  Those *)
(* that become a command as they come are one, a request.                  *)
Handled == {"bazaarFlip", "finderFlip", "ChatMessage", "connect", "cancelOrder",
            "createAuction", "countdown", "collectAuctions", "LicenseList",
            "listInstructions", "request"}

ASSUME KindsAssumption ==
    \A s \in CoflSockets : \A m \in Kinds[s] : m.is \in Handled

VARIABLES
    boot,           \* where main is before it starts the event loop
    attempts,       \* failed attempts to log in to Minecraft
    at,             \* the loop waits, or holds an event after the self-heal
    authenticated,  \* cofl_authenticated
    queue,          \* commands asked for and not yet taken
    paused,         \* bazaar_flips_paused
    window,         \* bazaar_pause_until lies in the future
    watchers,       \* of each resume watcher: where it is
    deferred,       \* listings that wait for the end of the pause
    switching,      \* spawned tasks that have yet to run switch_region
    licenseSent,    \* license_default_sent
    bzList,         \* lines of the list read so far: bz_list_accum
    summaries,      \* summary tasks that wait
    bzTotal,        \* lines the session's bazaar profit was summed over
    refused         \* history: COFL flips dropped as unauthenticated

bootVars  == <<boot, attempts>>
pauseVars == <<paused, window, watchers, deferred>>
listVars  == <<bzList, summaries, bzTotal>>
eventVars == <<bootVars, at, authenticated, queue, pauseVars, switching,
               licenseSent, listVars, refused>>
vars == <<socketVars, eventVars>>

Waiting == [is |-> "recv"]
Command(is, about) == [is |-> is, about |-> about]
ManageOrders == Command("ManageOrders", "")
SellToAuction == Command("SellToAuction", "")

-----------------------------------------------------------------------------
(* Before the loop *)

bootUnchanged == UNCHANGED <<socketVars, at, authenticated, queue, pauseVars,
                             switching, licenseSent, listVars, refused>>

(* wait_for_cofl_challenge: the grace period may end without a word. *)
Grace ==
    /\ boot = "grace"
    /\ boot' = IF linkShown /\ ~ loggedIn THEN "signIn" ELSE "login"
    /\ UNCHANGED attempts /\ bootUnchanged

(* Signed in, or 300 s have passed. *)
AwaitSignIn ==
    /\ boot = "signIn"
    /\ boot' = "login"
    /\ UNCHANGED attempts /\ bootUnchanged

Login ==
    /\ boot = "login"
    /\ \/ boot' = "running" /\ UNCHANGED attempts
       \/ /\ attempts < AuthMaxRetries
          /\ attempts' = attempts + 1
          /\ boot' = IF attempts' = AuthMaxRetries THEN "restarted" ELSE "login"
    /\ bootUnchanged

-----------------------------------------------------------------------------
(* The loop *)

(* The self-heal before every event. *)
Latch == authenticated' = (authenticated \/ loggedIn)

Receive ==
    /\ boot = "running" /\ at = Waiting /\ agg # <<>>
    /\ Latch
    /\ at' = Head(agg) /\ agg' = Tail(agg)
    /\ UNCHANGED <<linkVars, authVars, inbox, seen, sent, seenLog,
                   bootVars, queue, pauseVars, switching, licenseSent, listVars,
                   refused>>

Asks(c)  == queue' = queue \cup c
HasManageOrders == ManageOrders \in queue

(* Each handler says what it asks for and changes; the rest is unchanged.  *)
OnlyQueues == UNCHANGED <<authenticated, pauseVars, switching, licenseSent,
                          listVars, refused>>
Skip == UNCHANGED queue /\ OnlyQueues

(* The gates in their order; the finder's flips need no COFL.  The flip    *)
(* tracker, which an accepted flip enters, is in FlipLedger.               *)
AuctionFlip(e, closed) ==
    LET unauth == ~ e.own /\ ~ authenticated
    IN  IF closed \cap {"ahDisabled", "intakePaused"} # {} THEN Skip
        ELSE IF unauth
        THEN /\ refused' = refused \cup {e}
             /\ UNCHANGED <<queue, authenticated, pauseVars, switching,
                            licenseSent, listVars>>
        ELSE IF closed \cap {"startupInProgress", "startupState", "inventoryFull"} # {}
        THEN Skip
        ELSE Asks({Command("PurchaseAuction", e.about)}) /\ OnlyQueues

Order(side, closed) ==
    IF side = "buy" THEN {Command("BazaarBuyOrder", "")}
    ELSE {Command("BazaarSellOrder", "")} \cup
         (IF "atLimit" \in closed /\ ~ HasManageOrders THEN {ManageOrders} ELSE {})

NoBuys == {"atLimit", "filledOrders", "nearFull", "noRoomForUnstackable"}

BazaarFlip(side, closed) ==
    IF \/ closed \cap {"bzDisabled", "intakePaused", "startupState",
                       "startupInProgress", "dailyLimit"} # {}
       \/ ~ authenticated \/ paused
       \/ side = "buy" /\ closed \cap NoBuys # {}
    THEN Skip
    ELSE Asks(Order(side, closed)) /\ OnlyQueues

(* The same recommendation in words; nobody asks whether start-up is over. *)
ChatRecommendation(side, closed) ==
    IF \/ closed \cap {"bzDisabled", "intakePaused", "startupState", "dailyLimit"} # {}
       \/ ~ authenticated \/ paused
       \/ side = "buy" /\ closed \cap NoBuys # {}
    THEN Skip
    ELSE Asks(Order(side, closed)) /\ OnlyQueues

(* The tracker, where the order is marked and removed, is BazaarTracker.   *)
CancelBazaarOrder(closed) ==
    IF "bzDisabled" \in closed \/ ~ authenticated
    THEN Skip
    ELSE Asks({Command("CancelOrder", "")}) /\ OnlyQueues

(* COFL is asked to make this account the default, unless it was before.   *)
LicenseIsSent ==
    /\ licenseSent' = TRUE
    /\ UNCHANGED <<queue, authenticated, pauseVars, switching, listVars, refused>>

(* The first line of a list spawns the task that sums it up 2 s later. *)
BzLine ==
    /\ bzList' = bzList + 1
    /\ summaries' = IF bzList' = 1 THEN summaries + 1 ELSE summaries
    /\ UNCHANGED <<queue, authenticated, pauseVars, switching, licenseSent,
                   bzTotal, refused>>

BzHeader ==
    /\ bzList' = 0
    /\ UNCHANGED <<queue, authenticated, pauseVars, switching, licenseSent,
                   summaries, bzTotal, refused>>

ChatMessage(e, closed) ==
    CASE e.about = "hello" ->
            /\ authenticated' = TRUE
            /\ UNCHANGED <<queue, pauseVars, switching, licenseSent, listVars,
                           refused>>
      [] e.about \in {"premium", "noLicense"} -> LicenseIsSent
      [] e.about = "bzHeader" -> BzHeader
      [] e.about = "bzLine" -> BzLine
      [] e.about \in {"buy", "sell"} -> ChatRecommendation(e.about, closed)
      [] OTHER -> Skip

(* connect <host>: the rest happens in a task of its own. *)
Connect(h) ==
    /\ authenticated' = FALSE
    /\ switching' = Append(switching, h)
    /\ UNCHANGED <<queue, pauseVars, licenseSent, listVars, refused>>

(* Listings wait while the bazaar is paused: the AH window is open. *)
CreateAuction(closed) ==
    IF closed \cap {"unprofitable", "blocked"} # {} THEN Skip
    ELSE IF paused
    THEN /\ deferred' = deferred + 1
         /\ UNCHANGED <<queue, authenticated, paused, window, watchers,
                        switching, licenseSent, listVars, refused>>
    ELSE Asks({SellToAuction}) /\ OnlyQueues

WatchersAfterAll ==                         \* mutant: no compare_exchange
    Append(watchers, "sleeps")

WatchersAfter ==
    IF paused THEN watchers ELSE Append(watchers, "sleeps")

(* compare_exchange: only the first countdown of a pause has a watcher.    *)
(* The bot drops what it does (CommandProcessor), its window is closed.    *)
Countdown(closed) ==
    IF closed \cap {"ahDisabled", "bzDisabled"} # {} THEN Skip
    ELSE /\ window' = TRUE
         /\ paused' = TRUE
         /\ watchers' = WatchersAfter
         /\ UNCHANGED <<queue, authenticated, deferred, switching, licenseSent,
                        listVars, refused>>

CollectAuctions == Asks({Command("ClaimSoldItem", "")}) /\ OnlyQueues

(* A license of the account or of another one is noted; NONE is left alone.*)
LicenseList(whose) ==
    IF whose = "nobody" THEN LicenseIsSent ELSE Skip

ListInstructions(closed) ==
    IF "blocked" \in closed THEN Skip
    ELSE Asks({SellToAuction}) /\ OnlyQueues

(* What becomes a command as it comes; the inventory is uploaded at once.  *)
Request(what) ==
    CASE what = "chat"          -> Asks({Command("SendChat", "")}) /\ OnlyQueues
      [] what = "tradeResponse" -> Asks({Command("ClickSlot", "39")}) /\ OnlyQueues
      [] what = "swapProfile"   -> Asks({Command("SwapProfile", "")}) /\ OnlyQueues
      [] what = "trade"         -> Asks({Command("AcceptTrade", "")}) /\ OnlyQueues
      [] OTHER                  -> Skip

(* The gates the handler of an event asks for. *)
Looks(e) ==
    CASE e.is = "flip" -> {"ahDisabled", "intakePaused", "startupInProgress",
                           "startupState", "inventoryFull"}
      [] e.is = "bazaarFlip" \/ (e.is = "ChatMessage" /\ e.about \in {"buy", "sell"}) ->
            NoBuys \cup {"bzDisabled", "intakePaused", "startupInProgress",
                         "startupState", "dailyLimit"}
      [] e.is = "cancelOrder"      -> {"bzDisabled"}
      [] e.is = "createAuction"    -> {"unprofitable", "blocked"}
      [] e.is = "listInstructions" -> {"blocked"}
      [] e.is = "countdown"        -> {"ahDisabled", "bzDisabled"}
      [] OTHER                     -> {}

Dispatch ==
    /\ at # Waiting
    /\ at' = Waiting
    /\ \E closed \in {{}} \cup {{g} : g \in Looks(at)} :
        CASE at.is = "Authenticated" ->
                /\ authenticated' = TRUE
                /\ UNCHANGED <<queue, pauseVars, switching, licenseSent, listVars,
                               refused>>
          [] at.is = "flip"            -> AuctionFlip(at, closed)
          [] at.is = "bazaarFlip"      -> BazaarFlip(at.about, closed)
          [] at.is = "cancelOrder"     -> CancelBazaarOrder(closed)
          [] at.is = "ChatMessage"     -> ChatMessage(at, closed)
          [] at.is = "connect"         -> Connect(at.about)
          [] at.is = "createAuction"   -> CreateAuction(closed)
          [] at.is = "countdown"       -> Countdown(closed)
          [] at.is = "collectAuctions" -> CollectAuctions
          [] at.is = "LicenseList"     -> LicenseList(at.about)
          [] at.is = "listInstructions" -> ListInstructions(closed)
          [] at.is = "request"         -> Request(at.about)
    /\ UNCHANGED <<socketVars, bootVars>>

-----------------------------------------------------------------------------
(* The tasks the loop has spawned *)

Switch ==
    \E i \in DOMAIN switching :
        /\ SwitchRegion(switching[i])
        /\ switching' = RemoveAt(switching, i)
        /\ UNCHANGED <<bootVars, at, authenticated, queue, pauseVars,
                       licenseSent, listVars, refused>>

(* 20 s since the last countdown. *)
WindowEnds ==
    /\ window /\ window' = FALSE
    /\ UNCHANGED <<socketVars, bootVars, at, authenticated, queue, paused,
                   watchers, deferred, switching, licenseSent, listVars, refused>>

WatcherStep(i, from, to) ==
    /\ watchers[i] = from
    /\ watchers' = IF to = "done" THEN RemoveAt(watchers, i)
                   ELSE [watchers EXCEPT ![i] = to]

(* The watcher reads the deadline, clears the flag, then sees to the       *)
(* orders that were left alone during the pause.                           *)
Watch(i) ==
    /\ \/ /\ WatcherStep(i, "sleeps", "clears") /\ ~ window
          /\ UNCHANGED <<paused, queue>>
       \/ /\ WatcherStep(i, "clears", "resumes")
          /\ paused' = FALSE /\ UNCHANGED queue
       \/ /\ WatcherStep(i, "resumes", "done")
          /\ UNCHANGED paused
          /\ queue' \in {queue, queue \cup {ManageOrders}}
    /\ UNCHANGED <<socketVars, bootVars, at, authenticated, window, deferred,
                   switching, licenseSent, listVars, refused>>

(* Polled every 250 ms, for 30 s. *)
Deferred ==
    /\ deferred > 0
    /\ deferred' = deferred - 1
    /\ Asks({SellToAuction})
    /\ UNCHANGED <<socketVars, bootVars, at, authenticated, paused, window,
                   watchers, switching, licenseSent, listVars, refused>>

(* 2 s after the first line, whether or not the list is complete. *)
Summary ==
    /\ summaries > 0
    /\ summaries' = summaries - 1
    /\ bzTotal' = IF bzList > 0 THEN bzList ELSE bzTotal
    /\ UNCHANGED <<socketVars, bootVars, at, authenticated, queue, pauseVars,
                   switching, licenseSent, bzList, refused>>

(* The processor catches up. *)
Processed ==
    /\ queue # {} /\ queue' = {}
    /\ UNCHANGED <<socketVars, bootVars, at, authenticated, pauseVars, switching,
                   licenseSent, listVars, refused>>

-----------------------------------------------------------------------------
Init ==
    /\ SocketInit
    /\ boot = "grace" /\ attempts = 0
    /\ at = Waiting /\ authenticated = FALSE /\ queue = {}
    /\ paused = FALSE /\ window = FALSE /\ watchers = <<>> /\ deferred = 0
    /\ switching = <<>>
    /\ licenseSent = FALSE                \* with several accounts
    /\ bzList = 0 /\ summaries = 0 /\ bzTotal = 0
    /\ refused = {}

Sockets == SocketNext /\ UNCHANGED eventVars
Boot    == Grace \/ AwaitSignIn \/ Login
Loop    == Receive \/ Dispatch
Tasks   == Switch \/ (\E i \in DOMAIN watchers : Watch(i)) \/ Deferred \/ Summary

Next == Sockets \/ Boot \/ Loop \/ Tasks \/ WindowEnds \/ Processed

(* Tokio polls what is ready; a back-off ends.                             *)
Fairness ==
    /\ WF_vars(Loop) /\ WF_vars(Switch)
    /\ \A s \in CoflSockets :
           WF_vars(Reconnect(s) /\ UNCHANGED eventVars)
    /\ WF_vars(LeaveRegion /\ UNCHANGED eventVars)

Spec == Init /\ [][Next]_vars /\ Fairness
-----------------------------------------------------------------------------
(* Properties *)

(* Every variable ranges over the values the code can give it. *)
TypeOK ==
    /\ conn \in [CoflSockets -> {"up", "down"}] /\ {host, url} \subseteq Hosts
    /\ {bump, loggedIn, linkShown, authenticated, paused, window} \subseteq BOOLEAN
    /\ session \in [CoflSockets -> {"in", "out"}]
    /\ sent \in 0 .. MaxMessages /\ attempts \in 0 .. AuthMaxRetries
    /\ boot \in {"grace", "signIn", "login", "running", "restarted"}
    /\ seen \in Seq(Uuids) /\ Len(seen) <= SeenCap
    /\ switching \in Seq(Hosts)
    /\ watchers \in Seq({"sleeps", "clears", "resumes"})

(* A flip that two sockets announce is bought once: between two times the  *)
(* same auction passes for new, at least SEEN_FLIPS_CAP others did         *)
(* (main.rs:1704, "same UUID dedupe - whichever source is first wins").    *)
DuplicatesApart ==
    \A i, j \in DOMAIN seenLog :
        i < j /\ seenLog[i] = seenLog[j] => j - i > SeenCap

(* A flip of COFL is refused as unauthenticated only if COFL had asked to  *)
(* sign in, or a region switch was carried out: no event that was lost or  *)
(* overtaken on its way through the sockets wedges the gate                *)
(* (main.rs:4026-4035, websocket/client.rs:395-410).                       *)
RefusedForAReason ==
    \A e \in refused : e.asked \/ e.at < resets

(* A pause of the bazaar has one watcher to end it, however many           *)
(* countdowns come (main.rs:5174, "spawns the single resume watcher").     *)
OneWatcher ==
    Cardinality({i \in DOMAIN watchers : watchers[i] \in {"sleeps", "clears"}})
        = IF paused THEN 1 ELSE 0

(* The bazaar is paused for 20 s after every countdown (main.rs:5146,      *)
(* "Always (re)extend the pause window to now+20s").                       *)
PauseHolds == window => paused

(* Whatever is lost on the way, the primary socket arrives at the host it  *)
(* was last told to connect to, also when the switch lands in a back-off   *)
(* (websocket/client.rs:309).                                              *)
SwitchArrives == []<>(host = url)
=============================================================================
