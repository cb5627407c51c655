-------------------------------- MODULE Seller --------------------------------
(***************************************************************************)
(* The Discord seller (seller/runner.rs): start() checks the token and the *)
(* channels, renders the selected auctions and leaves a task for each      *)
(* channel, which posts those still listed, time and again; stop() tells   *)
(* the tasks to end and aborts them.  Both are called by the panel, stop() *)
(* also by a task that finds nothing left to post.  They share `running`,  *)
(* the sender of the stop signal and the handles, each under a lock of its *)
(* own, and start() awaits answers of Discord while `running` is set.      *)
(*                                                                         *)
(* What is listed is what the last "Manage Auctions" window showed.        *)
(***************************************************************************)
EXTENDS Integers, FiniteSets

CONSTANTS
    Selected,       \* the selected auctions
    SellerChannels, \* the channels to post to
    Others,         \* the window always lists another auction as well
    MaxStarts,      \* bound of the model: starts by the panel
    MaxStops        \* bound of the model: stops by the panel

ASSUME SellerAssumption ==
    /\ IsFiniteSet(Selected) /\ Selected # {} /\ Others \in BOOLEAN
    /\ {MaxStarts, MaxStops} \subseteq Nat

Runs == 1 .. MaxStarts      \* the calls of start that set `running`

VARIABLES
    running,
    starts,     \* where each call of start is
    stops,      \* calls of stop: [by, at], the panel is 0; at "called", "swapped", "told"
    stopped,    \* stops by the panel so far
    stopTx,     \* the run whose signal stop_tx would send, 0 for None
    signal,     \* what the tasks of each run see: "go", "stop", or "closed"
    handles,    \* the run whose tasks `handles` holds, 0 if it is empty
    senders,    \* where the task of each run and channel is
    dropped,    \* what each run does not post any more
    seen        \* what the last window showed of each selected auction

sellerVars == <<running, starts, stops, stopped, stopTx, signal, handles, senders, dropped,
                seen>>
signalVars == <<stopTx, signal, handles>>

Listed      == {i \in Selected : seen[i] = "listed"}
EmptyWindow == ~ Others /\ \A i \in Selected : seen[i] = "gone"
Active      == {"looking", "sending", "cooling"}

(* check_auction_presence: an empty list is taken for one not yet loaded.  *)
Present(i) == EmptyWindow \/ seen[i] = "listed"

-----------------------------------------------------------------------------
(* start() *)

StartSeller(r) ==
    /\ ~ running /\ starts[r] = "none" /\ \A q \in 1 .. r - 1 : starts[q] # "none"
    /\ running' = TRUE
    /\ starts' = [starts EXCEPT ![r] = "checking"]
    /\ UNCHANGED <<stops, stopped, signalVars, senders, dropped, seen>>

(* The token, every channel, or every auction is refused. *)
StartFails(r) ==
    /\ starts[r] = "checking"
    /\ running' = FALSE
    /\ starts' = [starts EXCEPT ![r] = "done"]
    /\ UNCHANGED <<stops, stopped, signalVars, senders, dropped, seen>>

Overwritten(r) == IF stopTx = 0 THEN signal ELSE [signal EXCEPT ![stopTx] = "closed"]

(* All answers are in: what the list holds is rendered. *)
Install(r) ==
    /\ starts[r] = "checking" /\ \E i \in Selected : seen[i] # "gone"
    /\ dropped' = [dropped EXCEPT ![r] = {i \in Selected : seen[i] = "gone"}]
    /\ starts' = [starts EXCEPT ![r] = "spawning"]
    /\ stopTx' = r /\ signal' = Overwritten(r)
    /\ UNCHANGED <<running, stops, stopped, handles, senders, seen>>

Spawn(r) ==
    /\ starts[r] = "spawning"
    /\ \E ok \in SUBSET SellerChannels \ {{}} :
          senders' = [senders EXCEPT ![r] =
                         [c \in SellerChannels |-> IF c \in ok THEN "looking" ELSE "ended"]]
    /\ handles' = r
    /\ starts' = [starts EXCEPT ![r] = "done"]
    /\ UNCHANGED <<running, stops, stopped, stopTx, signal, dropped, seen>>

-----------------------------------------------------------------------------
(* stop() *)

CallStop(by) == stops' = stops \cup {[by |-> by, at |-> "called"]}

Stop ==
    /\ stopped < MaxStops
    /\ stopped' = stopped + 1
    /\ CallStop(<<0, stopped'>>)
    /\ UNCHANGED <<running, starts, signalVars, senders, dropped, seen>>

StopMoves(s, to) == stops' = (stops \ {s}) \cup {[s EXCEPT !.at = to]}

(* Nothing is done unless `running` was set. *)
SwapRunning(s) ==
    /\ s \in stops /\ s.at = "called"
    /\ running' = FALSE
    /\ IF running THEN StopMoves(s, "swapped") ELSE stops' = stops \ {s}
    /\ UNCHANGED <<starts, stopped, signalVars, senders, dropped, seen>>

Tell(s) ==
    /\ s \in stops /\ s.at = "swapped"
    /\ StopMoves(s, "told")
    /\ stopTx' = 0
    /\ signal' = IF stopTx = 0 THEN signal ELSE [signal EXCEPT ![stopTx] = "stop"]
    /\ UNCHANGED <<running, starts, stopped, handles, senders, dropped, seen>>

AbortHandles(s) ==
    /\ s \in stops /\ s.at = "told"
    /\ stops' = stops \ {s}
    /\ handles' = 0
    /\ senders' = IF handles = 0 THEN senders
                  ELSE [senders EXCEPT ![handles] = [c \in SellerChannels |-> "ended"]]
    /\ UNCHANGED <<running, starts, stopped, stopTx, signal, dropped, seen>>

-----------------------------------------------------------------------------
(* sender_loop() *)

SenderGoes(r, c, to) == senders' = [senders EXCEPT ![r][c] = to]

SenderStops(r, c) ==
    /\ senders[r][c] \in {"looking", "cooling"} /\ signal[r] = "stop"
    /\ SenderGoes(r, c, "ended")
    /\ UNCHANGED <<running, starts, stops, stopped, signalVars, dropped, seen>>

(* What is once found gone stays dropped. *)
DroppedNow(r) == dropped[r] \cup {i \in Selected : ~ Present(i)}

PostsAnyway(r, c) ==         \* mutant: the message is sent without its items
    /\ senders[r][c] = "looking" /\ signal[r] # "stop"
    /\ dropped' = [dropped EXCEPT ![r] = DroppedNow(r)]
    /\ SenderGoes(r, c, "sending") /\ UNCHANGED stops
    /\ UNCHANGED <<running, starts, stopped, signalVars, seen>>

Look(r, c) ==
    /\ senders[r][c] = "looking" /\ signal[r] # "stop"
    /\ dropped' = [dropped EXCEPT ![r] = DroppedNow(r)]
    /\ IF dropped'[r] = Selected
          THEN SenderGoes(r, c, "ended") /\ CallStop(<<r, c>>)
          ELSE SenderGoes(r, c, "sending") /\ UNCHANGED stops
    /\ UNCHANGED <<running, starts, stopped, signalVars, seen>>

(* A message that fails is counted like one that is sent. *)
Sent(r, c) ==
    /\ senders[r][c] = "sending"
    /\ SenderGoes(r, c, "cooling")
    /\ UNCHANGED <<running, starts, stops, stopped, signalVars, dropped, seen>>

(* A closed signal ends the waiting at once, as its changed() returns.     *)
SenderCooled(r, c) ==
    /\ senders[r][c] = "cooling" /\ signal[r] # "stop"
    /\ SenderGoes(r, c, "looking")
    /\ UNCHANGED <<running, starts, stops, stopped, signalVars, dropped, seen>>

SenderStep(r, c) == SenderStops(r, c) \/ Look(r, c) \/ Sent(r, c) \/ SenderCooled(r, c)

-----------------------------------------------------------------------------
(* A "Manage Auctions" window: an auction is sold, or not there any more.  *)
WindowShows(i, as) ==
    /\ \/ seen[i] = "listed" /\ as \in {"sold", "gone"}
       \/ seen[i] = "sold" /\ as = "gone"
    /\ seen' = [seen EXCEPT ![i] = as]
    /\ UNCHANGED <<running, starts, stops, stopped, signalVars, senders, dropped>>

SellerInit ==
    /\ running = FALSE
    /\ starts = [r \in Runs |-> "none"]
    /\ stops = {} /\ stopped = 0
    /\ stopTx = 0 /\ signal = [r \in Runs |-> "go"] /\ handles = 0
    /\ senders = [r \in Runs |-> [c \in SellerChannels |-> "none"]]
    /\ dropped = [r \in Runs |-> {}]
    /\ seen = [i \in Selected |-> "listed"]

StartStep(r) == StartFails(r) \/ Install(r) \/ Spawn(r)
StopStep(s)  == SwapRunning(s) \/ Tell(s) \/ AbortHandles(s)

SellerNext ==
    \/ \E r \in Runs : StartSeller(r) \/ StartStep(r)
    \/ Stop \/ \E s \in stops : StopStep(s)
    \/ \E r \in Runs, c \in SellerChannels : SenderStep(r, c)
    \/ \E i \in Selected, as \in {"sold", "gone"} : WindowShows(i, as)

(* Tasks run and Discord answers. *)
SellerFairness ==
    /\ \A r \in Runs :
          /\ WF_sellerVars(StartStep(r))
          /\ \A c \in SellerChannels : WF_sellerVars(SenderStep(r, c))
    /\ WF_sellerVars(\E s \in stops : StopStep(s))

SellerSpec == SellerInit /\ [][SellerNext]_sellerVars /\ SellerFairness
-----------------------------------------------------------------------------
SellerTypeOK ==
    /\ running \in BOOLEAN /\ stopped \in 0 .. MaxStops
    /\ starts \in [Runs -> {"none", "checking", "spawning", "done"}]
    /\ stopTx \in 0 .. MaxStarts /\ handles \in 0 .. MaxStarts
    /\ signal \in [Runs -> {"go", "stop", "closed"}]
    /\ senders \in [Runs -> [SellerChannels -> Active \cup {"none", "ended"}]]
    /\ dropped \in [Runs -> SUBSET Selected]
    /\ seen \in [Selected -> {"listed", "sold", "gone"}]

Posting == \E r \in Runs, c \in SellerChannels : senders[r][c] \in Active

(* What is sold is not posted for ever: once nothing selected is listed    *)
(* every task ends, also one that stop() does not reach any more ("so sold *)
(* / claimed / moved items silently drop out of the message instead of     *)
(* being re-posted forever", seller/runner.rs:367-369).                    *)
SoldOutStops == []<>(Listed # {} \/ ~ Posting)

(* When the seller is stopped, and nobody starts it, its tasks end: "Stop  *)
(* all running tasks. Idempotent - stopping an already-stopped runner is a *)
(* no-op" (seller/runner.rs:175-176).                                      *)
StopsAll == []<>(running \/ (\E r \in Runs : starts[r] \in {"checking", "spawning"}) \/ ~ Posting)
=============================================================================
