----------------------------- MODULE BazaarBooks -----------------------------
(***************************************************************************)
(* What the program believes about its bazaar orders: the tracker of       *)
(* bazaar_tracker.rs, and the event loop of main.rs that keeps it from     *)
(* what the bot reports, the panel asks and the clock says.                *)
(*                                                                         *)
(* The tracker knows an order by its key only, the item and the side.  The *)
(* bot sees the real orders while it manages them (BazaarOrders), and      *)
(* tells the event loop later and through a channel; the panel and COFL    *)
(* change the tracker directly.  Prices are left out, and what they are    *)
(* worth.                                                                  *)
(*                                                                         *)
(* Time is a step: an entry may get too old at any moment, and so may the  *)
(* suppression of a cancelled key, once the cancel is done if Prompt.      *)
(***************************************************************************)
EXTENDS Integers, Sequences, SequencesExt, FiniteSets, FiniteSetsExt

CONSTANTS
    Items,
    OrdersAtStart,      \* number of orders in the game at the first start
    AgeCancel,          \* bazaar_order_cancel_minutes_per_million > 0
    Prompt,             \* a requested cancel is done before its key expires
    MaxOrders,          \* bound of the model: orders ever placed
    MaxEvents,          \* bound of the model: events under way
    MaxCancels,         \* bound of the model: cancels asked by panel or COFL
    MaxRuns             \* bound of the model: pending ManageOrders

Sides == {"buy", "sell"}
Keys  == Items \X Sides
Units == 2              \* bound of the model: units of every order

ASSUME BooksAssumption ==
    /\ AgeCancel \in BOOLEAN /\ Prompt \in BOOLEAN
    /\ OrdersAtStart \in Nat /\ MaxOrders \in Nat /\ OrdersAtStart <= MaxOrders
    /\ MaxEvents \in Nat /\ MaxCancels \in Nat /\ MaxRuns \in Nat

VARIABLES
    game,       \* the orders in the game, claimed units included
    placed,     \* orders placed so far
    requests,   \* pending ManageOrders commands
    run,        \* {} or the set of the current one
    starting,   \* the start-up workflow is not complete
    events,     \* BotEvents on their way to the event loop
    book,       \* orders of the tracker
    costs,      \* last_buy_costs: of each item, units bought
    suppressed, \* the keys of pending_cancels, those that expired left out
    cancelsAsked,   \* so far
    unspent     \* history: of each item, units whose cost was recorded and not taken

gameVars == <<game, placed>>
runVars  == <<requests, run, starting>>
histVars == <<cancelsAsked, unspent>>
bookVars == <<book, costs, suppressed>>
booksVars == <<gameVars, runVars, events, bookVars, histVars>>

Order == [id : 1 .. MaxOrders, key : Keys, fill : 0 .. Units, took : 0 .. Units]
Entry == [key : Keys, filled : BOOLEAN]
AnyKey  == <<"any", "any">>
Request == [cancel : BOOLEAN, target : Keys \cup {AnyKey}]

Of(S, k)       == {o \in S : o.key = k}
Places(s, k)   == {i \in DOMAIN s : s[i].key = k}
Times(seen, k) == Cardinality({i \in DOMAIN seen : seen[i] = k})
Claimable(o)   == o.fill > o.took
HasManageOrders == requests # <<>> \/ run # {}
Event(is, k, n) ==
    [is |-> is, key |-> k, units |-> n, already |-> FALSE, seen |-> <<>>]
Send(es) == /\ Len(events) < MaxEvents
            /\ events' = events \o es

-----------------------------------------------------------------------------
(* The tracker *)

NewEntry(k) == [key |-> k, filled |-> FALSE]

(* remove_order and mark_filled take the latest entry that fits. *)
Latest(I) == {i \in I : \A j \in I : j <= i}

RemoveOrder(s, k) ==
    LET L == Latest(Places(s, k))
    IN  IF L = {} THEN s ELSE RemoveAt(s, CHOOSE i \in L : TRUE)

Removed(s, k) == {s[i] : i \in Latest(Places(s, k))}

MarkFilled(s, k) ==
    LET L == Latest({i \in Places(s, k) : ~ s[i].filled})
    IN  [i \in DOMAIN s |-> IF i \in L THEN [s[i] EXCEPT !.filled = TRUE] ELSE s[i]]

(* Of each key, the first entries are kept, as many as the game shows; the *)
(* orders shown beyond those are added, unless the key is suppressed.      *)
Nth(s, i) == Cardinality({j \in 1 .. i : s[j] = s[i]})
KeysOf(s) == [i \in DOMAIN s |-> s[i].key]

SelectAt(s, I) ==
    LET pick[n \in 0 .. Len(s)] ==
            IF n = 0 THEN <<>>
            ELSE IF n \in I THEN Append(pick[n - 1], s[n]) ELSE pick[n - 1]
    IN  pick[Len(s)]

Kept(s, seen) ==
    SelectAt(s, {i \in DOMAIN s : Nth(KeysOf(s), i) <= Times(seen, s[i].key)})

MissingAll(kept, seen) ==               \* mutant: suppressed keys come back
    SelectAt(seen, {i \in DOMAIN seen :
        Nth(seen, i) > Cardinality(Places(kept, seen[i]))})

Missing(kept, seen) ==
    SelectAt(seen, {i \in DOMAIN seen :
        seen[i] \notin suppressed /\ Nth(seen, i) > Cardinality(Places(kept, seen[i]))})

Reconcile(s, seen) ==
    LET kept == Kept(s, seen)
        new  == Missing(kept, seen)
    IN  kept \o [i \in DOMAIN new |-> NewEntry(new[i])]

(* The average price kept with the units is left out. *)
RecordBuyCost(item, n) == costs' = [costs EXCEPT ![item] = @ + n]

LeaveBuyCost(item) == UNCHANGED costs   \* mutant: the cost is read, not taken

TakeBuyCost(item) == costs' = [costs EXCEPT ![item] = 0]

-----------------------------------------------------------------------------
(* The game *)

Place(k) ==
    /\ placed < MaxOrders /\ run = {}
    /\ placed' = placed + 1
    /\ game' = game \cup {[id |-> placed + 1, key |-> k, fill |-> 0, took |-> 0]}
    /\ \/ Send(<<Event("placed", k, Units)>>)
       \/ UNCHANGED events                  \* by hand
    /\ UNCHANGED <<runVars, bookVars, histVars>>

(* The chat line of a full order becomes an event. *)
Fill(o) ==
    /\ o.fill < Units
    /\ \E n \in o.fill + 1 .. Units :
          /\ game' = (game \ {o}) \cup {[o EXCEPT !.fill = n]}
          /\ IF n = Units THEN Send(<<Event("filled", o.key, 0)>>)
             ELSE UNCHANGED events
    /\ UNCHANGED <<placed, runVars, bookVars, histVars>>

-----------------------------------------------------------------------------
(* The runs of ManageOrders, as far as they are told to the event loop.    *)
(* Each list they open is reported, without the keys already processed.    *)

Shown(done) ==
    SetToSortSeq({o \in game : o.key \notin done}, LAMBDA a, b : a.id < b.id)

Snapshot(done) ==
    [Event("snapshot", AnyKey, 0) EXCEPT !.seen =
        [i \in DOMAIN Shown(done) |-> Shown(done)[i].key]]

Start ==
    /\ run = {} /\ requests # <<>>
    /\ Len(events) + 1 < MaxEvents         \* room for what the run will tell
    /\ Send(<<Snapshot({})>>)
    /\ run' = {Head(requests)}
    /\ requests' = Tail(requests)
    /\ UNCHANGED <<gameVars, starting, bookVars, histVars>>

Fits(r, o) == r.target \in {AnyKey, o.key}
(* An order is claimed by the click when it is full, else in its options.  *)
(* What the event tells is the count of the lore: all that was ever filled.*)
(* After a click the list may come again before the run is over.           *)
Collected(o) == Event("collected", o.key, o.fill)

Collect(o) ==
    /\ \E r \in run : Fits(r, o)
    /\ Claimable(o)
    /\ game' = (game \ {o}) \cup
          (IF o.fill = Units THEN {} ELSE {[o EXCEPT !.took = o.fill]})
    /\ Send(<<Collected(o)>>) \/ Send(<<Collected(o), Snapshot({o.key})'>>)
    /\ run' = {}
    /\ UNCHANGED <<placed, requests, starting, bookVars, histVars>>

(* Cancelling collects first what there is, and tells both. *)
Cancel(o) ==
    /\ \E r \in run : Fits(r, o) /\ (r.cancel \/ AgeCancel)
    /\ o.fill < Units
    /\ game' = game \ {o}
    /\ LET cancelled == [Event("cancelled", o.key, 0) EXCEPT !.already = Claimable(o)]
       IN  Send((IF Claimable(o) THEN <<Collected(o)>> ELSE <<>>) \o <<cancelled>>)
    /\ run' = {}
    /\ UNCHANGED <<placed, requests, starting, bookVars, histVars>>

(* Nothing to do, or given up.  A click that is not answered in 5 s is     *)
(* taken for a collection all the same.                                    *)
Leave ==
    /\ run # {}
    /\ \/ UNCHANGED events
       \/ /\ ~ Prompt
          /\ \E o \in game : (\E r \in run : Fits(r, o)) /\ Send(<<Collected(o)>>)
    /\ run' = {}
    /\ UNCHANGED <<gameVars, requests, starting, bookVars, histVars>>

(* The start-up workflow asks for one cancelling run and goes on when that *)
(* is over.                                                                *)
StartupComplete ==
    /\ starting /\ ~ HasManageOrders
    /\ Send(<<Event("startup", AnyKey, 0)>>)
    /\ starting' = FALSE
    /\ UNCHANGED <<gameVars, requests, run, bookVars, histVars>>

-----------------------------------------------------------------------------
(* The event loop of main.rs *)

ManageOrders == [cancel |-> FALSE, target |-> AnyKey]
Asks(r) == /\ Len(requests) < MaxRuns
           /\ requests' = Append(requests, r)

(* A fill asks for a run unless there is one, or no room for the items.    *)
OnFilled(e) ==
    /\ book' = MarkFilled(book, e.key)
    /\ \/ ~ HasManageOrders /\ Asks(ManageOrders)
       \/ (HasManageOrders \/ e.key[2] = "buy") /\ UNCHANGED requests
    /\ UNCHANGED <<costs, suppressed, unspent>>

(* A tracked buy leaves its cost behind, a tracked sale takes it. *)
OnCollected(e) ==
    LET item == e.key[1]
        was  == Removed(book, e.key)
    IN  /\ book' = RemoveOrder(book, e.key)
        /\ \/ was = {} /\ UNCHANGED <<costs, unspent>>
           \/ /\ e.key[2] = "buy" /\ was # {}
              /\ RecordBuyCost(item, e.units)
              /\ unspent' = [unspent EXCEPT ![item] = @ + e.units]
           \/ /\ e.key[2] = "sell" /\ was # {}
              /\ TakeBuyCost(item)
              /\ unspent' = [unspent EXCEPT ![item] = @ - costs[item]]
        /\ UNCHANGED <<suppressed, requests>>

OnCancelled(e) ==
    /\ book' = IF e.already THEN book ELSE RemoveOrder(book, e.key)
    /\ UNCHANGED <<costs, suppressed, requests, unspent>>

ClearAll ==
    /\ book' = <<>>
    /\ suppressed' = suppressed \cup {k \in Keys : Places(book, k) # {}}

Handle ==
    /\ events # <<>>
    /\ events' = Tail(events)
    /\ LET e == Head(events)
       IN  \/ /\ e.is = "placed"
              /\ book' = Append(book, NewEntry(e.key))
              /\ UNCHANGED <<costs, suppressed, requests, unspent>>
           \/ e.is = "filled" /\ OnFilled(e)
           \/ e.is = "collected" /\ OnCollected(e)
           \/ e.is = "cancelled" /\ OnCancelled(e)
           \/ /\ e.is = "snapshot"
              /\ book' = Reconcile(book, e.seen)
              /\ UNCHANGED <<costs, suppressed, requests, unspent>>
           \/ /\ e.is = "startup" /\ ClearAll
              /\ UNCHANGED <<costs, requests, unspent>>
    /\ UNCHANGED <<gameVars, run, starting, cancelsAsked>>

-----------------------------------------------------------------------------
(* The panel and COFL *)

Suppress(k) == suppressed' = suppressed \cup {k}

CancelOrder(k) ==
    /\ cancelsAsked < MaxCancels
    /\ cancelsAsked' = cancelsAsked + 1
    /\ Suppress(k)
    /\ book' = RemoveOrder(book, k)
    /\ Asks([cancel |-> TRUE, target |-> k])
    /\ UNCHANGED <<gameVars, run, starting, events, costs, unspent>>

CancelAll ==
    /\ cancelsAsked < MaxCancels
    /\ cancelsAsked' = cancelsAsked + 1
    /\ ClearAll
    /\ Asks([cancel |-> TRUE, target |-> AnyKey])
    /\ UNCHANGED <<gameVars, run, starting, events, costs, unspent>>

-----------------------------------------------------------------------------
(* The clock *)

CancelUnderWay(k) ==
    \/ \E r \in ToSet(requests) \cup run : r.cancel /\ r.target \in {k, AnyKey}
    \/ events # <<>>

(* CANCEL_SUPPRESS_SECS are over. *)
Expire(k) ==
    /\ k \in suppressed
    /\ Prompt => ~ CancelUnderWay(k)
    /\ suppressed' = suppressed \ {k}
    /\ UNCHANGED <<gameVars, runVars, events, book, costs, histVars>>

(* An entry is removed when it is older than the limit; they were appended *)
(* in time, so the first ones are the oldest.                              *)
RemoveStaleOrders ==
    /\ \E n \in 1 .. Len(book) : book' = SubSeq(book, n + 1, Len(book))
    /\ UNCHANGED <<gameVars, runVars, events, costs, suppressed, histVars>>

(* The periodic check of the orders. *)
Periodic ==
    /\ AgeCancel \/ \E i \in DOMAIN book : book[i].filled
    /\ ~ HasManageOrders /\ ~ starting
    /\ Asks(ManageOrders)
    /\ UNCHANGED <<gameVars, run, starting, events, bookVars, histVars>>

-----------------------------------------------------------------------------
(* A start, the first one or another: the two files may hold orders that   *)
(* are no more, and costs.  Each has a writer of its own (JsonWriter).     *)
BooksInit ==
    /\ placed = OrdersAtStart
    /\ \E key \in [1 .. OrdersAtStart -> Keys] :
          game = {[id |-> n, key |-> key[n], fill |-> 0, took |-> 0]
                     : n \in 1 .. OrdersAtStart}
    /\ requests = <<[cancel |-> TRUE, target |-> AnyKey]>>
    /\ run = {} /\ starting = TRUE /\ events = <<>>
    /\ book \in {<<>>} \cup {<<NewEntry(k)>> : k \in Keys}
    /\ suppressed = {}
    /\ costs = [i \in Items |-> 1]
    /\ cancelsAsked = 0 /\ unspent = costs

GameStep   == (\E k \in Keys : Place(k)) \/ (\E o \in game : Fill(o))
RunStep    == Start \/ Leave \/ StartupComplete \/ \E o \in game : Collect(o) \/ Cancel(o)
AskStep    == CancelAll \/ \E k \in Keys : CancelOrder(k)
ClockStep  == \/ RemoveStaleOrders \/ Periodic \/ \E k \in Keys : Expire(k)

BooksNext == GameStep \/ RunStep \/ Handle \/ AskStep \/ ClockStep

BooksSpec == BooksInit /\ [][BooksNext]_booksVars

-----------------------------------------------------------------------------
BooksTypeOK ==
    /\ game \subseteq Order /\ placed \in 0 .. MaxOrders
    /\ requests \in Seq(Request) /\ run \subseteq Request /\ starting \in BOOLEAN
    /\ book \in Seq(Entry)
    /\ suppressed \subseteq Keys
    /\ costs \in [Items -> Nat] /\ unspent \in [Items -> Nat]

(* An order that the panel or COFL asked to cancel does not come back to   *)
(* the tracker while the cancel is under way, although the run reports a   *)
(* list that still shows it (web/server.rs:1748-1757).                     *)
CancelledStaysOut ==
    [][\A k \in Keys :
          (\E r \in ToSet(requests) \cup run : r.cancel /\ r.target = k)
             => \/ Cardinality(Places(book', k)) <= Cardinality(Places(book, k))
                \/ events # <<>> /\ Head(events).is = "placed"]_booksVars

(* The cost of a unit is taken by one sale only, in one session            *)
(* (bazaar_tracker.rs:348-385).                                            *)
CostSpentOnce == \A i \in Items : costs[i] <= unspent[i]

=============================================================================
