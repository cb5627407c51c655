----------------------------- MODULE FlipLedger ------------------------------
(***************************************************************************)
(* How a sale at the auction house finds what its item was bought for      *)
(* (main.rs).  The flip tracker keeps one entry for a name, from the flip  *)
(* on, and the purchase ledger two for a purchase: by the uuid of the      *)
(* auction bought, if the tracker knows it, and by the name.  A sale names *)
(* the item and the uuid of its own listing, which is another.  The        *)
(* tracker is saved each minute, the ledger by a writer of its own; a      *)
(* crash leaves what the two files hold.                                   *)
(*                                                                         *)
(* A purchase is its number, which stands for price, time and uuid.        *)
(***************************************************************************)
EXTENDS Integers, FiniteSets

CONSTANTS
    Names,          \* item names
    MaxFlips,       \* bound of the model: flips accepted
    MaxBought,      \* bound of the model: purchases
    MaxEnds     \* bound of the model: crashes and rest breaks

ASSUME LedgerAssumption ==
    /\ IsFiniteSet(Names)
    /\ MaxFlips \in Nat /\ MaxBought \in Nat /\ MaxEnds \in Nat

VARIABLES
    tracker,    \* flip_tracker: for a name, NoEntry or what was paid, 0 before the purchase
    byName,     \* the ledger's entries by name: purchases, 0 if there is none
    byUuid,     \* and those by uuid: purchases
    trackerFile,
    ledgerFile, \* <<byName, byUuid>>
    orders,     \* PurchaseAuction commands not yet done, as names
    held,       \* history: of each name, the purchases not yet sold
    bought,     \* history: of each name, the purchases
    counted,    \* history: of each name, sales with a profit
    known,      \* history: names whose one purchase a sale must find
    flips,
    ends

inMemory  == <<tracker, byName, byUuid>>
onDisk    == <<trackerFile, ledgerFile>>
ledgerVars == <<inMemory, onDisk, orders, held, bought, counted, known, flips, ends>>

NoEntry == -1
Purchases == 1 .. MaxBought
Number == Cardinality(UNION {bought[n] : n \in Names})

-----------------------------------------------------------------------------
(* A flip of the name is accepted, whatever is held of it. *)
AcceptFlip(n) ==
    /\ flips < MaxFlips
    /\ flips' = flips + 1
    /\ tracker' = [tracker EXCEPT ![n] = 0]
    /\ orders' = orders \cup {n}
    /\ known' = known \ {n}
    /\ UNCHANGED <<byName, byUuid, onDisk, held, bought, counted, ends>>

FlipMissed(n) ==
    /\ n \in orders
    /\ orders' = orders \ {n}
    /\ UNCHANGED <<inMemory, onDisk, held, bought, counted, known, flips, ends>>

-----------------------------------------------------------------------------
EnterByUuid(n, id) ==                   \* mutant: a tracked purchase has one key
    /\ byName' = IF tracker[n] = NoEntry THEN [byName EXCEPT ![n] = id] ELSE byName
    /\ byUuid' = IF tracker[n] # NoEntry THEN byUuid \cup {id} ELSE byUuid

(* The auction's uuid is that of the tracked flip. *)
EnterPurchase(n, id) ==
    /\ byUuid' = IF tracker[n] # NoEntry THEN byUuid \cup {id} ELSE byUuid
    /\ byName' = [byName EXCEPT ![n] = id]

(* An item is bought, as the flip asked or by hand. *)
ItemPurchased(n) ==
    LET id == Number + 1
    IN  /\ id <= MaxBought
        /\ tracker' = IF tracker[n] = NoEntry THEN tracker ELSE [tracker EXCEPT ![n] = id]
        /\ EnterPurchase(n, id)
        /\ orders' = orders \ {n}
        /\ held' = [held EXCEPT ![n] = @ \cup {id}]
        /\ bought' = [bought EXCEPT ![n] = @ \cup {id}]
        /\ known' = IF held[n] = {} THEN known \cup {n} ELSE known \ {n}
        /\ UNCHANGED <<onDisk, counted, flips, ends>>

-----------------------------------------------------------------------------
KeepName(n, ids) ==                     \* mutant: the tracker's sale leaves the name
    IF ids = {} THEN byName' = byName ELSE byName' = [byName EXCEPT ![n] = 0]

DropName(n, ids) == byName' = [byName EXCEPT ![n] = 0]

(* The uuid of the listing is no key of the ledger, so the name's entry is *)
(* taken, with its own uuid's if it is the one the profit comes from.      *)
Resolved(n) == tracker[n] > 0 \/ (tracker[n] = NoEntry /\ byName[n] # 0)
FromLedger(n) == IF tracker[n] = NoEntry THEN {byName[n]} \ {0} ELSE {}

Sold(n, id) ==
    /\ tracker' = [tracker EXCEPT ![n] = NoEntry]
    /\ byUuid' = byUuid \ FromLedger(n)
    /\ DropName(n, FromLedger(n))
    /\ counted' = [counted EXCEPT ![n] = IF Resolved(n) THEN @ + 1 ELSE @]
    /\ held' = [held EXCEPT ![n] = @ \ {id}]
    /\ known' = known \ {n}
    /\ UNCHANGED <<onDisk, orders, bought, flips, ends>>

(* What is sold was bought with the program, or is another of the name. *)
ItemSold(n) == \E id \in held[n] \cup {0} : Sold(n, id)

-----------------------------------------------------------------------------
Saved(f) == [n \in Names |-> IF f[n] = 0 THEN NoEntry ELSE f[n]]

SaveFlipTracker ==
    /\ trackerFile' = Saved(tracker)
    /\ UNCHANGED <<inMemory, ledgerFile, orders, held, bought, counted, known, flips,
                   ends>>

WriteLedger ==
    /\ ledgerFile' = <<byName, byUuid>>
    /\ UNCHANGED <<inMemory, trackerFile, orders, held, bought, counted, known, flips,
                   ends>>

(* A rest break saves the tracker first; the ledger's writer is idle then. *)
BreakOfBot ==
    /\ ends < MaxEnds
    /\ ends' = ends + 1
    /\ trackerFile' = Saved(tracker) /\ tracker' = trackerFile'
    /\ ledgerFile' = <<byName, byUuid>>
    /\ orders' = {}
    /\ UNCHANGED <<byName, byUuid, held, bought, counted, known, flips>>

(* What a sale must still find is what one of the files holds, by any key. *)
OnFile(n) == \/ trackerFile[n] \in held[n]
             \/ /\ trackerFile[n] = NoEntry
                /\ ({ledgerFile[1][n]} \cup ledgerFile[2]) \cap held[n] # {}

CrashOfBot ==
    /\ ends < MaxEnds
    /\ ends' = ends + 1
    /\ tracker' = trackerFile
    /\ byName' = ledgerFile[1] /\ byUuid' = ledgerFile[2]
    /\ orders' = {}
    /\ known' = {n \in known : OnFile(n)}
    /\ UNCHANGED <<onDisk, held, bought, counted, flips>>

-----------------------------------------------------------------------------
LedgerInit ==
    /\ tracker = [n \in Names |-> NoEntry] /\ trackerFile = tracker
    /\ byName = [n \in Names |-> 0] /\ byUuid = {} /\ ledgerFile = <<byName, byUuid>>
    /\ orders = {} /\ held = [n \in Names |-> {}]
    /\ bought = held /\ counted = [n \in Names |-> 0]
    /\ known = {} /\ flips = 0 /\ ends = 0

LedgerNext ==
    \/ SaveFlipTracker \/ WriteLedger \/ BreakOfBot \/ CrashOfBot
    \/ \E n \in Names : \/ AcceptFlip(n) \/ FlipMissed(n)
                        \/ ItemPurchased(n) \/ ItemSold(n)

LedgerSpec == LedgerInit /\ [][LedgerNext]_ledgerVars

-----------------------------------------------------------------------------
LedgerTypeOK ==
    /\ tracker \in [Names -> {NoEntry, 0} \cup Purchases]
    /\ trackerFile \in [Names -> {NoEntry} \cup Purchases]
    /\ byName \in [Names -> 0 .. MaxBought] /\ byUuid \subseteq Purchases
    /\ orders \subseteq Names /\ known \subseteq Names
    /\ \A n \in Names : held[n] \subseteq Purchases /\ bought[n] \subseteq Purchases

(* No purchase is counted by two sales: what a crash brings back from the  *)
(* files may be counted once more (main.rs:3356-3367).                     *)
CountedOnce == \A n \in Names : counted[n] <= Cardinality(bought[n]) + ends

(* An item that is held, the only one of its name and with no flip of the  *)
(* name since, will be sold with its profit, after a restart as well       *)
(* (main.rs:766-771, 906-912).                                             *)
HeldIsResolved == \A n \in known : Resolved(n)

=============================================================================
