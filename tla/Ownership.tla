----------------------------- MODULE Ownership ------------------------------
(***************************************************************************)
(* Which of the auctions in a house that a co-op shares are this account's *)
(* own (auction_ownership.rs), while only_claim_own_auctions is on.        *)
(*                                                                         *)
(* A listing is recorded when its chat line arrives, and the records are   *)
(* written to a file that all accounts of this installation share; what an *)
(* API says of the account is fetched again and again.  A sweep of the     *)
(* house claims what either of the two knows; a sale that was told in chat *)
(* is claimed by the link of its line.                                     *)
(*                                                                         *)
(* The game and the APIs are external.  The names an auction goes by in    *)
(* the window, in a record and at the API are taken to match.              *)
(***************************************************************************)
EXTENDS Integers, Sequences, SequencesExt, FiniteSets

CONSTANTS
    Accounts,      \* the ones this installation plays in turn
    Mate,          \* another member of the co-op
    Wares, Bids,   \* what is listed, and for how much
    MaxListings,   \* MAX_LISTINGS, 2000 in the code
    Pages,         \* how many auctions Coflnet's pages hold, 30 in the code
    MaxAuctions, MaxEnds, MaxWeeks   \* bounds of the model

ASSUME OwnershipAssumption ==
    /\ Mate \notin Accounts
    /\ {MaxListings, Pages, MaxAuctions, MaxEnds, MaxWeeks} \subseteq Nat

VARIABLES
    coop,        \* game: all auctions of the co-op, in order
    account,     \* ingame_name
    lines,       \* chat lines on their way
    listings,    \* OWN_LISTINGS
    saving,      \* own_auctions.json is truncated, and not yet written
    saved,       \* own_auctions.json
    remote,      \* REMOTE_AUCTIONS
    fetched,     \* REMOTE_FETCHED
    links,       \* claim_sold_uuid_queue
    ends, weeks  \* ends of the process, weeks that passed

recordVars == <<listings, saving, saved>>
remoteVars == <<remote, fetched>>
coopVars   == <<coop, account, lines, recordVars, remoteVars, links, ends, weeks>>

Cut == <<[torn |-> TRUE]>>
Name(a) == [ware |-> a.ware, bid |-> a.bid]
By(seller) == {n \in DOMAIN coop : coop[n].seller = seller}
IsSold(n) == n \in DOMAIN coop /\ coop[n].at = "sold"

-----------------------------------------------------------------------------
(* The game.  The co-op is told of every sale.                             *)

PutsUp(seller) ==
    /\ Len(coop) < MaxAuctions
    /\ \E w \in Wares, b \in Bids :
          /\ coop' = Append(coop, [seller |-> seller, ware |-> w, bid |-> b, at |-> "active"])
          /\ lines' = IF seller = account
                      THEN Append(lines, [is |-> "started", about |-> Len(coop) + 1])
                      ELSE lines
    /\ UNCHANGED <<account, recordVars, remoteVars, links, ends, weeks>>

Sells(n) ==
    /\ coop[n].at = "active"
    /\ coop' = [coop EXCEPT ![n].at = "sold"]
    /\ lines' = Append(lines, [is |-> "sold", about |-> n])
    /\ UNCHANGED <<account, recordVars, remoteVars, links, ends, weeks>>

(* LISTING_TTL_SECS since the last listing was recorded. *)
WeekPasses ==
    /\ weeks < MaxWeeks /\ weeks' = weeks + 1
    /\ ~ saving /\ saved # Cut
    /\ listings' = [k \in DOMAIN listings |-> [listings[k] EXCEPT !.old = TRUE]]
    /\ saved' = [k \in DOMAIN saved |-> [saved[k] EXCEPT !.old = TRUE]]
    /\ UNCHANGED <<coop, account, lines, saving, remoteVars, links, ends>>

-----------------------------------------------------------------------------
(* The records *)

Prune(s) ==
    LET young == SelectSeq(s, LAMBDA l : ~ l.old)
        drop  == Len(young) - MaxListings
    IN  IF drop > 0 THEN SubSeq(young, drop + 1, Len(young)) ELSE young

Entry(name) == [ware |-> name.ware, bid |-> name.bid, old |-> FALSE]

(* The entry of an identical listing gets a new time, and keeps its place. *)
Noted(name) ==
    Prune(IF \E k \in DOMAIN listings : Name(listings[k]) = name
          THEN [k \in DOMAIN listings |->
                   IF Name(listings[k]) = name THEN Entry(name) ELSE listings[k]]
          ELSE Append(listings, Entry(name)))

Line(is) == ~ saving /\ lines # <<>> /\ Head(lines).is = is /\ lines' = Tail(lines)

(* event_handler writes the file itself, and takes no line meanwhile. *)
NoteOwnListing ==
    /\ Line("started")
    /\ listings' = Noted(Name(coop[Head(lines).about]))
    /\ saving' = TRUE /\ saved' = Cut
    /\ UNCHANGED <<coop, account, remoteVars, links, ends, weeks>>

SaveOwnListings ==
    /\ saving /\ saving' = FALSE /\ saved' = listings
    /\ UNCHANGED <<coop, account, lines, listings, remoteVars, links, ends, weeks>>

(* The process ends, at any moment, and goes on with any account: a file   *)
(* that does not parse is taken for none.                                  *)
LoadOwnListings ==
    /\ ends < MaxEnds /\ ends' = ends + 1
    /\ listings' = IF saved = Cut THEN <<>> ELSE Prune(saved)
    /\ saving' = FALSE /\ UNCHANGED saved
    /\ account' \in Accounts
    /\ lines' = <<>> /\ links' = <<>> /\ remote' = {} /\ fetched' = FALSE
    /\ UNCHANGED <<coop, weeks>>

-----------------------------------------------------------------------------
(* What the APIs know of the account.  Hypixel, asked with a key, names    *)
(* all that is in the house; Coflnet the last few, those that are gone     *)
(* among them, and an empty answer of its is no answer.                    *)

RefreshOnce ==                    \* mutant: one answer is enough
    /\ ~ fetched /\ fetched' = TRUE
    /\ remote' = {Name(coop[n]) : n \in {k \in By(account) : coop[k].at # "gone"}}
    /\ UNCHANGED <<coop, account, lines, recordVars, links, ends, weeks>>

FromHypixel == {n \in By(account) : coop[n].at # "gone"}
FromCofl    == {n \in By(account) : Cardinality({k \in By(account) : k > n}) < Pages}

RefreshRemote ==
    /\ \/ remote' = {Name(coop[n]) : n \in FromHypixel}
       \/ FromCofl # {} /\ remote' = {Name(coop[n]) : n \in FromCofl}
    /\ fetched' = TRUE
    /\ UNCHANGED <<coop, account, lines, recordVars, links, ends, weeks>>

-----------------------------------------------------------------------------
(* Claiming *)

Unread == -1         \* the lore shows no price

Knows(known, w, shown) ==
    \E e \in known : e.ware = w /\ (shown # Unread => e.bid = shown)

OwnershipOf(w, shown) ==
    IF Knows(ToSet(listings) \cup remote, w, shown) THEN "Ours"
    ELSE IF listings # <<>> \/ fetched THEN "Foreign"
    ELSE "Unknown"

IsCollected(n) == coop' = [coop EXCEPT ![n].at = "gone"]

(* The list of the house: a slot that cannot be attributed is left. *)
ClaimSlot(n) ==
    /\ IsSold(n)
    /\ \E shown \in {coop[n].bid, Unread} : OwnershipOf(coop[n].ware, shown) = "Ours"
    /\ IsCollected(n)
    /\ UNCHANGED <<account, lines, recordVars, remoteVars, links, ends, weeks>>

(* Whoever listed it. *)
OnSoldLine ==
    /\ Line("sold")
    /\ links' = Append(links, Head(lines).about)
    /\ UNCHANGED <<coop, account, recordVars, remoteVars, ends, weeks>>

ClaimByLink ==
    /\ links # <<>> /\ links' = Tail(links)
    /\ IF IsSold(Head(links)) THEN IsCollected(Head(links)) ELSE UNCHANGED coop
    /\ UNCHANGED <<account, lines, recordVars, remoteVars, ends, weeks>>

-----------------------------------------------------------------------------
OwnershipInit ==
    /\ coop = <<>> /\ account \in Accounts /\ lines = <<>>
    /\ listings = <<>> /\ saving = FALSE /\ saved = <<>>
    /\ remote = {} /\ fetched = FALSE /\ links = <<>> /\ ends = 0 /\ weeks = 0

Chat  == NoteOwnListing \/ SaveOwnListings \/ OnSoldLine
Sweep == \E n \in DOMAIN coop : ClaimSlot(n)

OwnershipNext ==
    \/ \E seller \in {account, Mate} : PutsUp(seller)
    \/ \E n \in DOMAIN coop : Sells(n)
    \/ WeekPasses \/ LoadOwnListings \/ RefreshRemote
    \/ Chat \/ Sweep \/ ClaimByLink

(* The house is swept from time to time, and what is asked every three     *)
(* minutes is answered now and then.                                       *)
OwnershipFairness ==
    /\ \A n \in 1 .. MaxAuctions : WF_coopVars(n \in DOMAIN coop /\ ClaimSlot(n))
    /\ WF_coopVars(RefreshRemote)

OwnershipSpec == OwnershipInit /\ [][OwnershipNext]_coopVars /\ OwnershipFairness
-----------------------------------------------------------------------------
OwnershipTypeOK ==
    /\ account \in Accounts /\ {saving, fetched} \subseteq BOOLEAN
    /\ saving => saved = Cut
    /\ Len(coop) <= MaxAuctions

(* What this account sold, it claims, though its record was torn, pruned   *)
(* or dropped, or its line was missed: the records and the APIs make up    *)
(* for each other (auction_ownership.rs:11-21).                            *)
OwnIsClaimed ==
    \A n \in 1 .. MaxAuctions : []<> ~ (IsSold(n) /\ coop[n].seller = account)

(* "Only claim auctions this account listed itself" (config/types.rs:249). *)
ClaimsOnlyOwn ==
    [][\A n \in DOMAIN coop : coop'[n] # coop[n] /\ coop'[n].at = "gone"
                                 => coop[n].seller = account]_coopVars
=============================================================================
