--------------------------- MODULE MCAuctionHouse ---------------------------
(***************************************************************************)
(* Small instances of AuctionHouse.  A behaviour is about one thing, and   *)
(* is short of what it is not about: two listings after one another, of    *)
(* which the first may leave something behind; a listing whose item moves  *)
(* or that finds the house full; a listing that is sold and claimed, or    *)
(* cancelled; two claims of the auction of a co-op member.  Or it is about *)
(* whose auctions there are (Ownership), about the configuration of the    *)
(* bot (Settings) or about the instances of a host (Hosting), and lists    *)
(* nothing.  During the second of two listings the inventory is rearranged *)
(* only while nothing that was found in it is to be clicked (Settled).     *)
(***************************************************************************)
EXTENDS AuctionHouse, Ownership, Settings, Hosting

VARIABLE part

Commands(s, cl, ca, m, r) ==
    [sells |-> s, claims |-> cl, cancels |-> ca, moves |-> m, resets |-> r]

Bounds ==
    [listing  |-> Commands(MaxSells, 0, 0, MaxMoves, 0),
     moving   |-> Commands(1, 0, 0, MaxMoves, MaxResets),
     claiming |-> Commands(1, 1, 0, 0, 0),
     cancelling |-> Commands(1, 0, MaxCancels, 0, 0),
     sharing  |-> Commands(0, MaxClaims, 0, 0, 0)]

FirstAccount == CHOOSE a \in Accounts : TRUE

MCInit ==
    /\ Init /\ SettingsInit /\ HostInit /\ OwnershipInit
    /\ part \in DOMAIN Bounds \cup {"owners", "settings", "hosting"}
    /\ part # "owners" => account = FirstAccount

MCNext ==
    \/ /\ part \in DOMAIN Bounds
       /\ Next /\ \A k \in DOMAIN begun : begun'[k] <= Bounds[part][k]
       /\ part = "listing" => (Moves => Settled /\ begun.sells = MaxSells)
       /\ UNCHANGED <<settingsVars, hostVars, coopVars, part>>
    \/ /\ part = "owners" /\ OwnershipNext
       /\ UNCHANGED <<houseVars, settingsVars, hostVars, part>>
    \/ /\ part = "settings" /\ SettingsNext
       /\ UNCHANGED <<houseVars, hostVars, coopVars, part>>
    \/ /\ part = "hosting" /\ HostNext
       /\ UNCHANGED <<houseVars, settingsVars, coopVars, part>>

(* Fairness and OwnershipFairness and HostFairness, each for its part. *)
MCSpec ==
    /\ MCInit /\ [][MCNext]_<<houseVars, settingsVars, hostVars, coopVars, part>>
    /\ Fairness
    /\ \A n \in 1 .. MaxAuctions :
          WF_coopVars(part = "owners" /\ n \in DOMAIN coop /\ ClaimSlot(n))
    /\ WF_coopVars(part = "owners" /\ RefreshRemote)
    /\ WF_hostVars(part = "hosting" /\ (Connects \/ HandleInit \/ HandleConfigUpdate))

MCTypeOK == TypeOK /\ SettingsTypeOK /\ HostTypeOK /\ OwnershipTypeOK
=============================================================================
