---------------------------- MODULE MCBazaarOrders ---------------------------
(***************************************************************************)
(* Small instances of BazaarOrders.                                        *)
(***************************************************************************)
EXTENDS BazaarOrders

IronOpen   == {[id |-> 1, key |-> "iron", fill |-> "open"]}
CoalOpen   == {[id |-> 1, key |-> "coal", fill |-> "open"]}
IronAndGold == {[id |-> 1, key |-> "iron", fill |-> "open"],
                [id |-> 2, key |-> "gold", fill |-> "open"]}
=============================================================================
