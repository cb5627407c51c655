------------------------------ MODULE MCRecords ------------------------------
(***************************************************************************)
(* For TLC, the purchase (Purchase), its way to a buyer (Stock), the       *)
(* sessions (Session), the writer of a file (JsonWriter), the seller on    *)
(* Discord (Seller).  In the model they share no state, so a behaviour is  *)
(* one of them alone, of those in Parts.                                   *)
(***************************************************************************)
EXTENDS JsonWriter, Session, Purchase, Stock, Seller

VARIABLE part

CONSTANT Parts

MCVars ==
    <<vars, sessionVars, purchaseVars, stockVars, sellerVars, part>>

MCInit ==
    /\ Init /\ SessionInit /\ PurchaseInit /\ StockInit /\ SellerInit
    /\ part \in Parts
    /\ IF part = "stock" THEN server # "none"
       ELSE server = "none" /\ at = [i \in Goods |-> "away"]

MCNext ==
    /\ UNCHANGED part
    /\ IF part = "writer" THEN Next ELSE UNCHANGED vars
    /\ IF part = "session" THEN SessionNext ELSE UNCHANGED sessionVars
    /\ IF part = "purchase" THEN PurchaseNext ELSE UNCHANGED purchaseVars
    /\ IF part = "stock" THEN StockNext ELSE UNCHANGED stockVars
    /\ IF part = "seller" THEN SellerNext ELSE UNCHANGED sellerVars

MCSafeSpec == MCInit /\ [][MCNext]_MCVars

(* SessionFairness, of the behaviours that are about sessions. *)
OfSession(A) == part = "session" /\ A

MCSessionFairness ==
    /\ WF_sessionVars(OfSession(Boot)) /\ WF_sessionVars(OfSession(Resume))
    /\ WF_sessionVars(OfSession(Tick)) /\ WF_sessionVars(OfSession(BreakTimeOver))
    /\ WF_sessionVars(OfSession(SwitchTimer))
    /\ WF_sessionVars(OfSession(\E s \in switches : FinishSwitch(s)))

(* Of the other parts fairness asks nothing while they do not run: nothing *)
(* is changed, nothing bought or started, the auction house is not used.   *)
MCSpec ==
    MCSafeSpec /\ Fairness /\ MCSessionFairness /\ PurchaseFairness /\ StockFairness
    /\ SellerFairness

MCTypeOK ==
    /\ TypeOK /\ SessionTypeOK /\ PurchaseTypeOK /\ StockTypeOK /\ SellerTypeOK

EveryAccountHasItsTurn == part = "session" => EveryAccountPlays
=============================================================================
