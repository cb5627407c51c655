---------------------------- MODULE MCBazaarTrade ----------------------------
(***************************************************************************)
(* Small instances of the trades and of the books about them: orders and   *)
(* flips, or an order, a sale and a cookie (BazaarTrade), the tracker of   *)
(* the bazaar orders (BazaarBooks), the profit of purchases (FlipLedger).  *)
(* In the model they share no state, so a behaviour is one of them alone.  *)
(***************************************************************************)
EXTENDS BazaarTrade, BazaarBooks, FlipLedger

CONSTANT x

MCNames == {x}

VARIABLE part

Bounds == [orders |-> [orders |-> MaxTrades, sales |-> 0, cookies |-> 0, flips |-> MaxPreempts],
           others |-> [orders |-> 1, sales |-> MaxSales, cookies |-> MaxCookies, flips |-> 0]]

MCInit ==
    /\ TradeInit /\ BooksInit /\ LedgerInit
    /\ part \in DOMAIN Bounds \cup {"books", "ledger"}
    /\ part \in DOMAIN Bounds \/ taken = 0
    /\ part # "books" => book = <<>> /\ \A o \in game : o.key[2] = "buy"

MCNext ==
    /\ UNCHANGED part
    /\ IF part \in DOMAIN Bounds
          THEN TradeNext /\ \A k \in DOMAIN begun : begun'[k] <= Bounds[part][k]
          ELSE UNCHANGED tradeVars
    /\ IF part = "books" THEN BooksNext ELSE UNCHANGED booksVars
    /\ IF part = "ledger" THEN LedgerNext ELSE UNCHANGED ledgerVars

(* Without a command nothing of BazaarTrade can happen: fairness asks      *)
(* nothing of the books.                                                   *)
MCSpec == MCInit /\ [][MCNext]_<<tradeVars, booksVars, ledgerVars, part>> /\ TradeFairness

MCTypeOK == TradeTypeOK /\ BooksTypeOK /\ LedgerTypeOK
=============================================================================
