---------------------------- MODULE MCCoflEvents -----------------------------
(***************************************************************************)
(* Small instances of CoflEvents.                                          *)
(***************************************************************************)
EXTENDS CoflEvents

Msg(is, abouts) == {[is |-> is, about |-> a] : a \in abouts}

EveryKind ==
    Msg("bazaarFlip", {"buy", "sell"}) \cup Msg("finderFlip", Uuids)
    \cup Msg("ChatMessage", {"hello", "premium", "sell", "bzHeader", "bzLine"})
    \cup Msg("connect", Hosts \ {FirstHost})
    \cup {[is |-> k, about |-> ""] : k \in {"cancelOrder", "createAuction",
            "countdown", "collectAuctions", "listInstructions"}}
    \cup Msg("LicenseList", {"nobody", "mine"})
    \cup Msg("request", {"chat", "tradeResponse", "swapProfile", "trade", "getInventory"})

Often == {m \in EveryKind : m.is \in {"connect", "countdown"}}
NotOften == EveryKind \ Often
KindsOf == [s \in CoflSockets |-> IF s = Primary THEN EveryKind
                                  ELSE Msg("countdown", {""})]

=============================================================================
