----------------------------- MODULE MCDispatcher -----------------------------
(* A JSON text and another one, and a timeout on each side of the longest  *)
(* delay setTimeout can count.                                             *)
EXTENDS Dispatcher, TLC

MCTexts == {"json", "plain"}

MCParsedAs == "json" :> "object"

MCTimeouts == {2, 4}

===============================================================================
