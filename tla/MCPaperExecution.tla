-------------------------- MODULE MCPaperExecution --------------------------
(* Instance of PaperExecution for TLC: the buys of two paper bots on one   *)
(* position.  The first is in the scope of a kill switch, the second in no *)
(* scope an operator touches.                                              *)
EXTENDS PaperExecution

MCBotOf == [i \in Intents |-> IF i = 1 THEN "b1" ELSE "b2"]
MCScopesOf == [i \in Intents |-> IF i = 1 THEN Scopes ELSE {}]
MCModeOf == [b \in Bots |-> "paper"]

\* A notional of 2, computed or given and equal to quantity * price.
MCOrderOf ==
    [i \in Intents |->
        [position |-> "p", side |-> "buy", quantity |-> 1, price |-> 2,
         notional |-> IF i = 1 THEN 0 ELSE 2]]

\* An old version of the limit that every intent exceeds, and the version in
\* force, which a notional of 2 just meets.
MCLimits ==
    {[intents |-> Intents, key |-> "global/max_order_notional",
      type |-> "max_order_notional", version |-> v, value |-> v, active |-> TRUE] : v \in 1..2}
=============================================================================
