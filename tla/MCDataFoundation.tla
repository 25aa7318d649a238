-------------------------- MODULE MCDataFoundation --------------------------
(* Two markets, the first of which may also be halted; two policies; a     *)
(* plan of an operator that covers the first minute of both markets.       *)
EXTENDS DataFoundation, TLC

MCCatalogs ==
    {c \in [Markets -> {"tradable", "halted", "absent"}] :
        /\ \E m \in Markets : c[m] # "absent"
        /\ \A m \in Markets \ {1} : c[m] # "halted"}
MCPolicies ==
    {[start |-> 0, types |-> Types, cont |-> FALSE],
     [start |-> 0, types |-> {"trade_event"}, cont |-> TRUE]}
MCPlans == {[targets |-> Markets, lo |-> 0, hi |-> 1]}
MCReplies(range) == {{}, range}
Alike == Permutations(Workers)
=============================================================================
