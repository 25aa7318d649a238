-------------------------- MODULE MCDatasetBuilds --------------------------
(* Two clients that share a key, with a twin of the request under another  *)
(* key and a request that fails on missing data.  The rows of one bucket:  *)
(* two rollups that say the same and a later one that found it missing,    *)
(* which is counted as observed and not usable; two verdicts about the     *)
(* bucket.  Rows may be committed in any order.                            *)
EXTENDS DatasetBuilds, TLC

MCStepOf(unit) == IF unit = "15m" THEN 2 ELSE 1
MCRequests ==
    {[key |-> 1, unit |-> "15m", policy |-> "null", asOf |-> 1],
     [key |-> 2, unit |-> "15m", policy |-> "null", asOf |-> 1],
     [key |-> 1, unit |-> "15m", policy |-> "fail", asOf |-> 1]}
Rollup(unit, rank, value, quality) ==
    [slot |-> 0, table |-> "rollup", unit |-> unit, rank |-> rank, value |-> value,
     quality |-> quality, known |-> 1]
MCWrites ==
    {Rollup("15m", <<1, 0>>, "a", "available"),
     Rollup("15m", <<2, 0>>, "a", "available"),
     Rollup("15m", <<3, 0>>, "b", "missing")}
MCVerdicts ==
    {[by |-> "source", from |-> 0, to |-> 2, status |-> s, at |-> 0] :
        s \in {"available", "no_trade"}}
Alike == Permutations(Clients) \cup Permutations(Workers)
=============================================================================
