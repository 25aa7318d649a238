------------------------- MODULE MCIndicatorQueue -------------------------
(* Instance of IndicatorQueue: a recomputation whose earlier rollup comes  *)
(* last; two source candles, the older of which is written last, and what  *)
(* is found out about one of them; rollups whose frontiers do not hold     *)
(* each other, as one names a later event and the other more revisions;    *)
(* and a frontier that names no event after one that does.                 *)
EXTENDS IndicatorQueue

Row(tx, what, slot, known, source, quality) ==
    [tx |-> tx, what |-> what, slot |-> slot, to |-> slot, known |-> known,
     source |-> source, quality |-> quality, rank |-> 0]
Recomputation ==
    <<Row(1, "rollup", 2, 1, 1, 1), Row(1, "rollup", 1, 1, 1, 1), Row(1, "completion", 1, 1, 1, 1)>>
Collection ==
    <<Row(1, "source", 2, 1, 0, 0), Row(2, "event", 2, 2, 0, 0), Row(3, "source", 1, 3, 0, 0)>>
Crossing ==
    <<Row(1, "rollup", 1, 1, 1, 2), Row(2, "rollup", 2, 2, 2, 1), Row(2, "rollup", 3, 2, 2, 1)>>
Unnamed == <<Row(1, "rollup", 2, 1, 1, 2), Row(2, "rollup", 1, 2, 2, 0)>>
MCPlans == {Recomputation, Collection, Crossing, Unnamed}
=============================================================================
