---------------------------- MODULE MCRealtime ----------------------------
(* Instance of the realtime stream and the microstructure queue: the       *)
(* stream alone, with two sessions or with two data types; and one session *)
(* with two workers and a fault, with two trades of one minute, and with   *)
(* two facts about the minute.                                             *)
EXTENDS MicrostructureQueue

CONSTANTS v1, v2

Setting(tick, times, sess, fs, workers, extra, faulty) ==
    [tick |-> tick, tape |-> times, sessions |-> sess, facts |-> fs, workers |-> workers,
     extras |-> extra, faulty |-> faulty, types |-> {"trade_event"}]

Revision == <<0, "revision">>
NoTrade == <<0, "no_trade">>
MCBounds ==
    {Setting(3, <<1, 2>>, 2, <<>>, {}, 2, {"stream", "desires"}),
     [Setting(3, <<>>, 1, <<>>, {}, 3, {"stream"}) EXCEPT !.types = Types],
     Setting(2, <<1>>, 1, <<Revision>>, {v1, v2}, 1, {"queue"}),
     Setting(2, <<1, 1>>, 1, <<Revision>>, {v1}, 0, {}),
     Setting(2, <<1>>, 1, <<Revision, NoTrade>>, {v1}, 0, {})}

\* A failed session, two clean ones after it, and time for whole minutes
GapBounds == {Setting(5, <<1, 4>>, 3, <<>>, {}, 1, {"stream"})}
=============================================================================
