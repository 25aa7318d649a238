------------------------ MODULE MCBacktestSubmission ------------------------
(* Small instances: every graph over three nodes; publications and         *)
(* submissions that meet; every short tape of candles.                     *)
EXTENDS BacktestSubmission

-----------------------------------------------------------------------------
(* Graphs *)
Port(name) == [name |-> name, dataType |-> "series", timeframe |-> "1m"]
Plain == [policy |-> "fail", look |-> 0, future |-> 0, offset |-> 0, window |-> 2,
          warmup |-> 2, threshold |-> "number"]
Node(id) == [id |-> id, type |-> "indicator.sma", config |-> Plain,
             inputs |-> <<Port("in")>>, outputs |-> <<Port("out")>>]
Edge(a, b) == [from |-> a, fromPort |-> "out", to |-> b, toPort |-> "in"]
Ids == {"a", "b", "c"}
OutputOf(id) == <<[node |-> id, port |-> "out"]>>
Graph(pairs) ==
    [nodes |-> <<Node("a"), Node("b"), Node("c")>>,
     edges |-> FoldSet(LAMBDA p, es : Append(es, Edge(p[1], p[2])), <<>>, pairs),
     outputs |-> OutputOf("c")]

Chain == Graph({<<"a", "b">>, <<"b", "c">>})
(* The same graph, written in another order. *)
ChainAgain == [Chain EXCEPT !.nodes = Reverse(@), !.edges = Reverse(@)]
Fork == Graph({<<"a", "b">>, <<"a", "c">>})

With(config) == [Chain EXCEPT !.nodes[1].config = config]
(* One graph for every rule that is not about cycles. *)
Broken ==
    {[Chain EXCEPT !.outputs = <<>>], [Chain EXCEPT !.outputs = OutputOf("d")],
     [Chain EXCEPT !.edges[1].fromPort = "no"], [Chain EXCEPT !.edges[1].to = "d"],
     [Chain EXCEPT !.nodes[1].outputs[1].dataType = "signal"],
     [Chain EXCEPT !.nodes[1].outputs[1].timeframe = "5m"],
     [With([Plain EXCEPT !.policy = "none"]) EXCEPT !.nodes[1].type = "dataset.candles"],
     [With([Plain EXCEPT !.threshold = "text"]) EXCEPT !.nodes[1].type = "condition.greater_than"],
     [Chain EXCEPT !.nodes = Append(@, [Node("a") EXCEPT !.outputs = <<>>])]}
    \union {With([Plain EXCEPT ![f] = v]) : f \in {"look", "future"}, v \in {0, 1}}
    \union {With([Plain EXCEPT !.offset = v]) : v \in {-1, 0, 1}}
    \union {With([Plain EXCEPT !.window = w, !.warmup = u]) : w, u \in {-1, 0, 1, 3, 4}}

Graphs == {Graph(e) : e \in SUBSET (Ids \X Ids)} \union Broken

-----------------------------------------------------------------------------
(* Requests *)
Create(key, body) == [op |-> "create", key |-> key, body |-> body, what |-> "strategy"]
Publish(key, s, g) == [op |-> "publish", key |-> key, body |-> "b", strategy |-> s, graph |-> g]
List(s) == [op |-> "list", strategy |-> s]
What(seed, cash) == [version |-> 1, dataset |-> "d1", seed |-> seed, cash |-> cash]
RunOf(key, what) == [op |-> "run", key |-> key, body |-> "b", what |-> what]
Runs == [op |-> "runs"]
Trades(id) == [op |-> "trades", run |-> id]
Persist(key, what) == [op |-> "persist", key |-> key, body |-> "b", what |-> what]

Strategy(id) ==
    [table |-> "strategies", id |-> id, key |-> <<"s1", "s2">>[id], hash |-> "s"]
Version == [table |-> "versions", id |-> 1, key |-> "v", hash |-> "v", strategy |-> 1,
            version |-> 1, graph |-> Chain, graphHash |-> GraphHash(Chain)]

(* Candles and signals *)
CandleAt(i, known, quality) ==
    [known |-> known, priority |-> 20, seq |-> i, close |-> 2 * i - 1, volume |-> i,
     quality |-> quality, decimal |-> TRUE]
Flat == <<CandleAt(1, 1, "available")>>
Qualities == {"available", "missing"}
Tapes ==
    {<<CandleAt(1, k[1], q[1]), CandleAt(2, k[2], q[2]), CandleAt(3, k[3], q[3])>>
        : k \in [1..3 -> 1..3], q \in [1..3 -> Qualities]}
    \union {<<CandleAt(3, 1, "available"), CandleAt(1, k, "available"), CandleAt(2, 1, "available")>>
               : k \in 1..3}
    \union {<<[CandleAt(1, 1, "missing") EXCEPT !.decimal = FALSE]>>}
SignalAt(known, side) == [occurred |-> 0, known |-> known, side |-> side, quantity |-> 2]
SignalLists ==
    {<<SignalAt(k[1], s[1]), SignalAt(k[2], s[2])>>
        : k \in [1..2 -> 0..2], s \in [1..2 -> {"buy", "sell"}]}
    \union {<<[SignalAt(1, "buy") EXCEPT !.occurred = 2]>>}

(* Fills against two candles, fills against one, a signal that looks ahead, none. *)
Stored == {<<SignalAt(0, "buy"), SignalAt(1, "sell")>>, <<SignalAt(0, "buy"), SignalAt(0, "buy")>>,
           <<[SignalAt(1, "buy") EXCEPT !.occurred = 2]>>, <<>>}

Setting(a, b, c, ss, vs, candles, sigs, n) ==
    [todo |-> <<a, b, c>>, strategies |-> ss, versions |-> vs, tape |-> candles,
     signals |-> sigs, extras |-> n]

MCSettings ==
    (* one publication of any graph *)
    {Setting(<<Publish("k1", 1, g)>>, <<>>, <<>>, {Strategy(1)}, {}, <<>>, <<>>, 0)
        : g \in Graphs}
    (* publications that meet: one strategy, and two whose ids interleave *)
    \union {Setting(<<Create("k0", "b"), Publish("k1", 1, Chain), Publish("k3", 1, Chain)>>,
                    <<Create("k0", x), Publish("k1", 1, ChainAgain), Publish("k2", 1, Fork)>>,
                    <<List(1)>>, {}, {}, <<>>, <<>>, 1)
               : x \in {"b", "b2"}}
    \union {Setting(<<Publish("k1", 1, Chain), Publish("k2", 1, Fork)>>,
                    <<Publish("k3", s, Graph({})), Publish(k, 2, Chain)>>,
                    <<List(1)>>, {Strategy(1), Strategy(2)}, {}, <<>>, <<>>, 1)
               : s \in {1, 2}, k \in {"k1", "k4"}}
    (* submissions that meet: under one key or two, of one input or two *)
    \union {Setting(<<RunOf("r1", What(1, 1)), RunOf("r3", What(3, 1))>>,
                    <<RunOf(k, What(seed, cash))>>, <<Runs>>,
                    {Strategy(1)}, {Version}, Flat, <<>>, 1)
               : k \in {"r1", "r2"}, seed, cash \in {1, 2}}
    (* one run, replayed *)
    \union {Setting(<<RunOf("r1", What(1, 1))>>, <<>>, <<>>, {Strategy(1)}, {Version},
                    candles, sigs, 0) : candles \in Tapes, sigs \in SignalLists}
    (* results stored while runs are submitted, and the trades of a run *)
    \union {Setting(<<RunOf("r1", What(1, 1)), Persist("p1", What(2, 1))>>,
                    <<Persist(k, What(seed, 1))>>, <<Trades(i)>>,
                    {Strategy(1)}, {Version},
                    <<CandleAt(1, 1, "available"), CandleAt(2, 2, "available")>>, sigs, 1)
               : k \in {"p1", "r1", "p2"}, seed \in {1, 2}, i \in {1, 2}, sigs \in Stored}
=============================================================================
