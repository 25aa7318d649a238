--------------------------- MODULE MCGatewayRest ---------------------------
(* Three requests in two groups: the order queries and the candles. *)
EXTENDS GatewayRest, TLC

Text(size) == [type |-> "string", size |-> size, blank |-> size = 0, good |-> TRUE,
               text |-> "text", date |-> 0]
Ids(size) == [type |-> "array", size |-> size, blank |-> size = 0, good |-> TRUE,
              hasBlank |-> FALSE, repeats |-> FALSE, text |-> "ids", date |-> 0]
At(t) == [Text(1) EXCEPT !.date = t]
Whole(n) == [type |-> "integer", number |-> n, good |-> TRUE, size |-> 0,
             text |-> "whole", date |-> 0]
Said(s) == [Text(1) EXCEPT !.text = s]

Optional(type, sizes) == [type |-> type, required |-> FALSE, sizes |-> sizes,
                          unique |-> TRUE, range |-> 1..2]
Needed(type, sizes) == [Optional(type, sizes) EXCEPT !.required = TRUE]

(* rest.list-orders-by-ids *)
OrdersByIds ==
    [group |-> "default", category |-> "exchange", safety |-> "read",
     specs |-> [uuids |-> Optional("array", 0..1), identifiers |-> Optional("array", 0..1)],
     anyOf |-> {{"uuids"}, {"identifiers"}}, exclusive |-> {{"uuids", "identifiers"}},
     forbidden |-> {}, ranges |-> {}]
(* rest.list-closed-orders *)
ClosedOrders ==
    [group |-> "default", category |-> "exchange", safety |-> "read",
     specs |-> [start_time |-> Optional("string", 0..2), end_time |-> Optional("string", 0..2)],
     anyOf |-> {}, exclusive |-> {},
     forbidden |-> {}, ranges |-> {[start |-> "start_time", end |-> "end_time", max |-> 2]}]
(* rest.order-test, and the order it stands for, which is blocked *)
OrderTest ==
    [group |-> "default", category |-> "exchange", safety |-> "test",
     specs |-> [time_in_force |-> Optional("string", 0..2), smp_type |-> Optional("string", 0..2)],
     anyOf |-> {}, exclusive |-> {},
     forbidden |-> {[when |-> [time_in_force |-> "post_only"], forbid |-> {"smp_type"}]},
     ranges |-> {}]
Order == [OrderTest EXCEPT !.safety = "blocked"]
(* rest.candles *)
CandlesEndpoint ==
    [group |-> "candle", category |-> "quotation", safety |-> "read",
     specs |-> [market |-> Needed("string", 1..2), count |-> Optional("integer", {})],
     anyOf |-> {}, exclusive |-> {}, forbidden |-> {}, ranges |-> {}]

Asks(endpoint, values) ==
    [token |-> "operator", known |-> TRUE, endpoint |-> endpoint, values |-> values]

Orders == Asks(OrdersByIds, [uuids |-> Ids(1), identifiers |-> Ids(0)])
CandlesOf(n) == Asks(CandlesEndpoint, [market |-> Text(1), count |-> Whole(n)])
NoMarket == Asks(CandlesEndpoint, [count |-> Whole(1)])

(* The first call tries every rule of the contract, the other two compete  *)
(* with it for the groups.                                                 *)
MCRequests ==
    [c \in 1..3 |->
        CASE c = 1 ->
            {Asks(OrdersByIds, [uuids |-> Ids(0), identifiers |-> Ids(1)]),
             Asks(OrdersByIds, [uuids |-> Ids(0)])}
            \union {Asks(ClosedOrders, [start_time |-> At(a), end_time |-> At(4)])
                       : a \in {1, 3, 5}}
            \union {Asks(OrderTest, [time_in_force |-> Said(s), smp_type |-> Said("reduce")])
                       : s \in {"post_only", "ioc"}}
            \union {Asks(Order, [time_in_force |-> Said("ioc")])}
            \union {Asks(OrdersByIds, [uuids |-> Ids(1), identifiers |-> Ids(1)])}
            \union {CandlesOf(2), CandlesOf(3), NoMarket}
            \union {[Orders EXCEPT !.token = "none"], [Orders EXCEPT !.known = FALSE]}
          [] c = 2 -> {Orders}
          [] c = 3 -> {Orders, CandlesOf(2)}]

Calm == [group |-> "default", sec |-> 3]
Spent(g) == [group |-> g, sec |-> 0]
Lasts(n) == [kind |-> "duration", value |-> n]
Until(t) == [kind |-> "deadline", value |-> t]

Reply(status, json, remaining, header, body) ==
    [status |-> status, json |-> json, remaining |-> remaining, header |-> header,
     body |-> body]

NothingLeft == Reply(200, TRUE, Spent("default"), {}, {})
TooMany(json) == Reply(429, json, Calm, {}, {})
ShortBan == Reply(418, TRUE, Calm, {Lasts(1)}, {})
LongBan(json) == Reply(418, json, Spent("candle"), {Until(3)}, {Lasts(1), Lasts(5)})
BareBan == Reply(418, TRUE, Calm, {Until(1)}, {})

MCAnswers ==
    [c \in 1..3 |->
        CASE c = 1 -> {Reply(200, FALSE, Spent("other"), {}, {}), TooMany(TRUE), TooMany(FALSE),
                       LongBan(TRUE), LongBan(FALSE), BareBan}
          [] c = 2 -> {NothingLeft, ShortBan}
          [] c = 3 -> {TooMany(TRUE)}]

MCGroups == {"default", "candle"}
MCLimit == [default |-> 2, candle |-> 1]
MCWindow == [default |-> 2, candle |-> 3]
=============================================================================
