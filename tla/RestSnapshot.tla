---------------------------- MODULE RestSnapshot ----------------------------
(***************************************************************************)
(* From an order as the exchange reports it to an observation of the       *)
(* reconciliation ledger: upbit_rest_reconciliation.py.                    *)
(*                                                                         *)
(* A payload keeps the fields the conversion depends on.  Amounts are      *)
(* naturals: fees in the last digit of a Decimal division, times and trade *)
(* identifiers as ranks.  Absent is a field the payload leaves out.        *)
(***************************************************************************)
EXTENDS Integers, FiniteSetsExt, SequencesExt

CONSTANT Absent

Endpoints == {"GET /v1/order", "GET /v1/orders/open", "GET /v1/orders/closed",
              "GET /v1/orders/uuids"}

TerminalStates == {"done", "cancel", "prevented", "rejected"}
States == {"wait", "watch", "trade"} \cup TerminalStates

Optional(S) == {Absent} \cup S

\* A trade and an order as the exchange reports them.
TradeReport ==
    [uuid : Optional(Nat), side : Optional({"bid", "ask"}), price : Nat, volume : Nat,
     funds : Optional(Nat), at : Optional(Nat)]

OrderReport ==
    [endpoint : Endpoints \cup {"unsupported"}, own : BOOLEAN,
     state : States \cup {"unsupported"}, side : {"bid", "ask"},
     trades : Seq(TradeReport), count : Optional(Nat), executed : Optional(Nat),
     remaining : Optional(Nat), paid : Optional(Nat), created : Optional(Nat)]

ASSUME AbsentIsNoNumber == Absent \notin Nat

\* A field, or what the code puts in its place.
Or(value, default) == IF value = Absent THEN default ELSE value

TradeTime(p, t) == Or(t.at, p.created)
TradeSide(p, t) == IF Or(t.side, p.side) = "bid" THEN "buy" ELSE "sell"

\* trades_count, when the payload has it, is the number of trades.
CountsTrades(p) == Or(p.count, Len(p.trades)) = Len(p.trades)

\* parse_upbit_rest_order_snapshot accepts the payload.
Parses(p) ==
    /\ p.endpoint \in Endpoints
    /\ p.state \in States
    /\ \A i \in DOMAIN p.trades :
         /\ TradeTime(p, p.trades[i]) # Absent
         /\ p.trades[i].price > 0 /\ p.trades[i].volume > 0
    /\ CountsTrades(p)
    /\ (p.state \in {"done", "cancel"} /\ Or(p.executed, 0) > 0) => p.trades # <<>>

\* _observed_status.
ObservedStatus(p) ==
    CASE p.state \in TerminalStates -> p.state
      [] p.state = "trade" /\ Or(p.remaining, 0) > 0 -> "partial_fill"
      [] OTHER -> "working"

\* plan_upbit_rest_snapshot_reconciliation: "apply" rather than "observe_only".
Applies(p) == ObservedStatus(p) \in TerminalStates

-----------------------------------------------------------------------------
\* The sort key of the trades, compared field by field.
SortKey(p, t) == <<TradeTime(p, t), Or(t.uuid, 0), t.price, t.volume>>

Before(a, b) ==
    \E i \in DOMAIN a : a[i] < b[i] /\ \A j \in 1..(i - 1) : a[j] = b[j]

\* Mutant: the trades stay in the order of the answer.
AsAnswered(p) == p.trades

\* sorted() is stable.
Ahead(p, i, j) ==
    LET key(k) == SortKey(p, p.trades[k])
    IN  Before(key(i), key(j)) \/ (key(i) = key(j) /\ i < j)

Rank(p, i) == Cardinality({j \in DOMAIN p.trades : Ahead(p, j, i)}) + 1

\* The snapshot's trades.
Trades(p) ==
    [n \in DOMAIN p.trades |-> p.trades[CHOOSE i \in DOMAIN p.trades : Rank(p, i) = n]]

\* A quotient of Decimals, rounded half to even in its last digit.
Quotient(a, b) ==
    LET q == a \div b
        r == 2 * (a % b)
    IN  IF r > b \/ (r = b /\ q % 2 = 1) THEN q + 1 ELSE q

Funds(p) == SumFunctionOnSet([i \in DOMAIN p.trades |-> p.trades[i].funds], DOMAIN p.trades)

\* _distributed_fees does not raise.
Distributes(p) ==
    \/ p.trades = <<>> \/ Or(p.paid, 0) = 0 \/ Len(p.trades) = 1
    \/ (\A i \in DOMAIN p.trades : p.trades[i].funds # Absent) /\ Funds(p) > 0

\* The last trade takes what the others left of the fee.
Remainder(p, n, share) == p.paid - SumFunctionOnSet(share, 1..(n - 1))

\* The share of each trade in the fee paid for the order.
DistributedFees(p) ==
    LET n == Len(p.trades)
        trades == Trades(p)
        total == Funds(p)
        share == [i \in 1..n |-> Quotient(p.paid * trades[i].funds, total)]
    IN  IF Or(p.paid, 0) = 0 THEN [i \in 1..n |-> 0]
        ELSE IF n = 1 THEN <<p.paid>>
        ELSE [i \in 1..n |-> IF i = n THEN Remainder(p, n, share) ELSE share[i]]

\* _reconciliation_fills: the fill of each trade, numbered as sorted.
ReconciliationFills(p) ==
    LET trades == Trades(p)
        fees == DistributedFees(p)
    IN  {[seq |-> i, side |-> TradeSide(p, trades[i]), quantity |-> trades[i].volume,
          price |-> trades[i].price, fee |-> fees[i]] : i \in DOMAIN trades}

\* build_upbit_rest_reconciliation_request succeeds.
Applicable(p) == Parses(p) /\ Applies(p) /\ Distributes(p)

\* What it passes on: every terminal state is the same to the ledger.
ReconciliationRequest(p) == [status |-> "terminal", fills |-> ReconciliationFills(p)]
=============================================================================
