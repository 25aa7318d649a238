--------------------------- MODULE BacktestEngine ---------------------------
(***************************************************************************)
(* The candle replay of packages/shared/goodmoneying_shared/               *)
(* backtest_engine.py.  A candle is [known, priority, seq, close, volume,  *)
(* quality, decimal], a signal [occurred, known, side, quantity]; times    *)
(* are small integers.  Decimal arithmetic is exact here, and so are the   *)
(* scaled integers: rates are counted in parts of Parts, prices in parts   *)
(* of a currency unit, cash in parts of parts.                             *)
(***************************************************************************)
EXTENDS Integers, Sequences, FiniteSets, SequencesExt

CONSTANTS Parts,          \* _BPS_DENOMINATOR, the parts of a unit
          FeeRate,        \* execution.fee_rate, in parts
          Slippage,       \* execution.slippage_bps, in parts
          Latency,        \* execution.latency_seconds
          Participation,  \* execution.max_participation_rate (a whole number)
          InitialCash     \* initial_cash, in parts of parts

ASSUME EngineAssumption ==
    /\ Parts \in Nat \ {0} /\ Latency \in Nat /\ Participation \in Nat
    /\ FeeRate \in Nat /\ Slippage \in 0..Parts /\ InitialCash \in Nat

(* _event_sort_key *)
EventBefore(a, b) ==
    \/ a.known < b.known
    \/ a.known = b.known /\ a.priority < b.priority
    \/ a.known = b.known /\ a.priority = b.priority /\ a.seq < b.seq

(* _signal_sort_key, over <<position, signal>> *)
SignalBefore(a, b) ==
    \/ a[2].known < b[2].known
    \/ a[2].known = b[2].known /\ a[2].occurred < b[2].occurred
    \/ a[2].known = b[2].known /\ a[2].occurred = b[2].occurred /\ a[1] < b[1]

(* Python's sorted: what the key does not tell apart keeps its order. *)
Sorted(seq, Before(_, _)) ==
    LET ahead(j, i) == \/ Before(seq[j], seq[i])
                       \/ ~Before(seq[i], seq[j]) /\ j < i
        place(i) == Cardinality({j \in DOMAIN seq : ahead(j, i)}) + 1
    IN [k \in DOMAIN seq |-> seq[CHOOSE i \in DOMAIN seq : place(i) = k]]

ReplayEvents(candles) == Sorted(candles, EventBefore)

OrderedSignals(signals) ==
    LET numbered == [i \in DOMAIN signals |-> <<i, signals[i]>>]
        sorted == Sorted(numbered, SignalBefore)
    IN [i \in DOMAIN sorted |-> sorted[i][2]]

(* _is_look_ahead_signal *)
LookAhead(signal) == signal.known < signal.occurred

(* _decimal_validation_error, of the candles: a missing candle has no price. *)
DecimalError(candles) == \E i \in DOMAIN candles : ~candles[i].decimal

(* Mutant: the latest candle known when the signal is. *)
LatestKnown(events, signal) ==
    LET known == {i \in DOMAIN events : events[i].quality = "available"
                                        /\ events[i].known <= signal.known + Latency}
    IN IF known = {} THEN 0 ELSE Max(known)

(* _execution_event: the place of the first candle that is available and   *)
(* known no earlier than the signal and the latency allow; 0 for none.     *)
ExecutionEvent(events, signal) ==
    LET open == {i \in DOMAIN events : events[i].quality = "available"
                                       /\ events[i].known >= signal.known + Latency}
    IN IF open = {} THEN 0 ELSE Min(open)

(* _fill_price, in parts *)
FillPrice(close, side) ==
    IF side = "buy" THEN close * (Parts + Slippage) ELSE close * (Parts - Slippage)

(* Mutant: the fee of a sale is paid to the seller. *)
SellerIsPaid(cash, side, notional, fee) ==
    IF side = "buy" THEN cash - (notional + fee) ELSE cash + (notional + fee)

CashAfter(cash, side, notional, fee) ==
    IF side = "buy" THEN cash - (notional + fee) ELSE cash + (notional - fee)

(* One turn of the loop of run_candle_backtest: a signal that finds no     *)
(* candle is dropped; the others fill as far as the candle's volume goes.  *)
Fill(book, events, signal) ==
    LET i == ExecutionEvent(events, signal)
    IN IF i = 0 THEN book
       ELSE LET event == events[i]
                most == event.volume * Participation
                filled == IF signal.quantity < most THEN signal.quantity ELSE most
                price == FillPrice(event.close, signal.side)
                notional == price * filled * Parts
                fee == price * filled * FeeRate
                position == IF signal.side = "buy" THEN book.position + filled
                            ELSE book.position - filled
                cash == CashAfter(book.cash, signal.side, notional, fee)
            IN [cash |-> cash, position |-> position,
                trades |-> Append(book.trades,
                    [side |-> signal.side, filled |-> filled,
                     remaining |-> signal.quantity - filled, price |-> price, fee |-> fee,
                     known |-> event.known]),
                equity |-> Append(book.equity,
                    cash + position * event.close * Parts * Parts)]

EmptyBook == [cash |-> InitialCash, position |-> 0, trades |-> <<>>, equity |-> <<>>]

(* _final_equity: the last candle's close, whatever its quality. *)
FinalEquity(book, events) ==
    IF events = <<>> THEN InitialCash
    ELSE book.cash + book.position * Last(events).close * Parts * Parts

(* _input_hash: of the sorted candles and the signals as they were given,  *)
(* or, when a price is missing, of the identity of the inputs only         *)
(* (_invalid_input_hash).                                                  *)
InputHash(spec, candles, signals) ==
    IF DecimalError(candles)
    THEN [version |-> spec.version, dataset |-> spec.dataset]
    ELSE [spec |-> spec, events |-> ReplayEvents(candles), signals |-> signals]

(* No two signals fill against one candle: each fill leaves an equity      *)
(* point with the time of its candle.                                      *)
OneFillEach(candles, signals) ==
    LET candle(i) == ExecutionEvent(ReplayEvents(candles), signals[i])
    IN \A i, j \in DOMAIN signals : candle(i) = candle(j) => i = j \/ candle(i) = 0

-----------------------------------------------------------------------------
(* The trades, written down without the loop: the n-th trade is that of    *)
(* the n-th signal that has a candle, against the candle that comes first  *)
(* among those that are available late enough.                             *)
TradesOf(candles, signals) ==
    LET usable(s) == {i \in DOMAIN candles : candles[i].quality = "available"
                                             /\ candles[i].known - Latency >= s.known}
        first(s) == CHOOSE i \in usable(s) :
                        \A j \in usable(s) \ {i} : EventBefore(candles[i], candles[j])
        served == SelectSeq(OrderedSignals(signals), LAMBDA s : usable(s) # {})
    IN [n \in DOMAIN served |->
          [side |-> served[n].side, known |-> candles[first(served[n])].known,
           close |-> candles[first(served[n])].close]]

(* What the fills changed, trade by trade. *)
CashMoved(trades) ==
    FoldLeft(LAMBDA sum, t : sum - t.fee
                + (IF t.side = "buy" THEN -1 ELSE 1) * t.price * t.filled * Parts,
             0, trades)

(* What they left in the position. *)
Held(trades) ==
    FoldLeft(LAMBDA sum, t : sum + (IF t.side = "buy" THEN t.filled ELSE -t.filled), 0, trades)
=============================================================================
