------------------------ MODULE ReconciliationProofs ------------------------
(***************************************************************************)
(* Proofs about RestSnapshot and Reconciliation, for every set of orders,  *)
(* positions, run keys, requests and callers and whatever the exchange     *)
(* reports.                                                                *)
(***************************************************************************)
EXTENDS Reconciliation, FiniteSums

-----------------------------------------------------------------------------
(* The order of the trades.                                                *)

\* Keys of four numbers are compared field by field.
Key == [1..4 -> Nat]

LexBefore(a, b) ==
    \/ a[1] < b[1]
    \/ a[1] = b[1] /\ a[2] < b[2]
    \/ a[1] = b[1] /\ a[2] = b[2] /\ a[3] < b[3]
    \/ a[1] = b[1] /\ a[2] = b[2] /\ a[3] = b[3] /\ a[4] < b[4]

\* The comparison of keys, unfolded.
LEMMA BeforeFields ==
    ASSUME NEW a \in Key, NEW b \in Key
    PROVE  Before(a, b) <=> LexBefore(a, b)
  <1>1. DOMAIN a = 1..4 /\ 1..4 = {1, 2, 3, 4}
    BY DEF Key
  <1>2. /\ 1..(1 - 1) = {} /\ 1..(2 - 1) = {1}
        /\ 1..(3 - 1) = {1, 2} /\ 1..(4 - 1) = {1, 2, 3}
    OBVIOUS
  <1>3. Before(a, b) <=> \E i \in {1, 2, 3, 4} : a[i] < b[i] /\ \A j \in 1..(i - 1) : a[j] = b[j]
    BY <1>1 DEF Before
  <1> QED
    BY <1>2, <1>3 DEF LexBefore

\* The comparison of keys is a strict total order.
LEMMA BeforeOrders ==
    ASSUME NEW a \in Key, NEW b \in Key, NEW c \in Key
    PROVE  /\ ~Before(a, a)
           /\ Before(a, b) /\ Before(b, c) => Before(a, c)
           /\ a # b => Before(a, b) \/ Before(b, a)
  <1>1. /\ Before(a, a) <=> LexBefore(a, a)
        /\ Before(a, b) <=> LexBefore(a, b)
        /\ Before(b, a) <=> LexBefore(b, a)
        /\ Before(b, c) <=> LexBefore(b, c)
        /\ Before(a, c) <=> LexBefore(a, c)
    BY BeforeFields
  <1>2. /\ a[1] \in Nat /\ a[2] \in Nat /\ a[3] \in Nat /\ a[4] \in Nat
        /\ b[1] \in Nat /\ b[2] \in Nat /\ b[3] \in Nat /\ b[4] \in Nat
        /\ c[1] \in Nat /\ c[2] \in Nat /\ c[3] \in Nat /\ c[4] \in Nat
    BY DEF Key
  <1>3. a[1] = b[1] /\ a[2] = b[2] /\ a[3] = b[3] /\ a[4] = b[4] => a = b
    <2>1. 1..4 = {1, 2, 3, 4}
      OBVIOUS
    <2> QED
      BY <2>1 DEF Key
  <1>4. ~LexBefore(a, a)
    BY <1>2 DEF LexBefore
  <1>5. LexBefore(a, b) /\ LexBefore(b, c) => LexBefore(a, c)
    BY <1>2 DEF LexBefore
  <1>6. a # b => LexBefore(a, b) \/ LexBefore(b, a)
    BY <1>2, <1>3 DEF LexBefore
  <1> QED
    BY <1>1, <1>4, <1>5, <1>6

\* A report whose trades all have a time, as parse_upbit_rest_order_snapshot
\* requires.
Timed(p) == \A i \in DOMAIN p.trades : TradeTime(p, p.trades[i]) # Absent

\* Every sort key is made of four numbers.
LEMMA KeyFields ==
    ASSUME NEW p \in OrderReport, Timed(p), NEW i \in DOMAIN p.trades
    PROVE  p.trades[i] \in TradeReport /\ SortKey(p, p.trades[i]) \in Key
  <1>1. p.trades \in Seq(TradeReport) /\ p.created \in Optional(Nat)
    BY DEF OrderReport
  <1>2. p.trades[i] \in TradeReport
    BY <1>1
  <1>3. PICK t : t = p.trades[i]
    OBVIOUS
  <1>4. /\ TradeTime(p, t) \in Nat /\ Or(t.uuid, 0) \in Nat
        /\ t.price \in Nat /\ t.volume \in Nat
    BY <1>1, <1>2, <1>3 DEF Timed, TradeTime, Or, TradeReport, Optional
  <1>5. \A a, b, c, d \in Nat : <<a, b, c, d>> \in Key
    BY DEF Key
  <1> QED
    BY <1>2, <1>3, <1>4, <1>5 DEF SortKey

\* Being ahead is a strict total order of the places of the answer.
LEMMA AheadOrders ==
    ASSUME NEW p \in OrderReport, Timed(p), NEW i \in DOMAIN p.trades,
           NEW j \in DOMAIN p.trades, NEW k \in DOMAIN p.trades
    PROVE  /\ ~Ahead(p, i, i)
           /\ Ahead(p, i, j) /\ Ahead(p, j, k) => Ahead(p, i, k)
           /\ i # j => Ahead(p, i, j) \/ Ahead(p, j, i)
  <1>1. PICK a, b, c : /\ a = SortKey(p, p.trades[i]) /\ b = SortKey(p, p.trades[j])
                       /\ c = SortKey(p, p.trades[k])
    OBVIOUS
  <1>2. a \in Key /\ b \in Key /\ c \in Key
    BY <1>1, KeyFields
  <1>3. /\ ~Before(a, a)
        /\ Before(a, b) /\ Before(b, c) => Before(a, c)
        /\ a # b => Before(a, b) \/ Before(b, a)
    BY <1>2, BeforeOrders
  <1>4. i \in Nat /\ j \in Nat /\ k \in Nat
    BY DEF OrderReport
  <1>5. /\ Ahead(p, i, i) <=> Before(a, a) \/ (a = a /\ i < i)
        /\ Ahead(p, i, j) <=> Before(a, b) \/ (a = b /\ i < j)
        /\ Ahead(p, j, i) <=> Before(b, a) \/ (b = a /\ j < i)
        /\ Ahead(p, j, k) <=> Before(b, c) \/ (b = c /\ j < k)
        /\ Ahead(p, i, k) <=> Before(a, c) \/ (a = c /\ i < k)
    BY <1>1 DEF Ahead
  <1> QED
    BY <1>3, <1>4, <1>5

\* What sorted() does to the trades of an answer: a permutation of them, in
\* ascending order of their keys, in which trades of one key keep their order.
Sorted(p, at) ==
    LET D == DOMAIN p.trades
    IN  /\ at \in Bijection(D, D)
        /\ Trades(p) = [n \in D |-> p.trades[at[n]]]
        /\ \A n \in D : Rank(p, at[n]) = n
        /\ \A m, n \in D : m < n => Ahead(p, at[m], at[n])

\* The trades of a snapshot are those of the answer, each once, sorted.
THEOREM TradesSorted ==
    ASSUME NEW p \in OrderReport, Timed(p)
    PROVE  \E at : Sorted(p, at)
  <1> DEFINE n == Len(p.trades)
             D == DOMAIN p.trades
             R == {ij \in D \X D : Ahead(p, ij[1], ij[2])}
             at == [m \in D |-> CHOOSE i \in D : Rank(p, i) = m]
  <1>1. n \in Nat /\ D = 1..n
    BY DEF OrderReport
  <1>2. \A i, j \in D : <<i, j>> \in R <=> Ahead(p, i, j)
    OBVIOUS
  <1>3. \A i \in D : Place(D, R, i) = Rank(p, i)
    <2> SUFFICES ASSUME NEW i \in D
                 PROVE  {j \in D : <<j, i>> \in R} = {j \in D : Ahead(p, j, i)}
      BY DEF Rank, Place
    <2> HIDE DEF R, D
    <2> QED
      BY <1>2
  <1>4. IsFiniteSet(D) /\ Cardinality(D) = n
    BY <1>1, FS_Interval
  <1>5. /\ \A i \in D : Rank(p, i) \in D
        /\ \A m \in D : \E i \in D : Rank(p, i) = m
        /\ \A i, j \in D : Ahead(p, i, j) => Rank(p, i) < Rank(p, j)
        /\ \A i, j \in D : Rank(p, i) = Rank(p, j) => i = j
    <2> HIDE DEF R
    <2>1. /\ \A i \in D : <<i, i>> \notin R
          /\ \A i, j, k \in D : <<i, j>> \in R /\ <<j, k>> \in R => <<i, k>> \in R
          /\ \A i, j \in D : i # j => <<i, j>> \in R \/ <<j, i>> \in R
      BY <1>2, AheadOrders
    <2> HIDE DEF D, n
    <2>2. /\ \A i \in D : Place(D, R, i) \in 1..Cardinality(D)
          /\ \A m \in 1..Cardinality(D) : \E i \in D : Place(D, R, i) = m
          /\ \A i, j \in D : <<i, j>> \in R => Place(D, R, i) < Place(D, R, j)
          /\ \A i, j \in D : Place(D, R, i) = Place(D, R, j) => i = j
      BY <1>4, <2>1, RankIsBijection
    <2>3. \A m : m \in 1..Cardinality(D) <=> m \in D
      BY <1>1, <1>4
    <2>4. (\A i \in D : Rank(p, i) \in D) /\ \A m \in D : \E i \in D : Rank(p, i) = m
      BY <1>3, <2>2, <2>3
    <2>5. \A i, j \in D : Ahead(p, i, j) => Rank(p, i) < Rank(p, j)
      BY <1>2, <1>3, <2>2
    <2>6. \A i, j \in D : Rank(p, i) = Rank(p, j) => i = j
      BY <1>3, <2>2
    <2> QED
      BY <2>4, <2>5, <2>6
  <1>6. /\ at \in [D -> D] /\ \A m \in D : Rank(p, at[m]) = m
        /\ \A i \in D : at[Rank(p, i)] = i /\ Rank(p, i) \in D
    <2> HIDE DEF D, n
    <2>1. \A m \in D : at[m] \in D /\ Rank(p, at[m]) = m
      BY <1>5
    <2> QED
      BY <1>5, <2>1
  <1>7. at \in Bijection(D, D)
    <2> HIDE DEF at, D
    <2>1. at \in [D -> D] /\ \A m, k \in D : at[m] = at[k] => m = k
      BY <1>6
    <2>2. \A i \in D : \E m \in D : at[m] = i
      BY <1>6
    <2> QED
      BY <2>1, <2>2 DEF Bijection, Injection, Surjection, IsInjective
  <1>8. Trades(p) = [m \in D |-> p.trades[at[m]]]
    BY DEF Trades
  <1>9. ASSUME NEW m \in D, NEW k \in D, m < k PROVE Ahead(p, at[m], at[k])
    <2>1. at[m] \in D /\ at[k] \in D /\ Rank(p, at[m]) = m /\ Rank(p, at[k]) = k
      BY <1>6
    <2>2. m \in Nat /\ k \in Nat
      BY <1>1
    <2> HIDE DEF at, R
    <2>3. at[m] # at[k]
      BY <1>9, <2>1, <2>2
    <2>4. ~Ahead(p, at[k], at[m])
      <3>1. Ahead(p, at[k], at[m]) => Rank(p, at[k]) < Rank(p, at[m])
        BY <1>5, <2>1
      <3> QED
        BY <1>9, <2>1, <2>2, <3>1
    <2> QED
      BY <2>1, <2>3, <2>4, AheadOrders
  <1> HIDE DEF at
  <1>10. Sorted(p, at)
    BY <1>6, <1>7, <1>8, <1>9 DEF Sorted
  <1> QED
    BY <1>10

\* Without the order: every trade of the snapshot is one of the answer.
LEMMA TradesType ==
    ASSUME NEW p \in OrderReport, Timed(p)
    PROVE  /\ DOMAIN Trades(p) = DOMAIN p.trades
           /\ \A n \in DOMAIN p.trades : \E i \in DOMAIN p.trades : Trades(p)[n] = p.trades[i]
  <1>1. PICK at : Sorted(p, at)
    BY TradesSorted
  <1>2. at \in [DOMAIN p.trades -> DOMAIN p.trades]
    BY <1>1 DEF Sorted, Bijection, Injection
  <1> QED
    BY <1>1, <1>2 DEF Sorted

-----------------------------------------------------------------------------
(* The fees.                                                               *)

\* The places of a sequence are finitely many.
LEMMA UpToFinite == \A n \in Int : IsFiniteSet(1..n)
  BY FS_Interval

\* A rounded quotient is an integer.
LEMMA QuotientType ==
    ASSUME NEW a \in Nat, NEW b \in Nat, b > 0
    PROVE  Quotient(a, b) \in Int
  <1>1. a \div b \in Int
    OBVIOUS
  <1> QED
    BY <1>1 DEF Quotient

\* The share of each trade but the last of an order with several trades.
Share(p) ==
    [i \in 1..Len(p.trades) |-> Quotient(p.paid * Trades(p)[i].funds, Funds(p))]

\* The three ways the fee of an order is shared.
LEMMA FeesByCase ==
    ASSUME NEW p
    PROVE  LET n == Len(p.trades) IN
           /\ Or(p.paid, 0) = 0 => DistributedFees(p) = [i \in 1..n |-> 0]
           /\ Or(p.paid, 0) # 0 /\ n = 1 => DistributedFees(p) = <<p.paid>>
           /\ Or(p.paid, 0) # 0 /\ n # 1 =>
                DistributedFees(p) =
                  [i \in 1..n |-> IF i = n THEN Remainder(p, n, Share(p)) ELSE Share(p)[i]]
  BY DEF DistributedFees, Share

\* A report that parses and whose fee can be shared.
Sharable(p) == Timed(p) /\ Distributes(p)

\* The shares are integers.
LEMMA ShareType ==
    ASSUME NEW p \in OrderReport, Sharable(p), p.trades # <<>>,
           Or(p.paid, 0) # 0, Len(p.trades) # 1
    PROVE  /\ p.paid \in Nat
           /\ Share(p) \in [1..Len(p.trades) -> Int]
           /\ Remainder(p, Len(p.trades), Share(p)) \in Int
  <1> DEFINE n == Len(p.trades)
             D == DOMAIN p.trades
             funds == [i \in D |-> p.trades[i].funds]
  <1>1. p.trades \in Seq(TradeReport) /\ p.paid \in Nat /\ n \in Nat /\ D = 1..n
    BY DEF OrderReport, Or, Optional
  <1>2. (\A i \in D : p.trades[i].funds # Absent) /\ Funds(p) > 0
    BY DEF Sharable, Distributes
  <1>3. \A i \in D : p.trades[i].funds \in Nat
    <2> SUFFICES ASSUME NEW i \in D PROVE p.trades[i].funds \in Nat
      OBVIOUS
    <2>1. PICK t \in TradeReport : t = p.trades[i]
      BY KeyFields DEF Sharable
    <2> QED
      BY <1>2, <2>1 DEF TradeReport, Optional
  <1>4. \A i \in D : Trades(p)[i].funds \in Nat
    BY <1>3, TradesType DEF Sharable
  <1>5. IsFiniteSet(D) /\ \A i \in D : funds[i] \in Int
    <2>1. \A i \in D : funds[i] \in Nat
      BY <1>3
    <2>2. IsFiniteSet(D)
      BY <1>1, UpToFinite
    <2> HIDE DEF funds, D
    <2> QED
      BY <2>1, <2>2
  <1>6. Funds(p) \in Int
    <2>1. SumFunctionOnSet(funds, D) \in Int
      <3> HIDE DEF funds, D
      <3> QED
        BY <1>5, SumType
    <2> QED
      BY <2>1 DEF Funds
  <1>7. ASSUME NEW i \in 1..n PROVE Quotient(p.paid * Trades(p)[i].funds, Funds(p)) \in Int
    <2>1. p.paid * Trades(p)[i].funds \in Nat
      <3>1. Trades(p)[i].funds \in Nat
        BY <1>1, <1>4
      <3> QED
        BY <1>1, <3>1
    <2>2. Funds(p) \in Nat
      BY <1>2, <1>6
    <2> QED
      BY <1>2, <2>1, <2>2, QuotientType
  <1>8. Share(p) \in [1..n -> Int]
    BY <1>7 DEF Share
  <1>9. SumFunctionOnSet(Share(p), 1..(n - 1)) \in Int
    <2>1. \A i \in 1..(n - 1) : Share(p)[i] \in Int
      BY <1>1, <1>8
    <2>2. IsFiniteSet(1..(n - 1))
      BY <1>1, UpToFinite
    <2> HIDE DEF n
    <2> QED
      BY <2>1, <2>2, SumType
  <1> QED
    BY <1>1, <1>8, <1>9 DEF Remainder

\* Every trade has a fee, a whole number of last digits.
LEMMA FeesType ==
    ASSUME NEW p \in OrderReport, Sharable(p)
    PROVE  /\ DOMAIN DistributedFees(p) = DOMAIN p.trades
           /\ \A i \in DOMAIN p.trades : DistributedFees(p)[i] \in Int
  <1> DEFINE n == Len(p.trades)
             D == DOMAIN p.trades
  <1>1. n \in Nat /\ D = 1..n
    BY DEF OrderReport
  <1>2. CASE Or(p.paid, 0) = 0
    BY <1>1, <1>2, FeesByCase
  <1>3. CASE Or(p.paid, 0) # 0 /\ n = 1
    <2>1. p.paid \in Int
      BY <1>3 DEF OrderReport, Or, Optional
    <2>2. DistributedFees(p) = <<p.paid>> /\ D = {1}
      BY <1>1, <1>3, FeesByCase
    <2> QED
      BY <2>1, <2>2
  <1>4. CASE Or(p.paid, 0) # 0 /\ n # 1
    <2>1. DistributedFees(p) =
            [i \in 1..n |-> IF i = n THEN Remainder(p, n, Share(p)) ELSE Share(p)[i]]
      BY <1>4, FeesByCase
    <2>2. CASE p.trades = <<>>
      BY <1>1, <2>1, <2>2
    <2>3. CASE p.trades # <<>>
      <3>1. Share(p) \in [1..n -> Int] /\ Remainder(p, n, Share(p)) \in Int
        BY <1>4, <2>3, ShareType
      <3>2. PICK fees : fees = DistributedFees(p)
        OBVIOUS
      <3>3. DOMAIN fees = D
        BY <1>1, <2>1, <3>2
      <3>4. \A i \in D : fees[i] = IF i = n THEN Remainder(p, n, Share(p)) ELSE Share(p)[i]
        BY <1>1, <2>1, <3>2
      <3> HIDE DEF n, D
      <3>5. \A i \in D : fees[i] \in Int
        BY <1>1, <3>1, <3>4
      <3> QED
        BY <3>2, <3>3, <3>5 DEF D
    <2> QED
      BY <2>2, <2>3
  <1> QED
    BY <1>2, <1>3, <1>4

\* Nothing of a fee is lost or made up by the rounding of the shares: they add
\* up to what was paid for the order.
THEOREM FeesAddUp ==
    ASSUME NEW p \in OrderReport, Sharable(p), p.trades # <<>>
    PROVE  SumFunctionOnSet(DistributedFees(p), DOMAIN p.trades) = Or(p.paid, 0)
  <1> DEFINE n == Len(p.trades)
             D == DOMAIN p.trades
             fees == DistributedFees(p)
  <1>1. n \in Nat /\ D = 1..n /\ n # 0
    BY DEF OrderReport
  <1>2. IsFiniteSet(D)
    BY <1>1, UpToFinite
  <1>3. CASE Or(p.paid, 0) = 0
    <2>1. \A i \in D : fees[i] = 0
      BY <1>1, <1>3, FeesByCase
    <2> HIDE DEF fees, D
    <2>2. SumFunctionOnSet(fees, D) = 0
      BY <1>2, <2>1, SumZero
    <2> QED
      BY <1>3, <2>2 DEF fees, D
  <1>4. CASE Or(p.paid, 0) # 0
    <2>1. Or(p.paid, 0) = p.paid /\ p.paid \in Int
      BY <1>4 DEF OrderReport, Or, Optional
    <2> DEFINE L == 1..(n - 1)
    <2>2. D = L \cup {n} /\ n \notin L /\ IsFiniteSet(L)
      <3>1. IsFiniteSet(L)
        BY <1>1, UpToFinite
      <3> QED
        BY <1>1, <3>1
    <2>3. \A i \in L \cup {n} : fees[i] \in Int
      BY <2>2, FeesType
    <2>4. SumFunctionOnSet(fees, D) = SumFunctionOnSet(fees, L) + fees[n]
      <3> HIDE DEF fees, D, L, n
      <3> QED
        BY <2>2, <2>3, SumAdd
    <2>5. CASE n = 1
      <3>1. fees[n] = p.paid /\ L = {}
        BY <1>4, <2>5, FeesByCase
      <3>2. SumFunctionOnSet(fees, L) = 0
        BY <3>1, SumEmpty
      <3> QED
        BY <2>1, <2>4, <3>1, <3>2
    <2>6. CASE n # 1
      <3>1. fees = [i \in 1..n |-> IF i = n THEN Remainder(p, n, Share(p)) ELSE Share(p)[i]]
        BY <1>4, <2>6, FeesByCase
      <3>2. fees[n] = p.paid - SumFunctionOnSet(Share(p), L)
        BY <1>1, <3>1 DEF Remainder
      <3>3. \A i \in L : fees[i] = Share(p)[i]
        BY <1>1, <3>1
      <3>4. SumFunctionOnSet(fees, L) = SumFunctionOnSet(Share(p), L)
        <4> HIDE DEF fees, L
        <4> QED
          BY <2>2, <3>3, SumSame
      <3>5. SumFunctionOnSet(fees, L) \in Int
        <4> HIDE DEF fees, L
        <4> QED
          BY <2>2, <2>3, SumType
      <3> HIDE DEF fees, D, L, n
      <3>6. SumFunctionOnSet(fees, D) = p.paid
        BY <2>1, <2>4, <3>2, <3>4, <3>5
      <3> QED
        BY <2>1, <3>6 DEF fees, D
    <2> QED
      BY <2>5, <2>6
  <1> QED
    BY <1>3, <1>4

-----------------------------------------------------------------------------
(* The requests the store is given.                                        *)

\* A snapshot that the adapter passes on makes a request: its fills have a
\* number, a side, positive amounts and a fee.
LEMMA AdaptedType ==
    ASSUME NEW o \in Orders, NEW key \in RunKeys, NEW p \in OrderReport, Passes(o, p)
    PROVE  Adapted(o, key, p) \in Request /\ IsFiniteSet(Adapted(o, key, p).seen.fills)
  <1> DEFINE D == DOMAIN p.trades
             trades == Trades(p)
             fees == DistributedFees(p)
             fill == [i \in D |->
                        [seq |-> i, side |-> TradeSide(p, trades[i]), quantity |-> trades[i].volume,
                         price |-> trades[i].price, fee |-> fees[i]]]
  <1>1. Timed(p) /\ Sharable(p)
    BY DEF Passes, Applicable, Parses, Timed, Sharable
  <1>2. /\ D = 1..Len(p.trades) /\ Len(p.trades) \in Nat
        /\ DOMAIN trades = D /\ DOMAIN fees = D
    BY <1>1, TradesType, FeesType DEF OrderReport
  <1>3. IsFiniteSet(D)
    BY <1>2, UpToFinite
  <1>4. ReconciliationFills(p) = {fill[i] : i \in D}
    BY <1>2 DEF ReconciliationFills
  <1>5. ASSUME NEW i \in D PROVE fill[i] \in Fill
    <2>1. PICK j \in D : trades[i] = p.trades[j]
      BY <1>1, TradesType
    <2>2. p.trades[j] \in TradeReport /\ p.trades[j].price > 0 /\ p.trades[j].volume > 0
      BY <1>1, KeyFields DEF Passes, Applicable, Parses
    <2>3. fees[i] \in Int /\ fees[i] >= 0
      BY <1>1, <1>2, FeesType DEF Passes, Payable
    <2>4. TradeSide(p, trades[i]) \in {"buy", "sell"}
      BY DEF TradeSide
    <2>5. i \in Nat \ {0}
      BY <1>2
    <2>6. trades[i].volume \in Nat \ {0} /\ trades[i].price \in Nat \ {0}
      BY <2>1, <2>2 DEF TradeReport
    <2> HIDE DEF fees, trades
    <2> QED
      BY <2>3, <2>4, <2>5, <2>6 DEF Fill
  <1> HIDE DEF fill
  <1>6. ReconciliationFills(p) \in SUBSET Fill /\ IsFiniteSet(ReconciliationFills(p))
    BY <1>3, <1>4, <1>5, ImageFinite
  <1> QED
    BY <1>6 DEF Adapted, Request, Observation, ReconciliationRequest

\* The exchange's answers are reports.
LEMMA AnswersType ==
    ASSUME NEW o \in Exchanged, exchange[o].state \in {"wait", "trade"} \cup TerminalStates,
           exchange[o].trades \in SUBSET Market, exchange[o].paid \in Nat,
           IsFiniteSet(exchange[o].trades)
    PROVE  Answers(o) \subseteq OrderReport
  <1>1. PICK T : T = exchange[o].trades
    OBVIOUS
  <1>2. Cardinality(T) \in Nat /\ T \subseteq TradeReport
    BY <1>1, FS_CardinalityType, ReconciliationConstants
  <1>3. Volume(T) \in Nat
    <2> DEFINE volume == [t \in T |-> t.volume]
    <2>1. \A t \in T : volume[t] \in Nat
      BY <1>2 DEF TradeReport
    <2> HIDE DEF volume
    <2>2. SumFunctionOnSet(volume, T) \in Nat
      BY <1>1, <2>1, SumNat
    <2> QED
      BY <2>2 DEF Volume, volume
  <1>4. SetToSeqs(T) \subseteq Seq(TradeReport)
    BY <1>2 DEF SetToSeqs
  <1>5. <<>> \in Seq(TradeReport)
    OBVIOUS
  <1>6. exchange[o].state \in States
    BY DEF States
  <1>7. ASSUME NEW s \in Seq(TradeReport), NEW e \in Endpoints
        PROVE  Payload(o, e, s) \in OrderReport
    BY <1>1, <1>2, <1>3, <1>6 DEF Payload, OrderReport, Optional
  <1>8. \A s \in SetToSeqs(T) : Payload(o, "GET /v1/order", s) \in OrderReport
    BY <1>4, <1>7 DEF Endpoints
  <1>9. Payload(o, "GET /v1/orders/closed", <<>>) \in OrderReport
    BY <1>5, <1>7 DEF Endpoints
  <1> QED
    BY <1>1, <1>8, <1>9 DEF Answers

-----------------------------------------------------------------------------
(* The inductive invariant.                                                *)

\* An open transaction holds the key of its request, under which no run has
\* been recorded.
HoldsKey(r) ==
    proc[r].pc # "idle" =>
        LET q == proc[r].req IN
        /\ q \in Request /\ IsFiniteSet(q.seen.fills)
        /\ keyLock[<<q.order, q.key>>] = r
        /\ Run(q).status = "none"

\* One that has decided holds the order row, so its decision still stands: the
\* fills it has inserted and has still to insert are the unrecorded ones.
HoldsRow(r) ==
    proc[r].pc \in {"decided", "projecting"} =>
        LET q == proc[r].req IN
        /\ rowLock[q.order] = r
        /\ proc[r].result = Result(q)
        /\ proc[r].todo \cap proc[r].done = {}
        /\ proc[r].todo \cup proc[r].done = IF Result(q) = "succeeded" THEN Unrecorded(q) ELSE {}
        /\ proc[r].pc = "decided" => proc[r].done = {}

\* The rows of order_fills that the inserted fills will be.
Inserted(fs) == {Stored(f) : f \in fs}

\* One that projects holds the position, and has moved it by what it inserted.
HoldsPosition(r) ==
    proc[r].pc = "projecting" =>
        LET p == PositionOf[proc[r].req.order] IN
        /\ posLock[p] = r
        /\ proc[r].result = "succeeded"
        /\ proc[r].quantity = position[p] + Moved(Inserted(proc[r].done))

Callers == \A r \in Reconcilers : HoldsKey(r) /\ HoldsRow(r) /\ HoldsPosition(r)

\* The rows of order_fills: the first ones stay, each is as the column stores
\* it, and a sequence is recorded once.
LedgerRows ==
    \A o \in Orders :
        /\ IsFiniteSet(fills[o]) /\ Recorded[o] \subseteq fills[o]
        /\ \A f \in fills[o] : Stored(f) = f
        /\ \A f, g \in fills[o] : f.seq = g.seq => f = g

\* The trades of an order are finitely many.
TradesFinite == \A o \in Exchanged : IsFiniteSet(exchange[o].trades)

IInv ==
    /\ TypeOK
    /\ Callers
    /\ LedgerRows
    /\ TradesFinite
    /\ LedgerExplained
    /\ PositionMatchesFills

-----------------------------------------------------------------------------
(* Fills, stored and added up.                                             *)

\* Half up rounding of a multiple of the scale is that multiple.
LEMMA RoundedMultiple ==
    ASSUME NEW S \in Nat \ {0}, NEW k \in Nat
    PROVE  (2 * (S * k) + S) \div (2 * S) = k
  <1>1. PICK a, b, q, m : a = 2 * (S * k) + S /\ b = 2 * S /\ q = a \div b /\ m = a % b
    OBVIOUS
  <1>2. a \in Nat /\ b \in Nat /\ b > 0
    BY <1>1
  <1>3. q \in Nat /\ m \in 0..(b - 1) /\ a = b * q + m
    BY <1>1, <1>2
  <1>4. a = b * k + S
    BY <1>1
  <1>5. ~(k < q)
    <2> SUFFICES ASSUME k < q PROVE FALSE
      OBVIOUS
    <2>1. b * (k + 1) <= b * q
      BY <1>2, <1>3
    <2>2. b * (k + 1) = b * k + b /\ b * k \in Nat /\ b * q \in Nat
      BY <1>2, <1>3
    <2> QED
      BY <1>1, <1>2, <1>3, <1>4, <2>1, <2>2
  <1>6. ~(q < k)
    <2> SUFFICES ASSUME q < k PROVE FALSE
      OBVIOUS
    <2>1. b * (q + 1) <= b * k
      BY <1>2, <1>3
    <2>2. b * (q + 1) = b * q + b /\ b * k \in Nat /\ b * q \in Nat
      BY <1>2, <1>3
    <2> QED
      BY <1>1, <1>2, <1>3, <1>4, <2>1, <2>2
  <1> QED
    BY <1>1, <1>3, <1>5, <1>6

\* A stored fill keeps everything but its fee, and is stored as it is.
LEMMA StoredFacts ==
    ASSUME NEW f \in Fill
    PROVE  /\ Stored(f) \in Fill
           /\ Stored(f).seq = f.seq /\ Signed(Stored(f)) = Signed(f)
           /\ Stored(Stored(f)) = Stored(f)
           /\ Signed(f) \in Int
  <1>1. Scale \in Nat \ {0} /\ f.fee \in Nat /\ f.quantity \in Nat
    BY ReconciliationConstants DEF Fill
  <1>2. PICK k \in Nat : k = (2 * f.fee + Scale) \div (2 * Scale)
    BY <1>1
  <1>3. Stored(f) = [f EXCEPT !.fee = Scale * k]
    BY <1>2 DEF Stored
  <1>4. Scale * k \in Nat
    BY <1>1
  <1>5. /\ Stored(f) \in Fill /\ Stored(f).seq = f.seq /\ Stored(f).fee = Scale * k
        /\ Stored(f).side = f.side /\ Stored(f).quantity = f.quantity
    BY <1>3, <1>4 DEF Fill
  <1>6. Scale * ((2 * Stored(f).fee + Scale) \div (2 * Scale)) = Stored(f).fee
    BY <1>1, <1>5, RoundedMultiple
  <1>7. Stored(Stored(f)) = [Stored(f) EXCEPT !.fee = Stored(f).fee]
    BY <1>6 DEF Stored
  <1> QED
    BY <1>1, <1>5, <1>7 DEF Signed, Fill

\* What no fill, one more fill and two disjoint sets of fills add up to.
LEMMA MovedFacts ==
    ASSUME NEW A \in SUBSET Fill, IsFiniteSet(A)
    PROVE  /\ Moved({}) = 0 /\ Moved(A) \in Int
           /\ \A f \in Fill \ A : Moved(A \cup {f}) = Moved(A) + Signed(f)
           /\ \A B \in SUBSET Fill : IsFiniteSet(B) /\ A \cap B = {} =>
                Moved(A \cup B) = Moved(A) + Moved(B)
  <1> DEFINE signed == [f \in Fill |-> Signed(f)]
  <1>1. \A f \in Fill : signed[f] \in Int /\ signed[f] = Signed(f)
    BY StoredFacts
  <1>2. ASSUME NEW B \in SUBSET Fill, IsFiniteSet(B)
        PROVE  Moved(B) = SumFunctionOnSet(signed, B)
    <2> DEFINE own == [f \in B |-> Signed(f)]
    <2>1. \A f \in B : own[f] = signed[f]
      OBVIOUS
    <2> HIDE DEF own, signed
    <2>2. SumFunctionOnSet(own, B) = SumFunctionOnSet(signed, B)
      BY <1>2, <2>1, SumSame
    <2> QED
      BY <2>2 DEF Moved, own
  <1> HIDE DEF signed
  <1>3. Moved({}) = 0
    BY SumEmpty DEF Moved
  <1>4. Moved(A) \in Int
    BY <1>1, <1>2, SumType
  <1>5. ASSUME NEW f \in Fill \ A PROVE Moved(A \cup {f}) = Moved(A) + Signed(f)
    <2>1. IsFiniteSet(A \cup {f}) /\ A \cup {f} \in SUBSET Fill
      BY FS_AddElement
    <2>2. SumFunctionOnSet(signed, A \cup {f}) = SumFunctionOnSet(signed, A) + signed[f]
      BY <1>1, SumAdd
    <2> QED
      BY <1>1, <1>2, <2>1, <2>2
  <1>6. ASSUME NEW B \in SUBSET Fill, IsFiniteSet(B), A \cap B = {}
        PROVE  Moved(A \cup B) = Moved(A) + Moved(B)
    <2>1. IsFiniteSet(A \cup B) /\ A \cup B \in SUBSET Fill
      BY <1>6, FS_Union
    <2>2. SumFunctionOnSet(signed, A \cup B)
            = SumFunctionOnSet(signed, A) + SumFunctionOnSet(signed, B)
      BY <1>1, <1>6, SumUnion
    <2> QED
      BY <1>2, <1>6, <2>1, <2>2
  <1> QED
    BY <1>3, <1>4, <1>5, <1>6

\* The rows that fills become.
LEMMA InsertedFacts ==
    ASSUME NEW fs \in SUBSET Fill, IsFiniteSet(fs)
    PROVE  Inserted(fs) \in SUBSET Fill /\ IsFiniteSet(Inserted(fs))
  <1> DEFINE stored == [f \in Fill |-> Stored(f)]
  <1>1. Inserted(fs) = {stored[f] : f \in fs}
    BY DEF Inserted
  <1> HIDE DEF stored
  <1>2. IsFiniteSet({stored[f] : f \in fs})
    BY ImageFinite
  <1>3. Inserted(fs) \in SUBSET Fill
    BY StoredFacts DEF Inserted
  <1> QED
    BY <1>1, <1>2, <1>3

-----------------------------------------------------------------------------
(* What a step leaves alone.                                               *)

\* A decision depends on the fills of its order only.
LEMMA SameDecision ==
    ASSUME NEW q, fills'[q.order] = fills[q.order]
    PROVE  Result(q)' = Result(q) /\ Unrecorded(q)' = Unrecorded(q)
  <1>1. \A f : /\ Known(q.order, f)' = Known(q.order, f)
               /\ Late(q.order, f)' = Late(q.order, f)
    BY DEF Known, Late
  <1>2. Unrecorded(q)' = Unrecorded(q)
    BY <1>1 DEF Unrecorded
  <1>3. Mismatch(q.order, q.seen.fills)' = Mismatch(q.order, q.seen.fills)
    BY <1>1 DEF Mismatch, SameFill
  <1> QED
    BY <1>2, <1>3 DEF Result

\* A caller that does nothing keeps what it holds, as long as no one takes its
\* locks, uses its key, or writes the fills or the position it has locked.
LEMMA CallerFrame ==
    ASSUME NEW s \in Reconcilers, HoldsKey(s), HoldsRow(s), HoldsPosition(s),
           proc'[s] = proc[s],
           NEW q, q = proc[s].req,
           proc[s].pc # "idle" =>
             /\ keyLock'[<<q.order, q.key>>] = s
             /\ run'[<<q.order, q.key>>] = run[<<q.order, q.key>>],
           proc[s].pc \in {"decided", "projecting"} =>
             rowLock'[q.order] = s /\ fills'[q.order] = fills[q.order],
           proc[s].pc = "projecting" =>
             /\ posLock'[PositionOf[q.order]] = s
             /\ position'[PositionOf[q.order]] = position[PositionOf[q.order]]
    PROVE  HoldsKey(s)' /\ HoldsRow(s)' /\ HoldsPosition(s)'
  <1>1. HoldsKey(s)'
    BY DEF HoldsKey, Run
  <1>2. HoldsRow(s)'
    BY SameDecision DEF HoldsRow
  <1>3. HoldsPosition(s)'
    BY DEF HoldsPosition
  <1> QED
    BY <1>1, <1>2, <1>3

\* What the runs of an order observed, by run key.
LEMMA ObservedBy ==
    \A o, f : f \in Observed(o) <=>
        \E k \in RunKeys : run[<<o, k>>].status = "succeeded" /\ f \in run[<<o, k>>].seen.fills
  BY DEF Observed

\* A step that writes no fill and no run keeps the ledger.
LEMMA LedgerFrame ==
    ASSUME LedgerRows, LedgerExplained, UNCHANGED <<fills, run>>
    PROVE  LedgerRows' /\ LedgerExplained'
  BY DEF LedgerRows, LedgerExplained, Observed

\* A step that writes no fill and moves no position keeps their sums.
LEMMA PositionFrame ==
    ASSUME PositionMatchesFills, UNCHANGED <<fills, position, paper>>
    PROVE  PositionMatchesFills'
  BY DEF PositionMatchesFills, Added

\* What a caller remembers is well formed.
LEMMA MemoryType ==
    /\ NoProc \in Memory
    /\ \A pc \in {"idle", "keyed", "decided", "projecting"}, q \in Request, result \in Outcome,
          todo, done \in SUBSET Fill, quantity \in Nat :
         Doing(pc, q, result, todo, done, quantity) \in Memory
  BY DEF NoProc, Memory, Doing, Outcome

\* The constants a step meets.
LEMMA OrderFacts ==
    ASSUME NEW q \in Request
    PROVE  /\ q.order \in Orders /\ q.key \in RunKeys /\ <<q.order, q.key>> \in Runs
           /\ PositionOf[q.order] \in Positions
           /\ q.seen \in Observation /\ q.seen.fills \in SUBSET Fill
           /\ q.seen.status \in {"terminal", "unknown"}
  BY ReconciliationConstants DEF Request, Runs, Observation

\* The empty tables satisfy the inductive invariant.
LEMMA InitIInv == Init => IInv
  <1> SUFFICES ASSUME Init PROVE IInv
    OBVIOUS
  <1> USE ReconciliationConstants
  <1>1. TypeOK
    BY MemoryType DEF Init, TypeOK, NoRun, Outcome
  <1>2. Callers
    BY DEF Init, Callers, HoldsKey, HoldsRow, HoldsPosition, NoProc
  <1>3. LedgerRows
    BY RecordedAsStored, RecordedOnce, FinitelyMany DEF Init, LedgerRows
  <1>4. TradesFinite
    BY FS_EmptySet DEF Init, TradesFinite
  <1>5. LedgerExplained
    <2>1. \A o \in Orders : Observed(o) = {}
      <3>1. \A o \in Orders, k \in RunKeys : run[<<o, k>>].status = "none"
        BY DEF Init, Runs, NoRun
      <3> QED
        BY <3>1, ObservedBy
    <2> QED
      BY <2>1 DEF Init, LedgerExplained
  <1>6. PositionMatchesFills
    <2> SUFFICES ASSUME NEW p \in Positions
                 PROVE  position[p] = Opening[p] + paper[p]
                          + SumFunctionOnSet([o \in Orders |-> Moved(Added(o))], On(p))
      BY DEF PositionMatchesFills
    <2> DEFINE moved == [o \in Orders |-> Moved(Added(o))]
    <2>1. \A o \in On(p) : moved[o] = 0
      BY SumEmpty DEF Init, Added, On, Moved
    <2>2. IsFiniteSet(On(p))
      BY FinitelyMany, FS_Subset DEF On
    <2> HIDE DEF moved
    <2>3. SumFunctionOnSet(moved, On(p)) = 0
      BY <2>1, <2>2, SumZero
    <2>4. position[p] = Opening[p] /\ Opening[p] \in Nat /\ paper[p] = 0
      BY DEF Init
    <2> QED
      BY <2>3, <2>4 DEF moved
  <1> QED
    BY <1>1, <1>2, <1>3, <1>4, <1>5, <1>6 DEF IInv

-----------------------------------------------------------------------------
(* Steps that only take locks.                                             *)

\* A request that may be begun: of a direct caller, or of an adapter.
Acceptable(q) == q \in Request /\ IsFiniteSet(q.seen.fills)

\* Taking the run key.
LEMMA BeginStep ==
    ASSUME IInv, NEW r \in Reconcilers, NEW q, Acceptable(q), Begin(r, q)
    PROVE  IInv'
  <1>1. /\ q \in Request /\ IsFiniteSet(q.seen.fills) /\ <<q.order, q.key>> \in Runs
        /\ None \notin Reconcilers
    BY OrderFacts, ReconciliationConstants DEF Acceptable
  <1>2. /\ proc \in [Reconcilers -> Memory] /\ keyLock \in [Runs -> Reconcilers \cup {None}]
        /\ proc[r].pc = "idle" /\ keyLock[<<q.order, q.key>>] = None /\ Run(q).status = "none"
        /\ keyLock' = [keyLock EXCEPT ![<<q.order, q.key>>] = r]
        /\ proc' = [proc EXCEPT ![r] = Doing("keyed", q, "none", {}, {}, 0)]
        /\ UNCHANGED <<tables, position, rowLock, posLock, outside>>
    BY DEF IInv, TypeOK, Begin, KeyFree
  <1>3. TypeOK'
    <2>1. Doing("keyed", q, "none", {}, {}, 0) \in Memory
      BY <1>1, MemoryType DEF Outcome
    <2>2. proc' \in [Reconcilers -> Memory] /\ keyLock' \in [Runs -> Reconcilers \cup {None}]
      BY <1>2, <2>1
    <2> QED
      BY <1>2, <2>2 DEF IInv, TypeOK, tables, outside
  <1>4. HoldsKey(r)' /\ HoldsRow(r)' /\ HoldsPosition(r)'
    <2>1. proc'[r] = Doing("keyed", q, "none", {}, {}, 0) /\ keyLock'[<<q.order, q.key>>] = r
      BY <1>1, <1>2
    <2>2. proc'[r].pc = "keyed" /\ proc'[r].req = q
      BY <2>1 DEF Doing
    <2> QED
      BY <1>1, <1>2, <2>1, <2>2 DEF HoldsKey, HoldsRow, HoldsPosition, Run, tables
  <1>5. ASSUME NEW s \in Reconcilers, s # r
        PROVE  HoldsKey(s)' /\ HoldsRow(s)' /\ HoldsPosition(s)'
    <2>1. HoldsKey(s) /\ HoldsRow(s) /\ HoldsPosition(s) /\ proc'[s] = proc[s]
      BY <1>2, <1>5 DEF IInv, Callers
    <2>2. PICK u : u = proc[s].req
      OBVIOUS
    <2>3. proc[s].pc # "idle" =>
            u \in Request /\ <<u.order, u.key>> \in Runs /\ keyLock[<<u.order, u.key>>] = s
      BY <2>1, <2>2, OrderFacts DEF HoldsKey
    <2>4. proc[s].pc # "idle" => keyLock'[<<u.order, u.key>>] = s
      BY <1>1, <1>2, <2>3
    <2>5. UNCHANGED <<run, fills, rowLock, position, posLock>>
      BY <1>2 DEF tables
    <2> QED
      BY <2>1, <2>2, <2>4, <2>5, CallerFrame DEF HoldsRow, HoldsPosition
  <1>6. Callers'
    BY <1>4, <1>5 DEF Callers
  <1> QED
    BY <1>2, <1>3, <1>6, LedgerFrame, PositionFrame
       DEF IInv, TradesFinite, tables, outside

\* Taking the order row, and deciding.
LEMMA LockOrderStep ==
    ASSUME IInv, NEW r \in Reconcilers, LockOrder(r)
    PROVE  IInv'
  <1>1. PICK q : q = proc[r].req
    OBVIOUS
  <1> DEFINE todo == IF Result(q) = "succeeded" THEN Unrecorded(q) ELSE {}
             memory == Doing("decided", q, Result(q), todo, {}, 0)
  <1>2. /\ proc \in [Reconcilers -> Memory] /\ rowLock \in [Orders -> Reconcilers \cup {None}]
        /\ proc[r].pc = "keyed" /\ rowLock[q.order] = None
        /\ rowLock' = [rowLock EXCEPT ![q.order] = r]
        /\ proc' = [proc EXCEPT ![r] = memory]
        /\ UNCHANGED <<tables, position, keyLock, posLock, outside>>
    BY <1>1 DEF IInv, TypeOK, LockOrder, RowFree
  <1>3. HoldsKey(r) /\ q \in Request /\ q.order \in Orders /\ None \notin Reconcilers
    BY <1>1, <1>2, OrderFacts, ReconciliationConstants DEF IInv, Callers, HoldsKey
  <1>4. todo \in SUBSET Fill /\ Result(q) \in Outcome
    BY <1>3, OrderFacts DEF Unrecorded, Result, Outcome
  <1>5. TypeOK'
    <2>1. memory \in Memory
      <3> HIDE DEF todo
      <3> QED
        BY <1>3, <1>4, MemoryType
    <2> HIDE DEF memory
    <2>2. proc' \in [Reconcilers -> Memory] /\ rowLock' \in [Orders -> Reconcilers \cup {None}]
      BY <1>2, <2>1
    <2> QED
      BY <1>2, <2>2 DEF IInv, TypeOK, tables, outside
  <1>6. HoldsKey(r)' /\ HoldsRow(r)' /\ HoldsPosition(r)'
    <2>1. /\ proc'[r].pc = "decided" /\ proc'[r].req = q /\ proc'[r].result = Result(q)
          /\ proc'[r].todo = todo /\ proc'[r].done = {} /\ rowLock'[q.order] = r
      BY <1>2, <1>3 DEF Doing
    <2> HIDE DEF todo, memory
    <2>2. Result(q)' = Result(q) /\ Unrecorded(q)' = Unrecorded(q)
      BY <1>2, SameDecision DEF tables
    <2>3. HoldsKey(r)'
      BY <1>1, <1>2, <1>3, <2>1 DEF HoldsKey, Run, tables
    <2>4. HoldsRow(r)'
      BY <2>1, <2>2 DEF HoldsRow, todo
    <2>5. HoldsPosition(r)'
      BY <2>1 DEF HoldsPosition
    <2> QED
      BY <2>3, <2>4, <2>5
  <1>7. ASSUME NEW s \in Reconcilers, s # r
        PROVE  HoldsKey(s)' /\ HoldsRow(s)' /\ HoldsPosition(s)'
    <2>1. HoldsKey(s) /\ HoldsRow(s) /\ HoldsPosition(s) /\ proc'[s] = proc[s]
      BY <1>2, <1>7 DEF IInv, Callers
    <2>2. PICK u : u = proc[s].req
      OBVIOUS
    <2>3. proc[s].pc \in {"decided", "projecting"} => u.order \in Orders /\ rowLock[u.order] = s
      BY <2>1, <2>2, OrderFacts DEF HoldsKey, HoldsRow
    <2>4. proc[s].pc \in {"decided", "projecting"} => rowLock'[u.order] = s
      BY <1>2, <1>3, <2>3
    <2>5. UNCHANGED <<run, fills, keyLock, position, posLock>>
      BY <1>2 DEF tables
    <2> QED
      BY <2>1, <2>2, <2>4, <2>5, CallerFrame DEF HoldsKey, HoldsPosition
  <1>8. Callers'
    BY <1>6, <1>7 DEF Callers
  <1> HIDE DEF memory
  <1> QED
    BY <1>2, <1>5, <1>8, LedgerFrame, PositionFrame
       DEF IInv, TradesFinite, tables, outside

\* Taking the position, and reading it.
LEMMA LockPositionStep ==
    ASSUME IInv, NEW r \in Reconcilers, LockPosition(r)
    PROVE  IInv'
  <1>1. PICK q, p : q = proc[r].req /\ p = PositionOf[q.order]
    OBVIOUS
  <1> DEFINE memory == Doing("projecting", q, "succeeded", proc[r].todo, {}, position[p])
  <1>2. /\ proc \in [Reconcilers -> Memory] /\ posLock \in [Positions -> Reconcilers \cup {None}]
        /\ proc[r].pc = "decided" /\ proc[r].todo # {} /\ posLock[p] = None
        /\ posLock' = [posLock EXCEPT ![p] = r]
        /\ proc' = [proc EXCEPT ![r] = memory]
        /\ UNCHANGED <<tables, position, keyLock, rowLock, outside>>
    BY <1>1 DEF IInv, TypeOK, LockPosition, PositionFree
  <1>3. /\ HoldsKey(r) /\ HoldsRow(r) /\ q \in Request /\ p \in Positions
        /\ None \notin Reconcilers /\ position[p] \in Nat /\ proc[r].todo \in SUBSET Fill
    BY <1>1, <1>2, OrderFacts, ReconciliationConstants
       DEF IInv, TypeOK, Callers, HoldsKey, Memory
  <1>4. proc[r].done = {} /\ Result(q) = "succeeded"
    BY <1>1, <1>2, <1>3 DEF HoldsRow
  <1>5. TypeOK'
    <2>1. memory \in Memory
      BY <1>3, MemoryType DEF Outcome
    <2> HIDE DEF memory
    <2>2. proc' \in [Reconcilers -> Memory] /\ posLock' \in [Positions -> Reconcilers \cup {None}]
      BY <1>2, <2>1
    <2> QED
      BY <1>2, <2>2 DEF IInv, TypeOK, tables, outside
  <1>6. HoldsKey(r)' /\ HoldsRow(r)' /\ HoldsPosition(r)'
    <2>1. /\ proc'[r].pc = "projecting" /\ proc'[r].req = q /\ proc'[r].result = "succeeded"
          /\ proc'[r].todo = proc[r].todo /\ proc'[r].done = {} /\ posLock'[p] = r
          /\ proc'[r].quantity = position[p]
      BY <1>2, <1>3 DEF Doing
    <2> HIDE DEF memory
    <2>2. Result(q)' = Result(q) /\ Unrecorded(q)' = Unrecorded(q)
      BY <1>2, SameDecision DEF tables
    <2>3. HoldsKey(r)'
      BY <1>1, <1>2, <1>3, <2>1 DEF HoldsKey, Run, tables
    <2>4. HoldsRow(r)'
      BY <1>1, <1>2, <1>3, <1>4, <2>1, <2>2 DEF HoldsRow
    <2>5. HoldsPosition(r)'
      <3>1. Moved(Inserted({})) = 0
        BY SumEmpty DEF Inserted, Moved
      <3>2. position[p] = position[p] + 0
        BY <1>3
      <3> QED
        BY <1>1, <1>2, <2>1, <3>1, <3>2 DEF HoldsPosition
    <2> QED
      BY <2>3, <2>4, <2>5
  <1>7. ASSUME NEW s \in Reconcilers, s # r
        PROVE  HoldsKey(s)' /\ HoldsRow(s)' /\ HoldsPosition(s)'
    <2>1. HoldsKey(s) /\ HoldsRow(s) /\ HoldsPosition(s) /\ proc'[s] = proc[s]
      BY <1>2, <1>7 DEF IInv, Callers
    <2>2. PICK u, v : u = proc[s].req /\ v = PositionOf[u.order]
      OBVIOUS
    <2>3. proc[s].pc = "projecting" => v \in Positions /\ posLock[v] = s
      BY <2>1, <2>2, OrderFacts DEF HoldsKey, HoldsPosition
    <2>4. proc[s].pc = "projecting" => posLock'[v] = s
      BY <1>2, <1>3, <2>3
    <2>5. UNCHANGED <<run, fills, keyLock, position, rowLock>>
      BY <1>2 DEF tables
    <2> QED
      BY <2>1, <2>2, <2>4, <2>5, CallerFrame DEF HoldsKey, HoldsRow
  <1>8. Callers'
    BY <1>6, <1>7 DEF Callers
  <1> HIDE DEF memory
  <1> QED
    BY <1>2, <1>5, <1>8, LedgerFrame, PositionFrame
       DEF IInv, TradesFinite, tables, outside

-----------------------------------------------------------------------------
(* One turn of the loop over the fills.                                    *)

\* A decision to go on compared all observed fills: no two of them share a
\* sequence, and a recorded one is as it was recorded.
LEMMA Agreeing ==
    ASSUME NEW q, Result(q) = "succeeded"
    PROVE  /\ \A f, g \in q.seen.fills : f.seq = g.seq => f = g
           /\ \A f \in q.seen.fills : Known(q.order, f) => f \in fills[q.order]
  BY DEF Result, Mismatch, Known, SameFill

\* Inserting a fill and projecting it.
LEMMA ProjectStep ==
    ASSUME IInv, NEW r \in Reconcilers, Project(r)
    PROVE  IInv'
  <1>1. PICK q, p : q = proc[r].req /\ p = PositionOf[q.order]
    OBVIOUS
  <1>2. PICK f \in proc[r].todo :
          /\ Covered(f, proc[r].quantity)
          /\ proc' = [proc EXCEPT ![r] =
               Doing("projecting", q, "succeeded", proc[r].todo \ {f},
                     proc[r].done \cup {f}, proc[r].quantity + Signed(f))]
    BY <1>1 DEF Project
  <1> DEFINE memory == Doing("projecting", q, "succeeded", proc[r].todo \ {f},
                             proc[r].done \cup {f}, proc[r].quantity + Signed(f))
  <1>3. /\ proc \in [Reconcilers -> Memory] /\ proc[r].pc = "projecting"
        /\ UNCHANGED <<tables, position, locks, outside>>
    BY DEF IInv, TypeOK, Project
  <1>4. /\ HoldsKey(r) /\ HoldsRow(r) /\ HoldsPosition(r) /\ q \in Request
        /\ IsFiniteSet(q.seen.fills)
    BY <1>1, <1>3 DEF IInv, Callers, HoldsKey
  <1>5. /\ proc[r].todo \in SUBSET Fill /\ proc[r].done \in SUBSET Fill
        /\ proc[r].quantity \in Nat /\ f \in Fill
    BY <1>3 DEF Memory
  <1>6. proc[r].quantity + Signed(f) \in Nat
    BY <1>2, <1>5 DEF Covered, Signed, Fill
  <1>7. /\ Result(q) = "succeeded" /\ proc[r].todo \cap proc[r].done = {}
        /\ proc[r].todo \cup proc[r].done = Unrecorded(q)
    BY <1>1, <1>3, <1>4 DEF HoldsRow, HoldsPosition
  <1>8. TypeOK'
    <2>1. memory \in Memory
      BY <1>4, <1>5, <1>6, MemoryType DEF Outcome
    <2> HIDE DEF memory
    <2>2. proc' \in [Reconcilers -> Memory]
      BY <1>2, <1>3, <2>1 DEF memory
    <2> QED
      BY <1>3, <2>2 DEF IInv, TypeOK, tables, locks, outside
  <1>9. Moved(Inserted(proc[r].done \cup {f})) = Moved(Inserted(proc[r].done)) + Signed(f)
    <2>1. proc[r].done \subseteq q.seen.fills /\ f \in q.seen.fills
      BY <1>7 DEF Unrecorded
    <2>2. IsFiniteSet(proc[r].done)
      BY <1>4, <2>1, FS_Subset
    <2>3. Inserted(proc[r].done) \in SUBSET Fill /\ IsFiniteSet(Inserted(proc[r].done))
      BY <1>5, <2>2, InsertedFacts
    <2>4. Stored(f) \notin Inserted(proc[r].done)
      <3> SUFFICES ASSUME NEW g \in proc[r].done, Stored(f) = Stored(g) PROVE FALSE
        BY DEF Inserted
      <3>1. f.seq = g.seq
        BY <1>5, StoredFacts
      <3>2. f = g
        BY <1>7, <2>1, <3>1, Agreeing
      <3> QED
        BY <1>7, <3>2
    <2>5. Inserted(proc[r].done \cup {f}) = Inserted(proc[r].done) \cup {Stored(f)}
      BY DEF Inserted
    <2>6. Stored(f) \in Fill /\ Signed(Stored(f)) = Signed(f)
      BY <1>5, StoredFacts
    <2>7. PICK A : A = Inserted(proc[r].done)
      OBVIOUS
    <2>8. Moved(A \cup {Stored(f)}) = Moved(A) + Signed(Stored(f))
      BY <2>3, <2>4, <2>6, <2>7, MovedFacts
    <2> QED
      BY <2>5, <2>6, <2>7, <2>8
  <1>10. HoldsKey(r)' /\ HoldsRow(r)' /\ HoldsPosition(r)'
    <2>1. /\ proc'[r].pc = "projecting" /\ proc'[r].req = q /\ proc'[r].result = "succeeded"
          /\ proc'[r].todo = proc[r].todo \ {f} /\ proc'[r].done = proc[r].done \cup {f}
          /\ proc'[r].quantity = proc[r].quantity + Signed(f)
      BY <1>2, <1>3 DEF Doing
    <2>2. Result(q)' = Result(q) /\ Unrecorded(q)' = Unrecorded(q)
      BY <1>3, SameDecision DEF tables
    <2>3. HoldsKey(r)'
      BY <1>1, <1>3, <1>4, <2>1 DEF HoldsKey, Run, tables, locks
    <2>4. HoldsRow(r)'
      BY <1>1, <1>3, <1>4, <1>7, <2>1, <2>2 DEF HoldsRow, locks
    <2>5. HoldsPosition(r)'
      <3>1. proc[r].quantity = position[p] + Moved(Inserted(proc[r].done)) /\ posLock[p] = r
        BY <1>1, <1>3, <1>4 DEF HoldsPosition
      <3>2. position[p] \in Int /\ Signed(f) \in Int
        <4>1. position \in [Positions -> Nat] /\ p \in Positions
          BY <1>1, <1>4, OrderFacts DEF IInv, TypeOK
        <4> QED
          BY <1>5, <4>1, StoredFacts
      <3>3. Moved(Inserted(proc[r].done)) \in Int
        <4>1. IsFiniteSet(proc[r].done)
          BY <1>4, <1>7, FS_Subset DEF Unrecorded
        <4>2. Inserted(proc[r].done) \in SUBSET Fill /\ IsFiniteSet(Inserted(proc[r].done))
          BY <1>5, <4>1, InsertedFacts
        <4> QED
          BY <4>2, MovedFacts
      <3>4. proc'[r].quantity = position[p] + Moved(Inserted(proc'[r].done))
        BY <1>9, <2>1, <3>1, <3>2, <3>3
      <3> QED
        BY <1>1, <1>3, <2>1, <3>1, <3>4 DEF HoldsPosition, locks
    <2> QED
      BY <2>3, <2>4, <2>5
  <1>11. ASSUME NEW s \in Reconcilers, s # r
        PROVE  HoldsKey(s)' /\ HoldsRow(s)' /\ HoldsPosition(s)'
    <2>1. HoldsKey(s) /\ HoldsRow(s) /\ HoldsPosition(s) /\ proc'[s] = proc[s]
      BY <1>2, <1>3, <1>11 DEF IInv, Callers
    <2>2. UNCHANGED <<run, fills, keyLock, position, rowLock, posLock>>
      BY <1>3 DEF tables, locks
    <2> QED
      BY <2>1, <2>2, CallerFrame DEF HoldsKey, HoldsRow, HoldsPosition
  <1>12. Callers'
    BY <1>10, <1>11 DEF Callers
  <1> QED
    BY <1>3, <1>8, <1>12, LedgerFrame, PositionFrame
       DEF IInv, TradesFinite, tables, outside

-----------------------------------------------------------------------------
(* The end of a transaction.                                               *)

\* After the end of r's transaction its locks are free, and those of another
\* caller are as they were.
LEMMA ReleaseFrame ==
    ASSUME TypeOK, NEW r \in Reconcilers, Release(r)
    PROVE  /\ keyLock' \in [Runs -> Reconcilers \cup {None}]
           /\ rowLock' \in [Orders -> Reconcilers \cup {None}]
           /\ posLock' \in [Positions -> Reconcilers \cup {None}]
           /\ proc' \in [Reconcilers -> Memory]
           /\ proc'[r].pc = "idle"
           /\ \A s \in Reconcilers \ {r} :
                /\ proc'[s] = proc[s]
                /\ \A k \in Runs : keyLock[k] = s => keyLock'[k] = s
                /\ \A o \in Orders : rowLock[o] = s => rowLock'[o] = s
                /\ \A p \in Positions : posLock[p] = s => posLock'[p] = s
  BY MemoryType DEF TypeOK, Release, NoProc

\* The other callers keep what they hold when a transaction ends that wrote
\* only under its own key, the fills of the order it locked, and the position
\* it locked.
LEMMA OthersKeep ==
    ASSUME IInv, NEW r \in Reconcilers, Release(r), NEW q, q = proc[r].req,
           \A k \in Runs : k # <<q.order, q.key>> => run'[k] = run[k],
           run' = run \/ proc[r].pc # "idle",
           \A o \in Orders : o # q.order => fills'[o] = fills[o],
           fills' = fills \/ proc[r].pc \in {"decided", "projecting"},
           \A p \in Positions : p # PositionOf[q.order] => position'[p] = position[p],
           position' = position \/ proc[r].pc = "projecting"
    PROVE  Callers'
  <1>1. TypeOK
    BY DEF IInv
  <1>2. HoldsKey(r)' /\ HoldsRow(r)' /\ HoldsPosition(r)'
    BY <1>1, ReleaseFrame DEF HoldsKey, HoldsRow, HoldsPosition
  <1>3. ASSUME NEW s \in Reconcilers, s # r
        PROVE  HoldsKey(s)' /\ HoldsRow(s)' /\ HoldsPosition(s)'
    <2>1. HoldsKey(s) /\ HoldsRow(s) /\ HoldsPosition(s) /\ proc'[s] = proc[s]
      BY <1>1, <1>3, ReleaseFrame DEF IInv, Callers
    <2>2. HoldsKey(r) /\ HoldsRow(r) /\ HoldsPosition(r)
      BY DEF IInv, Callers
    <2>3. PICK u, k, p : u = proc[s].req /\ k = <<u.order, u.key>> /\ p = PositionOf[u.order]
      OBVIOUS
    <2>4. proc[s].pc # "idle" => keyLock'[k] = s /\ run'[k] = run[k]
      <3> SUFFICES ASSUME proc[s].pc # "idle" PROVE keyLock'[k] = s /\ run'[k] = run[k]
        OBVIOUS
      <3>1. k \in Runs /\ keyLock[k] = s
        BY <2>1, <2>3, OrderFacts DEF HoldsKey
      <3>2. keyLock'[k] = s
        BY <1>1, <1>3, <3>1, ReleaseFrame
      <3>3. run'[k] = run[k]
        BY <1>3, <2>2, <3>1 DEF HoldsKey
      <3> QED
        BY <3>2, <3>3
    <2>5. proc[s].pc \in {"decided", "projecting"} =>
            rowLock'[u.order] = s /\ fills'[u.order] = fills[u.order]
      <3> SUFFICES ASSUME proc[s].pc \in {"decided", "projecting"}
                   PROVE  rowLock'[u.order] = s /\ fills'[u.order] = fills[u.order]
        OBVIOUS
      <3>1. u.order \in Orders /\ rowLock[u.order] = s
        BY <2>1, <2>3, OrderFacts DEF HoldsKey, HoldsRow
      <3>2. rowLock'[u.order] = s
        BY <1>1, <1>3, <3>1, ReleaseFrame
      <3>3. fills'[u.order] = fills[u.order]
        BY <1>3, <2>2, <3>1 DEF HoldsRow
      <3> QED
        BY <3>2, <3>3
    <2>6. proc[s].pc = "projecting" => posLock'[p] = s /\ position'[p] = position[p]
      <3> SUFFICES ASSUME proc[s].pc = "projecting"
                   PROVE  posLock'[p] = s /\ position'[p] = position[p]
        OBVIOUS
      <3>1. p \in Positions /\ posLock[p] = s
        BY <2>1, <2>3, OrderFacts DEF HoldsKey, HoldsPosition
      <3>2. posLock'[p] = s
        BY <1>1, <1>3, <3>1, ReleaseFrame
      <3>3. position'[p] = position[p]
        BY <1>3, <2>2, <3>1 DEF HoldsPosition
      <3> QED
        BY <3>2, <3>3
    <2> QED
      BY <2>1, <2>3, <2>4, <2>5, <2>6, CallerFrame
  <1> QED
    BY <1>2, <1>3 DEF Callers

\* A transaction that ends without having written anything: an application
\* refused, an exception, a database error or the death of its caller.
LEMMA RollbackStep ==
    ASSUME IInv, NEW r \in Reconcilers, Release(r), UNCHANGED <<tables, position, outside>>
    PROVE  IInv'
  <1>1. TypeOK'
    BY ReleaseFrame DEF IInv, TypeOK, tables, outside
  <1>2. Callers'
    BY OthersKeep DEF tables
  <1> QED
    BY <1>1, <1>2, LedgerFrame, PositionFrame DEF IInv, TradesFinite, tables, outside

\* The fills of the order a committing transaction reconciled: the rows of what
\* it inserted are new.
LEMMA CommitFills ==
    ASSUME IInv, NEW r \in Reconcilers, Commit(r), NEW q, q = proc[r].req
    PROVE  /\ HoldsKey(r) /\ HoldsRow(r) /\ HoldsPosition(r)
           /\ q \in Request /\ Run(q).status = "none"
           /\ proc[r].pc \in {"decided", "projecting"} /\ proc[r].todo = {}
           /\ proc[r].result = Result(q)
           /\ proc[r].done = IF Result(q) = "succeeded" THEN Unrecorded(q) ELSE {}
           /\ proc[r].done \in SUBSET q.seen.fills /\ proc[r].done \in SUBSET Fill
           /\ IsFiniteSet(proc[r].done)
           /\ Inserted(proc[r].done) \in SUBSET Fill /\ IsFiniteSet(Inserted(proc[r].done))
           /\ \A g \in fills[q.order], f \in proc[r].done : g.seq # f.seq
           /\ fills' = [fills EXCEPT ![q.order] = @ \cup Inserted(proc[r].done)]
  <1>1. proc[r].pc \in {"decided", "projecting"} /\ proc[r].todo = {}
    BY DEF Commit, Written
  <1>2. HoldsKey(r) /\ HoldsRow(r) /\ HoldsPosition(r)
    BY DEF IInv, Callers
  <1>3. q \in Request /\ IsFiniteSet(q.seen.fills) /\ Run(q).status = "none"
    BY <1>1, <1>2 DEF HoldsKey
  <1>4. /\ proc[r].result = Result(q)
        /\ proc[r].done = IF Result(q) = "succeeded" THEN Unrecorded(q) ELSE {}
    BY <1>1, <1>2 DEF HoldsRow
  <1>5. /\ proc[r].done \in SUBSET q.seen.fills /\ proc[r].done \in SUBSET Fill
        /\ IsFiniteSet(proc[r].done)
    <2>1. proc[r].done \in SUBSET q.seen.fills
      BY <1>4 DEF Unrecorded
    <2> QED
      BY <1>3, <2>1, OrderFacts, FS_Subset
  <1>6. Inserted(proc[r].done) \in SUBSET Fill /\ IsFiniteSet(Inserted(proc[r].done))
    BY <1>5, InsertedFacts
  <1>7. \A g \in fills[q.order], f \in proc[r].done : g.seq # f.seq
    BY <1>4 DEF Unrecorded, Known
  <1>8. fills' = [fills EXCEPT ![q.order] = @ \cup Inserted(proc[r].done)]
    BY DEF Commit, Inserted
  <1> QED
    BY <1>1, <1>2, <1>3, <1>4, <1>5, <1>6, <1>7, <1>8

\* The commit keeps the types.
LEMMA CommitTypes ==
    ASSUME IInv, NEW r \in Reconcilers, Commit(r)
    PROVE  TypeOK'
  <1>1. PICK q : q = proc[r].req
    OBVIOUS
  <1>2. /\ q \in Request /\ q.order \in Orders /\ q.key \in RunKeys /\ <<q.order, q.key>> \in Runs
        /\ q.seen \in Observation /\ PositionOf[q.order] \in Positions
    BY <1>1, CommitFills, OrderFacts
  <1>3. proc \in [Reconcilers -> Memory] /\ proc[r].result \in Outcome /\ proc[r].quantity \in Nat
    BY DEF IInv, TypeOK, Memory
  <1>4. fills' \in [Orders -> SUBSET Fill]
    <2>1. PICK new \in SUBSET Fill : fills' = [fills EXCEPT ![q.order] = @ \cup new]
      BY <1>1, CommitFills
    <2>2. fills \in [Orders -> SUBSET Fill]
      BY DEF IInv, TypeOK
    <2>3. fills[q.order] \cup new \in SUBSET Fill
      BY <1>2, <2>2
    <2> QED
      BY <2>1, <2>2, <2>3
  <1>5. run' \in [Runs -> [status : Outcome, seen : Observation \cup {None}]]
    BY <1>1, <1>2, <1>3 DEF IInv, TypeOK, Commit, RecordRun
  <1>6. position' \in [Positions -> Nat]
    BY <1>1, <1>2, <1>3 DEF IInv, TypeOK, Commit
  <1>7. /\ order' \in [Orders -> {"wait", "done", "outcome_unknown", "reconciled"}]
        /\ intent' \in [Orders -> {"approved", "paper_filled", "outcome_unknown", "reconciled"}]
    BY <1>1, <1>2 DEF IInv, TypeOK, Commit, RecordOutcome
  <1>8. events' \subseteq [order : Orders, key : RunKeys, type : Outcome]
    BY <1>1, <1>2, <1>3 DEF IInv, TypeOK, Commit, RecordEvent
  <1>9. applied' \in [RunKeys -> Orders \cup {None, Elsewhere}]
    BY <1>1, <1>2 DEF IInv, TypeOK, Commit, RecordApplication
  <1>10. /\ keyLock' \in [Runs -> Reconcilers \cup {None}]
         /\ rowLock' \in [Orders -> Reconcilers \cup {None}]
         /\ posLock' \in [Positions -> Reconcilers \cup {None}]
         /\ proc' \in [Reconcilers -> Memory]
    BY ReleaseFrame DEF IInv, Commit
  <1>11. UNCHANGED outside
    BY DEF Commit
  <1> QED
    BY <1>4, <1>5, <1>6, <1>7, <1>8, <1>9, <1>10, <1>11 DEF IInv, TypeOK, outside

\* The commit keeps the ledger explained: a run is added under a key that had
\* none, and the fills of a succeeded one are all in the ledger now.
LEMMA CommitLedger ==
    ASSUME IInv, NEW r \in Reconcilers, Commit(r)
    PROVE  LedgerRows' /\ LedgerExplained'
  <1>1. PICK q, new : q = proc[r].req /\ new = Inserted(proc[r].done)
    OBVIOUS
  <1>2. /\ q.order \in Orders /\ q.key \in RunKeys /\ <<q.order, q.key>> \in Runs
        /\ fills \in [Orders -> SUBSET Fill]
        /\ run \in [Runs -> [status : Outcome, seen : Observation \cup {None}]]
    BY <1>1, CommitFills, OrderFacts DEF IInv, TypeOK
  <1>3. /\ fills'[q.order] = fills[q.order] \cup new
        /\ \A o \in Orders \ {q.order} : fills'[o] = fills[o]
    <2>1. fills' = [fills EXCEPT ![q.order] = @ \cup new]
      BY <1>1, CommitFills
    <2> QED
      BY <1>2, <2>1
  <1>4. /\ run'[<<q.order, q.key>>] = [status |-> Result(q), seen |-> q.seen]
        /\ \A k \in Runs \ {<<q.order, q.key>>} : run'[k] = run[k]
        /\ run[<<q.order, q.key>>].status = "none"
    <2>1. run' = [run EXCEPT ![<<q.order, q.key>>] = [status |-> proc[r].result, seen |-> q.seen]]
      BY <1>1 DEF Commit, RecordRun
    <2>2. proc[r].result = Result(q) /\ Run(q).status = "none"
      BY <1>1, CommitFills
    <2> QED
      BY <1>2, <2>1, <2>2 DEF Run
  <1>5. \A g \in new : \E f \in proc[r].done : g = Stored(f) /\ g.seq = f.seq /\ Stored(g) = g
    <2>1. proc[r].done \in SUBSET Fill
      BY <1>1, CommitFills
    <2> QED
      BY <1>1, <2>1, StoredFacts DEF Inserted
  <1>6. LedgerRows'
    <2> SUFFICES ASSUME NEW o \in Orders
                 PROVE  /\ IsFiniteSet(fills'[o]) /\ Recorded[o] \subseteq fills'[o]
                        /\ \A f \in fills'[o] : Stored(f) = f
                        /\ \A f, g \in fills'[o] : f.seq = g.seq => f = g
      BY DEF LedgerRows
    <2>1. /\ IsFiniteSet(fills[o]) /\ Recorded[o] \subseteq fills[o]
          /\ \A f \in fills[o] : Stored(f) = f
          /\ \A f, g \in fills[o] : f.seq = g.seq => f = g
      BY DEF IInv, LedgerRows
    <2>2. CASE o # q.order
      BY <1>3, <2>1, <2>2
    <2>3. CASE o = q.order
      <3>1. fills'[o] = fills[o] \cup new /\ IsFiniteSet(new)
        BY <1>1, <1>3, <2>3, CommitFills
      <3>2. IsFiniteSet(fills'[o]) /\ Recorded[o] \subseteq fills'[o]
        <4>1. PICK A : A = fills[o]
          OBVIOUS
        <4>2. IsFiniteSet(A \cup new)
          BY <2>1, <3>1, <4>1, FS_Union
        <4> QED
          BY <2>1, <3>1, <4>1, <4>2
      <3>3. \A f \in fills'[o] : Stored(f) = f
        BY <1>5, <2>1, <3>1
      <3>4. \A f \in fills[o], g \in new : f.seq # g.seq
        <4>1. \A g \in fills[q.order], f \in proc[r].done : g.seq # f.seq
          BY <1>1, CommitFills
        <4> QED
          BY <1>5, <2>3, <4>1
      <3>5. ASSUME NEW f \in new, NEW g \in new, f.seq = g.seq PROVE f = g
        <4>1. PICK x \in proc[r].done : f = Stored(x) /\ f.seq = x.seq
          BY <1>5
        <4>2. PICK y \in proc[r].done : g = Stored(y) /\ g.seq = y.seq
          BY <1>5
        <4>3. Result(q) = "succeeded"
          BY <1>1, <4>1, CommitFills
        <4>4. x \in q.seen.fills /\ y \in q.seen.fills
          BY <1>1, CommitFills
        <4>5. x = y
          BY <3>5, <4>1, <4>2, <4>3, <4>4, Agreeing
        <4> QED
          BY <4>1, <4>2, <4>5
      <3> QED
        BY <2>1, <3>1, <3>2, <3>3, <3>4, <3>5
    <2> QED
      BY <2>2, <2>3
  <1>7. ASSUME NEW o \in Orders, NEW f
        PROVE  f \in Observed(o)' <=>
                 \/ f \in Observed(o)
                 \/ (o = q.order /\ Result(q) = "succeeded" /\ f \in q.seen.fills)
    <2>1. f \in Observed(o)' <=>
            \E k \in RunKeys : run'[<<o, k>>].status = "succeeded" /\ f \in run'[<<o, k>>].seen.fills
      BY DEF Observed
    <2>2. f \in Observed(o) <=>
            \E k \in RunKeys : run[<<o, k>>].status = "succeeded" /\ f \in run[<<o, k>>].seen.fills
      BY ObservedBy
    <2>3. \A k \in RunKeys : <<o, k>> \in Runs
      BY DEF Runs
    <2>4. CASE o # q.order
      <3>1. \A k \in RunKeys : run'[<<o, k>>] = run[<<o, k>>]
        BY <1>4, <2>3, <2>4
      <3> QED
        BY <2>1, <2>2, <2>4, <3>1
    <2>5. CASE o = q.order
      <3>1. \A k \in RunKeys \ {q.key} : run'[<<o, k>>] = run[<<o, k>>]
        BY <1>4, <2>3, <2>5
      <3>2. run'[<<o, q.key>>] = [status |-> Result(q), seen |-> q.seen]
        BY <1>4, <2>5
      <3>3. run[<<o, q.key>>].status = "none"
        BY <1>4, <2>5
      <3> DEFINE Saw(k) == run[<<o, k>>].status = "succeeded" /\ f \in run[<<o, k>>].seen.fills
                 Sees(k) == run'[<<o, k>>].status = "succeeded" /\ f \in run'[<<o, k>>].seen.fills
      <3>4. \A k \in RunKeys \ {q.key} : Sees(k) <=> Saw(k)
        BY <3>1
      <3>5. ~Saw(q.key)
        BY <3>3
      <3>6. Sees(q.key) <=> Result(q) = "succeeded" /\ f \in q.seen.fills
        BY <3>2
      <3>7. /\ f \in Observed(o)' <=> \E k \in RunKeys : Sees(k)
            /\ f \in Observed(o) <=> \E k \in RunKeys : Saw(k)
        BY <2>1, <2>2
      <3> HIDE DEF Saw, Sees
      <3> QED
        BY <1>2, <2>5, <3>4, <3>5, <3>6, <3>7
    <2> QED
      BY <2>4, <2>5
  <1>8. LedgerExplained'
    <2> SUFFICES ASSUME NEW o \in Orders
                 PROVE  /\ {Stored(f) : f \in Observed(o)'} \subseteq fills'[o]
                        /\ fills'[o] \subseteq {Stored(f) : f \in Observed(o)'} \cup Recorded[o]
      BY DEF LedgerExplained
    <2>1. /\ {Stored(f) : f \in Observed(o)} \subseteq fills[o]
          /\ fills[o] \subseteq {Stored(f) : f \in Observed(o)} \cup Recorded[o]
      BY DEF IInv, LedgerExplained
    <2>2. fills[o] \subseteq fills'[o] /\ Observed(o) \subseteq Observed(o)'
      BY <1>3, <1>7
    <2>3. ASSUME NEW f \in Observed(o)' PROVE Stored(f) \in fills'[o]
      <3>1. CASE f \in Observed(o)
        BY <2>1, <2>2, <3>1
      <3>2. CASE o = q.order /\ Result(q) = "succeeded" /\ f \in q.seen.fills
        <4>1. CASE Known(q.order, f)
          <5>1. f \in fills[o]
            BY <3>2, <4>1, Agreeing
          <5>2. Stored(f) = f
            BY <5>1 DEF IInv, LedgerRows
          <5> QED
            BY <2>2, <5>1, <5>2
        <4>2. CASE ~Known(q.order, f)
          <5>1. f \in proc[r].done
            <6>1. proc[r].done = IF Result(q) = "succeeded" THEN Unrecorded(q) ELSE {}
              BY <1>1, CommitFills
            <6> QED
              BY <3>2, <4>2, <6>1 DEF Unrecorded
          <5> QED
            BY <1>1, <1>3, <3>2, <5>1 DEF Inserted
        <4> QED
          BY <4>1, <4>2
      <3> QED
        BY <1>7, <2>3, <3>1, <3>2
    <2>4. ASSUME NEW g \in fills'[o] PROVE g \in {Stored(f) : f \in Observed(o)'} \cup Recorded[o]
      <3>1. CASE g \in fills[o]
        BY <2>1, <2>2, <3>1
      <3>2. CASE g \notin fills[o]
        <4>1. o = q.order /\ g \in new
          BY <1>3, <2>4, <3>2
        <4>2. PICK f \in proc[r].done : g = Stored(f)
          BY <1>5, <4>1
        <4>3. Result(q) = "succeeded" /\ f \in q.seen.fills
          BY <1>1, <4>2, CommitFills
        <4>4. f \in Observed(o)'
          BY <1>7, <4>1, <4>3
        <4> QED
          BY <4>2, <4>4
      <3> QED
        BY <3>1, <3>2
    <2> QED
      BY <2>3, <2>4
  <1> QED
    BY <1>6, <1>8

\* What reconciliation added to an order, added up.
LEMMA AddedFacts ==
    ASSUME IInv, NEW o \in Orders
    PROVE  /\ Added(o) \in SUBSET Fill /\ IsFiniteSet(Added(o))
           /\ Recorded[o] \subseteq fills[o] /\ Moved(Added(o)) \in Int
  <1>1. IsFiniteSet(fills[o]) /\ Recorded[o] \subseteq fills[o] /\ fills[o] \in SUBSET Fill
    BY DEF IInv, TypeOK, LedgerRows
  <1>2. Added(o) \in SUBSET Fill /\ IsFiniteSet(Added(o))
    BY <1>1, FS_Subset DEF Added
  <1> QED
    BY <1>1, <1>2, MovedFacts

\* The commit moves the position by what it adds to the fills of the order.
LEMMA CommitPosition ==
    ASSUME IInv, NEW r \in Reconcilers, Commit(r)
    PROVE  PositionMatchesFills'
  <1>1. PICK q, new, at : /\ q = proc[r].req /\ new = Inserted(proc[r].done)
                          /\ at = PositionOf[q.order]
    OBVIOUS
  <1> DEFINE was == [o \in Orders |-> Moved(Added(o))]
             is == [o \in Orders |-> Moved(Added(o)')]
  <1>2. /\ q.order \in Orders /\ at \in Positions
        /\ fills \in [Orders -> SUBSET Fill] /\ position \in [Positions -> Nat]
        /\ paper \in [Positions -> Int] /\ paper' = paper /\ Opening \in [Positions -> Nat]
    BY <1>1, CommitFills, OrderFacts, ReconciliationConstants DEF IInv, TypeOK, Commit, outside
  <1>3. /\ fills'[q.order] = fills[q.order] \cup new
        /\ \A o \in Orders \ {q.order} : fills'[o] = fills[o]
        /\ new \in SUBSET Fill /\ IsFiniteSet(new)
    <2>1. /\ fills' = [fills EXCEPT ![q.order] = @ \cup new]
          /\ new \in SUBSET Fill /\ IsFiniteSet(new)
      BY <1>1, CommitFills
    <2> QED
      BY <1>2, <2>1
  <1>4. new \cap fills[q.order] = {}
    <2>1. \A g \in new : \E f \in proc[r].done : g.seq = f.seq
      <3>1. proc[r].done \in SUBSET Fill
        BY <1>1, CommitFills
      <3> QED
        BY <1>1, <3>1, StoredFacts DEF Inserted
    <2>2. \A g \in fills[q.order], f \in proc[r].done : g.seq # f.seq
      BY <1>1, CommitFills
    <2> QED
      BY <2>1, <2>2
  <1>5. \A o \in Orders : /\ Added(o) \in SUBSET Fill /\ IsFiniteSet(Added(o))
                          /\ Recorded[o] \subseteq fills[o] /\ Moved(Added(o)) \in Int
    BY AddedFacts
  <1>6. Moved(Added(q.order)') = Moved(Added(q.order)) + Moved(new) /\ Moved(new) \in Int
    <2>1. Added(q.order)' = Added(q.order) \cup new /\ Added(q.order) \cap new = {}
      BY <1>2, <1>3, <1>4, <1>5 DEF Added
    <2>2. PICK A : A = Added(q.order)
      OBVIOUS
    <2>3. A \in SUBSET Fill /\ IsFiniteSet(A)
      BY <1>2, <1>5, <2>2
    <2>4. Moved(A \cup new) = Moved(A) + Moved(new)
      BY <1>3, <2>1, <2>2, <2>3, MovedFacts
    <2> QED
      BY <1>3, <2>1, <2>2, <2>4, MovedFacts
  <1>7. /\ \A o \in Orders : was[o] \in Int /\ is[o] \in Int
        /\ \A o \in Orders \ {q.order} : is[o] = was[o]
        /\ is[q.order] = was[q.order] + Moved(new)
    <2>1. \A o \in Orders \ {q.order} : Moved(Added(o)') = Moved(Added(o))
      BY <1>3 DEF Added
    <2>2. \A o \in Orders : Moved(Added(o)') \in Int
      BY <1>2, <1>5, <1>6, <2>1
    <2> QED
      BY <1>2, <1>5, <1>6, <2>1, <2>2
  <1>8. position'[at] = position[at] + Moved(new)
    <2>1. CASE proc[r].pc = "projecting"
      <3>1. proc[r].quantity = position[at] + Moved(new)
        BY <1>1, <2>1, CommitFills DEF HoldsPosition
      <3>2. position' = [position EXCEPT ![at] = proc[r].quantity]
        BY <1>1, <2>1 DEF Commit
      <3> QED
        BY <1>2, <3>1, <3>2
    <2>2. CASE proc[r].pc # "projecting"
      <3>1. proc[r].done = {} /\ position' = position
        BY <1>1, <2>2, CommitFills DEF HoldsRow, Commit
      <3>2. Moved(new) = 0
        BY <1>1, <3>1, SumEmpty DEF Inserted, Moved
      <3>3. position[at] = position[at] + 0
        BY <1>2
      <3> QED
        BY <3>1, <3>2, <3>3
    <2> QED
      BY <2>1, <2>2
  <1>9. \A p \in Positions \ {at} : position'[p] = position[p]
    BY <1>1, <1>2 DEF Commit
  <1>10. ASSUME NEW p \in Positions
         PROVE  position'[p] = Opening[p] + paper'[p] + SumFunctionOnSet(is, On(p))
    <2>1. position[p] = Opening[p] + paper[p] + SumFunctionOnSet(was, On(p))
      BY DEF IInv, PositionMatchesFills
    <2>2. IsFiniteSet(On(p)) /\ On(p) \subseteq Orders
      BY FinitelyMany, FS_Subset DEF On
    <2>3. /\ position[p] \in Int /\ Opening[p] \in Int /\ paper[p] \in Int
          /\ paper'[p] = paper[p] /\ Moved(new) \in Int
      BY <1>2, <1>6
    <2> HIDE DEF was, is
    <2>4. SumFunctionOnSet(was, On(p)) \in Int
      BY <1>7, <2>2, SumType
    <2>5. CASE p = at
      <3>1. q.order \in On(p)
        BY <1>1, <1>2, <2>5 DEF On
      <3>2. SumFunctionOnSet(is, On(p)) = SumFunctionOnSet(was, On(p)) + (is[q.order] - was[q.order])
        <4>1. \A y \in On(p) : was[y] \in Int /\ is[y] \in Int
          BY <1>7, <2>2
        <4>2. \A y \in On(p) \ {q.order} : is[y] = was[y]
          BY <1>7, <2>2
        <4> QED
          BY <2>2, <3>1, <4>1, <4>2, SumChange
      <3>3. is[q.order] - was[q.order] = Moved(new)
        BY <1>2, <1>7, <2>3
      <3>4. position'[p] = position[p] + Moved(new)
        BY <1>8, <2>5
      <3> QED
        BY <2>1, <2>3, <2>4, <3>2, <3>3, <3>4
    <2>6. CASE p # at
      <3>1. \A y \in On(p) : is[y] = was[y]
        BY <1>1, <1>7, <2>6 DEF On
      <3>2. SumFunctionOnSet(is, On(p)) = SumFunctionOnSet(was, On(p))
        BY <2>2, <3>1, SumSame
      <3>3. position'[p] = position[p]
        BY <1>9, <2>6
      <3> QED
        BY <2>1, <2>3, <3>2, <3>3
    <2> QED
      BY <2>5, <2>6
  <1> QED
    BY <1>10 DEF PositionMatchesFills, Moved

\* The commit keeps the inductive invariant.
LEMMA CommitStep ==
    ASSUME IInv, NEW r \in Reconcilers, Commit(r)
    PROVE  IInv'
  <1>1. PICK q : q = proc[r].req
    OBVIOUS
  <1>2. /\ q \in Request /\ proc[r].pc \in {"decided", "projecting"}
        /\ fills' = [fills EXCEPT ![q.order] = @ \cup Inserted(proc[r].done)]
    BY <1>1, CommitFills
  <1>3. Callers'
    <2>1. /\ fills \in [Orders -> SUBSET Fill] /\ position \in [Positions -> Nat]
          /\ run \in [Runs -> [status : Outcome, seen : Observation \cup {None}]]
      BY DEF IInv, TypeOK
    <2>2. Release(r)
      BY DEF Commit
    <2>3. \A k \in Runs : k # <<q.order, q.key>> => run'[k] = run[k]
      BY <1>1, <2>1 DEF Commit, RecordRun
    <2>4. \A o \in Orders : o # q.order => fills'[o] = fills[o]
      BY <1>2, <2>1
    <2>5. \A p \in Positions : p # PositionOf[q.order] => position'[p] = position[p]
      BY <1>1, <2>1 DEF Commit
    <2>6. position' = position \/ proc[r].pc = "projecting"
      BY DEF Commit
    <2> QED
      BY <1>1, <1>2, <2>2, <2>3, <2>4, <2>5, <2>6, OthersKeep
  <1>4. TradesFinite'
    BY DEF IInv, TradesFinite, Commit, outside
  <1> QED
    BY <1>3, <1>4, CommitTypes, CommitLedger, CommitPosition DEF IInv

-----------------------------------------------------------------------------
(* Calls, the exchange and the paper workers.                              *)

\* What the adapters are handed can be applied: it is well formed, and its
\* fills are finitely many.
LEMMA SnapshotStep ==
    ASSUME IInv, NEW o \in Exchanged, NEW p \in Answers(o) \cup Strays, Passes(o, p),
           NEW key \in RunKeys
    PROVE  Acceptable(Adapted(o, key, p))
  <1>1. /\ exchange[o].state \in {"wait", "trade"} \cup TerminalStates
        /\ exchange[o].trades \in SUBSET Market /\ exchange[o].paid \in Nat
    BY DEF IInv, TypeOK
  <1>2. IsFiniteSet(exchange[o].trades)
    BY DEF IInv, TradesFinite
  <1>3. Answers(o) \subseteq OrderReport
    BY <1>1, <1>2, AnswersType
  <1>4. p \in OrderReport /\ o \in Orders
    BY <1>3, ReconciliationConstants
  <1> QED
    BY <1>4, AdaptedType DEF Acceptable

\* A step that changes nothing keeps the inductive invariant.
LEMMA StutterStep ==
    ASSUME IInv, UNCHANGED vars
    PROVE  IInv'
  <1>1. UNCHANGED <<tables, position, locks, proc, outside>>
    BY DEF vars
  <1>2. TypeOK'
    BY <1>1 DEF IInv, TypeOK, tables, locks, outside
  <1>3. Callers'
    <2> SUFFICES ASSUME NEW s \in Reconcilers
                 PROVE  HoldsKey(s)' /\ HoldsRow(s)' /\ HoldsPosition(s)'
      BY DEF Callers
    <2>1. HoldsKey(s) /\ HoldsRow(s) /\ HoldsPosition(s)
      BY DEF IInv, Callers
    <2>2. UNCHANGED <<proc, run, fills, keyLock, position, rowLock, posLock>>
      BY <1>1 DEF tables, locks
    <2> QED
      BY <2>1, <2>2, CallerFrame DEF HoldsKey, HoldsRow, HoldsPosition
  <1> QED
    BY <1>1, <1>2, <1>3, LedgerFrame, PositionFrame DEF IInv, TradesFinite, tables, outside

\* A call begins a transaction or leaves everything as it is.
LEMMA CallStep ==
    ASSUME IInv, NEW r \in Reconcilers, Call(r)
    PROVE  IInv'
  <1>1. CASE UNCHANGED vars
    BY <1>1, StutterStep
  <1>2. ASSUME NEW q \in DirectRequests, Begin(r, q) PROVE IInv'
    <2>1. Acceptable(q)
      BY ReconciliationConstants, FinitelyMany DEF Acceptable
    <2> QED
      BY <1>2, <2>1, BeginStep
  <1>3. ASSUME NEW o \in Exchanged, NEW p \in Answers(o) \cup Strays, Passes(o, p),
               NEW key \in RunKeys, Begin(r, Adapted(o, key, p))
        PROVE  IInv'
    <2>1. PICK q : q = Adapted(o, key, p)
      OBVIOUS
    <2>2. Acceptable(q)
      BY <1>3, <2>1, SnapshotStep
    <2> QED
      BY <1>3, <2>1, <2>2, BeginStep
  <1> QED
    BY <1>1, <1>2, <1>3 DEF Call, Answer, ApplySnapshot, ObserveSnapshot

\* The exchange's own steps touch its orders only.
LEMMA ExchangeStep ==
    ASSUME IInv,
           \/ \E o \in Exchanged : \E t \in Market : Trade(o, t)
           \/ \E o \in Exchanged : \E state \in Endings : Finish(o, state)
    PROVE  IInv'
  <1>1. UNCHANGED <<tables, position, locks, proc, paper, papers>>
    BY DEF Trade, Finish
  <1>2. /\ exchange \in [Exchanged -> [state : {"wait", "trade"} \cup TerminalStates,
                                       trades : SUBSET Market, paid : Nat]]
        /\ \A o \in Exchanged : IsFiniteSet(exchange[o].trades)
    BY DEF IInv, TypeOK, TradesFinite
  <1>3. /\ exchange' \in [Exchanged -> [state : {"wait", "trade"} \cup TerminalStates,
                                        trades : SUBSET Market, paid : Nat]]
        /\ \A o \in Exchanged : IsFiniteSet(exchange'[o].trades)
    <2>1. ASSUME NEW o \in Exchanged, NEW t \in Market, Trade(o, t) PROVE <1>3!:
      <3>1. PICK T : T = exchange[o].trades
        OBVIOUS
      <3>2. IsFiniteSet(T \cup {t}) /\ T \cup {t} \in SUBSET Market
        BY <1>2, <3>1, FS_AddElement
      <3>3. exchange[o].paid + TradeFee \in Nat
        BY <1>2, ReconciliationConstants
      <3>4. exchange' = [exchange EXCEPT ![o] =
              [state |-> "trade", trades |-> T \cup {t}, paid |-> exchange[o].paid + TradeFee]]
        BY <2>1, <3>1 DEF Trade
      <3> QED
        BY <1>2, <3>2, <3>3, <3>4
    <2>2. ASSUME NEW o \in Exchanged, NEW state \in Endings, Finish(o, state) PROVE <1>3!:
      <3>1. state \in TerminalStates
        BY ReconciliationConstants
      <3>2. exchange' = [exchange EXCEPT ![o].state = state]
        BY <2>2 DEF Finish
      <3> QED
        BY <1>2, <3>1, <3>2
    <2> QED
      BY <2>1, <2>2
  <1>4. TypeOK'
    BY <1>1, <1>3 DEF IInv, TypeOK, tables, locks
  <1>5. Callers'
    <2> SUFFICES ASSUME NEW s \in Reconcilers
                 PROVE  HoldsKey(s)' /\ HoldsRow(s)' /\ HoldsPosition(s)'
      BY DEF Callers
    <2>1. HoldsKey(s) /\ HoldsRow(s) /\ HoldsPosition(s)
      BY DEF IInv, Callers
    <2>2. UNCHANGED <<proc, run, fills, keyLock, position, rowLock, posLock>>
      BY <1>1 DEF tables, locks
    <2> QED
      BY <2>1, <2>2, CallerFrame DEF HoldsKey, HoldsRow, HoldsPosition
  <1> QED
    BY <1>1, <1>3, <1>4, <1>5, LedgerFrame, PositionFrame DEF IInv, TradesFinite, tables

\* A paper fill moves a position no transaction has locked.
LEMMA PaperStep ==
    ASSUME IInv, NEW p \in Positions, NEW move \in PaperMoves, PaperFill(p, move)
    PROVE  IInv'
  <1>1. /\ position \in [Positions -> Nat] /\ paper \in [Positions -> Int]
        /\ papers \in 0..MaxPaperFills /\ MaxPaperFills \in Nat /\ move \in Int
        /\ Opening \in [Positions -> Nat] /\ None \notin Reconcilers
    BY ReconciliationConstants DEF IInv, TypeOK
  <1>2. /\ papers < MaxPaperFills /\ posLock[p] = None /\ position[p] + move >= 0
        /\ position' = [position EXCEPT ![p] = position[p] + move]
        /\ paper' = [paper EXCEPT ![p] = paper[p] + move]
        /\ papers' = papers + 1
        /\ UNCHANGED <<tables, locks, proc, exchange>>
    BY DEF PaperFill
  <1>3. TypeOK'
    <2>1. position' \in [Positions -> Nat]
      BY <1>1, <1>2
    <2>2. paper' \in [Positions -> Int]
      BY <1>1, <1>2
    <2>3. papers' \in 0..MaxPaperFills
      BY <1>1, <1>2
    <2> QED
      BY <1>2, <2>1, <2>2, <2>3 DEF IInv, TypeOK, tables, locks
  <1>4. Callers'
    <2> SUFFICES ASSUME NEW s \in Reconcilers
                 PROVE  HoldsKey(s)' /\ HoldsRow(s)' /\ HoldsPosition(s)'
      BY DEF Callers
    <2>1. HoldsKey(s) /\ HoldsRow(s) /\ HoldsPosition(s)
      BY DEF IInv, Callers
    <2>2. UNCHANGED <<proc, run, fills, keyLock, rowLock, posLock>>
      BY <1>2 DEF tables, locks
    <2>3. PICK u, v : u = proc[s].req /\ v = PositionOf[u.order]
      OBVIOUS
    <2>4. proc[s].pc = "projecting" => position'[v] = position[v]
      <3>1. proc[s].pc = "projecting" => v \in Positions /\ posLock[v] = s
        BY <2>1, <2>3, OrderFacts DEF HoldsKey, HoldsPosition
      <3> QED
        BY <1>1, <1>2, <3>1
    <2> QED
      BY <2>1, <2>2, <2>3, <2>4, CallerFrame DEF HoldsKey, HoldsRow, HoldsPosition
  <1>5. PositionMatchesFills'
    <2> SUFFICES ASSUME NEW v \in Positions
                 PROVE  position'[v] = Opening[v] + paper'[v]
                          + SumFunctionOnSet([o \in Orders |-> Moved(Added(o))], On(v))
      BY <1>2 DEF PositionMatchesFills, Added, tables
    <2>1. PICK sum : sum = SumFunctionOnSet([o \in Orders |-> Moved(Added(o))], On(v))
      OBVIOUS
    <2>2. position[v] = Opening[v] + paper[v] + sum
      BY <2>1 DEF IInv, PositionMatchesFills
    <2>3. sum \in Int
      <3> DEFINE moved == [o \in Orders |-> Moved(Added(o))]
      <3>1. \A o \in Orders : moved[o] \in Int
        BY AddedFacts
      <3>2. IsFiniteSet(On(v)) /\ On(v) \subseteq Orders
        BY FinitelyMany, FS_Subset DEF On
      <3> HIDE DEF moved
      <3>3. SumFunctionOnSet(moved, On(v)) \in Int
        BY <3>1, <3>2, SumType
      <3> QED
        BY <2>1, <3>3 DEF moved
    <2>4. /\ v = p => position'[v] = position[v] + move /\ paper'[v] = paper[v] + move
          /\ v # p => position'[v] = position[v] /\ paper'[v] = paper[v]
      BY <1>1, <1>2
    <2>5. position[v] \in Int /\ paper[v] \in Int /\ Opening[v] \in Int
      BY <1>1
    <2>6. position'[v] = Opening[v] + paper'[v] + sum
      BY <1>1, <2>2, <2>3, <2>4, <2>5
    <2> QED
      BY <2>1, <2>6
  <1> QED
    BY <1>2, <1>3, <1>4, <1>5, LedgerFrame DEF IInv, TradesFinite, tables

\* Every step keeps the inductive invariant.
LEMMA NextIInv == IInv /\ [Next]_vars => IInv'
  <1> SUFFICES ASSUME IInv, [Next]_vars PROVE IInv'
    OBVIOUS
  <1>1. ASSUME NEW r \in Reconcilers, Step(r) PROVE IInv'
    <2>1. CASE LockOrder(r)
      BY <2>1, LockOrderStep
    <2>2. CASE LockPosition(r)
      BY <2>2, LockPositionStep
    <2>3. CASE Project(r)
      BY <2>3, ProjectStep
    <2>4. CASE Commit(r)
      BY <2>4, CommitStep
    <2>5. CASE RefuseApplication(r)
      BY <2>5, RollbackStep DEF RefuseApplication
    <2>6. CASE Raise(r)
      BY <2>6, RollbackStep DEF Raise
    <2> QED
      BY <1>1, <2>1, <2>2, <2>3, <2>4, <2>5, <2>6 DEF Step
  <1>2. ASSUME NEW r \in Reconcilers, Rollback(r) PROVE IInv'
    BY <1>2, RollbackStep DEF Rollback
  <1> QED
    BY <1>1, <1>2, CallStep, ExchangeStep, PaperStep, StutterStep DEF Next

-----------------------------------------------------------------------------
(* Theorems.                                                               *)

\* What the callers hold, the rows of the ledger and the sums of the positions
\* stay together in every state of the store.
THEOREM Inductive == Spec => []IInv
  BY InitIInv, NextIInv, PTL DEF Spec

\* The tables, the locks, the callers' memory and the exchange's orders keep
\* their types, and no position becomes negative, for any number of callers,
\* orders, positions, keys and requests.
THEOREM TypeCorrect == Spec => []TypeOK
  <1>1. IInv => TypeOK
    BY DEF IInv
  <1> QED
    BY <1>1, Inductive, PTL

\* A fill sequence of an order is recorded once, whoever reconciles it at the
\* same time, and no fill is ever recorded other than as the column stores it.
THEOREM FillsRecordedOnce == Spec => []LedgerRows
  <1>1. IInv => LedgerRows
    BY DEF IInv
  <1> QED
    BY <1>1, Inductive, PTL

\* The ledger of every order is what its succeeded runs observed and what was
\* recorded at first: a mismatch, an unknown outcome, a refused application or
\* a transaction that failed half way adds nothing (reconcile_exchange_order).
THEOREM LedgerIsExplained == Spec => []LedgerExplained
  <1>1. IInv => LedgerExplained
    BY DEF IInv
  <1> QED
    BY <1>1, Inductive, PTL

\* Every position is its opening quantity, the paper fills and the fills that
\* reconciliation added, whatever callers and paper workers move it at once.
THEOREM PositionIsSumOfFills == Spec => []PositionMatchesFills
  <1>1. IInv => PositionMatchesFills
    BY DEF IInv
  <1> QED
    BY <1>1, Inductive, PTL

-----------------------------------------------------------------------------
(* Answers about one order.                                                *)

\* The trades before a trade in the order of their keys.
Earlier(T, t) == {u \in T : Before(KeyOf(u), KeyOf(t))}

\* Keys of the exchange's trades are four numbers.
LEMMA MarketKeys ==
    ASSUME NEW t \in Market
    PROVE  KeyOf(t) \in Key /\ t \in TradeReport /\ t.at # Absent /\ t.volume \in Nat
  <1>1. t \in TradeReport /\ t.at # Absent
    BY ReconciliationConstants
  <1>2. t.at \in Nat /\ Or(t.uuid, 0) \in Nat /\ t.price \in Nat /\ t.volume \in Nat
    BY <1>1 DEF TradeReport, Optional, Or
  <1>3. \A a, b, c, d \in Nat : <<a, b, c, d>> \in Key
    BY DEF Key
  <1> QED
    BY <1>1, <1>2, <1>3 DEF KeyOf

\* A report that lists the trades of T, each once.
Lists(p, T) ==
    /\ p \in OrderReport
    /\ p.trades \in Injection(DOMAIN p.trades, T)
    /\ T = {p.trades[i] : i \in DOMAIN p.trades}

\* No two trades have as many trades before them.
LEMMA EarlierApart ==
    ASSUME DistinctTrades, NEW T \in SUBSET Market, IsFiniteSet(T),
           NEW t \in T, NEW u \in T, Cardinality(Earlier(T, t)) = Cardinality(Earlier(T, u))
    PROVE  t = u
  <1> DEFINE R == {tu \in T \X T : Before(KeyOf(tu[1]), KeyOf(tu[2]))}
  <1>1. \A x, y \in T : <<x, y>> \in R <=> Before(KeyOf(x), KeyOf(y))
    OBVIOUS
  <1>2. \A x \in T : {y \in T : <<y, x>> \in R} = Earlier(T, x)
    BY <1>1 DEF Earlier
  <1> HIDE DEF R
  <1>3. \A x \in T : KeyOf(x) \in Key
    BY MarketKeys
  <1>4. \A x, y \in T : x # y => KeyOf(x) # KeyOf(y)
    BY DEF DistinctTrades
  <1>5. /\ \A x \in T : <<x, x>> \notin R
        /\ \A x, y, z \in T : <<x, y>> \in R /\ <<y, z>> \in R => <<x, z>> \in R
        /\ \A x, y \in T : x # y => <<x, y>> \in R \/ <<y, x>> \in R
    <2>1. \A a, b, c \in Key :
             /\ ~Before(a, a)
             /\ Before(a, b) /\ Before(b, c) => Before(a, c)
             /\ a # b => Before(a, b) \/ Before(b, a)
      BY BeforeOrders
    <2>2. \A x \in T : <<x, x>> \notin R
      BY <1>1, <1>3, <2>1
    <2>3. ASSUME NEW x \in T, NEW y \in T, NEW z \in T, <<x, y>> \in R, <<y, z>> \in R
          PROVE  <<x, z>> \in R
      <3>1. PICK a, b, c \in Key : a = KeyOf(x) /\ b = KeyOf(y) /\ c = KeyOf(z)
        BY <1>3
      <3>2. Before(a, b) /\ Before(b, c)
        BY <1>1, <2>3, <3>1
      <3>3. Before(a, c)
        BY <2>1, <3>2
      <3> QED
        BY <1>1, <3>1, <3>3
    <2>4. ASSUME NEW x \in T, NEW y \in T, x # y
          PROVE  <<x, y>> \in R \/ <<y, x>> \in R
      <3>1. PICK a, b \in Key : a = KeyOf(x) /\ b = KeyOf(y)
        BY <1>3
      <3>2. a # b
        BY <1>4, <2>4, <3>1
      <3>3. Before(a, b) \/ Before(b, a)
        BY <2>1, <3>2
      <3> QED
        BY <1>1, <3>1, <3>3
    <2> QED
      BY <2>2, <2>3, <2>4
  <1>6. \A x, y \in T : Place(T, R, x) = Place(T, R, y) => x = y
    BY <1>5, RankIsBijection
  <1>7. Place(T, R, t) = Place(T, R, u)
    BY <1>2 DEF Place
  <1> QED
    BY <1>6, <1>7

\* An answer about an order of the exchange has a time for every trade.
LEMMA ListsTimed ==
    ASSUME NEW T \in SUBSET Market, NEW p, Lists(p, T)
    PROVE  /\ Timed(p)
           /\ \A i \in DOMAIN p.trades :
                p.trades[i] \in T /\ SortKey(p, p.trades[i]) = KeyOf(p.trades[i])
  <1>1. ASSUME NEW i \in DOMAIN p.trades
        PROVE  p.trades[i] \in T /\ p.trades[i].at # Absent
    BY MarketKeys DEF Lists
  <1> QED
    BY <1>1 DEF Timed, TradeTime, Or, SortKey, KeyOf

\* The place of a trade in the snapshot does not depend on the answer.
LEMMA RankByKey ==
    ASSUME DistinctTrades, NEW T \in SUBSET Market, IsFiniteSet(T), NEW p, Lists(p, T),
           NEW i \in DOMAIN p.trades
    PROVE  Rank(p, i) = Cardinality(Earlier(T, p.trades[i])) + 1
  <1> DEFINE D == DOMAIN p.trades
             A == {j \in D : Ahead(p, j, i)}
             E == Earlier(T, p.trades[i])
             at == [j \in A |-> p.trades[j]]
  <1>1. /\ \A j \in D : p.trades[j] \in T /\ SortKey(p, p.trades[j]) = KeyOf(p.trades[j])
        /\ \A j, k \in D : p.trades[j] = p.trades[k] => j = k
        /\ \A t \in T : \E j \in D : p.trades[j] = t
    BY ListsTimed DEF Lists, Injection, IsInjective
  <1>2. D = 1..Len(p.trades) /\ Len(p.trades) \in Nat
    BY DEF Lists, OrderReport
  <1>3. ASSUME NEW j \in D
        PROVE  Ahead(p, j, i) <=> Before(KeyOf(p.trades[j]), KeyOf(p.trades[i]))
    <2>1. KeyOf(p.trades[j]) = KeyOf(p.trades[i]) => j = i
      BY <1>1 DEF DistinctTrades
    <2>2. PICK a, b : a = KeyOf(p.trades[j]) /\ b = KeyOf(p.trades[i])
      OBVIOUS
    <2>3. Ahead(p, j, i) <=> Before(a, b) \/ (a = b /\ j < i)
      BY <1>1, <2>2 DEF Ahead
    <2>4. a = b => ~(j < i)
      BY <1>2, <2>1, <2>2
    <2> QED
      BY <2>2, <2>3, <2>4
  <1>4. at \in Bijection(A, E)
    <2>1. \A j \in A : at[j] \in E
      BY <1>1, <1>3 DEF Earlier
    <2>2. \A j, k \in A : at[j] = at[k] => j = k
      BY <1>1
    <2>3. \A t \in E : \E j \in A : at[j] = t
      BY <1>1, <1>3 DEF Earlier
    <2>4. at = [j \in A |-> at[j]]
      OBVIOUS
    <2> HIDE DEF at, A, E
    <2>5. at \in [A -> E]
      BY <2>1, <2>4
    <2> QED
      BY <2>2, <2>3, <2>5 DEF Bijection, Injection, Surjection, IsInjective
  <1>5. IsFiniteSet(D)
    BY <1>2, UpToFinite
  <1>6. IsFiniteSet(A)
    BY <1>5, FS_Subset
  <1>7. Cardinality(E) = Cardinality(A)
    <2> HIDE DEF A, E, at
    <2> QED
      BY <1>4, <1>6, FS_Bijection DEF ExistsBijection
  <1> QED
    BY <1>7 DEF Rank

\* The snapshot's trades are those of the exchange, each once.
LEMMA TradesList ==
    ASSUME NEW T \in SUBSET Market, NEW p, Lists(p, T)
    PROVE  /\ DOMAIN Trades(p) = DOMAIN p.trades
           /\ Trades(p) \in Injection(DOMAIN p.trades, T)
           /\ T = {Trades(p)[n] : n \in DOMAIN p.trades}
  <1> DEFINE D == DOMAIN p.trades
  <1>1. Timed(p) /\ p \in OrderReport
    BY ListsTimed DEF Lists
  <1>2. PICK at : Sorted(p, at)
    BY <1>1, TradesSorted
  <1>3. /\ at \in [D -> D] /\ \A m, n \in D : at[m] = at[n] => m = n
        /\ \A i \in D : \E m \in D : at[m] = i
        /\ Trades(p) = [n \in D |-> p.trades[at[n]]]
    BY <1>2 DEF Sorted, Bijection, Injection, Surjection, IsInjective
  <1>4. /\ \A i \in D : p.trades[i] \in T
        /\ \A i, j \in D : p.trades[i] = p.trades[j] => i = j
        /\ \A t \in T : \E i \in D : p.trades[i] = t
    BY ListsTimed DEF Lists, Injection, IsInjective
  <1> HIDE DEF D
  <1>5. /\ \A n \in D : Trades(p)[n] \in T
        /\ \A m, n \in D : Trades(p)[m] = Trades(p)[n] => m = n
    <2>1. \A n \in D : at[n] \in D /\ Trades(p)[n] = p.trades[at[n]]
      BY <1>3
    <2>2. \A n \in D : Trades(p)[n] \in T
      BY <1>4, <2>1
    <2>3. ASSUME NEW m \in D, NEW n \in D, Trades(p)[m] = Trades(p)[n] PROVE m = n
      <3>1. at[m] = at[n]
        BY <1>4, <2>1, <2>3
      <3> QED
        BY <1>3, <3>1
    <2> QED
      BY <2>2, <2>3
  <1>6. \A t \in T : \E n \in D : Trades(p)[n] = t
    <2> SUFFICES ASSUME NEW t \in T PROVE \E n \in D : Trades(p)[n] = t
      OBVIOUS
    <2>1. PICK i \in D : p.trades[i] = t
      BY <1>4
    <2>2. PICK n \in D : at[n] = i
      BY <1>3
    <2> QED
      BY <1>3, <2>1, <2>2
  <1>7. T = {Trades(p)[n] : n \in D}
    BY <1>5, <1>6
  <1>8. PICK s : s = Trades(p)
    OBVIOUS
  <1>9. s = [n \in D |-> s[n]] /\ DOMAIN s = D
    BY <1>3, <1>8
  <1>10. s \in [D -> T]
    BY <1>5, <1>8, <1>9
  <1>11. s \in Injection(D, T)
    BY <1>5, <1>8, <1>10 DEF Injection, IsInjective
  <1> QED
    BY <1>7, <1>8, <1>9, <1>11 DEF D

\* Two answers about the same trades make the same snapshot.
LEMMA SameTrades ==
    ASSUME DistinctTrades, NEW T \in SUBSET Market, IsFiniteSet(T),
           NEW p, Lists(p, T), NEW q, Lists(q, T)
    PROVE  DOMAIN p.trades = DOMAIN q.trades /\ Trades(p) = Trades(q)
  <1>1. ASSUME NEW r, Lists(r, T)
        PROVE  /\ DOMAIN r.trades = 1..Cardinality(T)
               /\ \A n \in DOMAIN r.trades :
                    Trades(r)[n] \in T /\ Cardinality(Earlier(T, Trades(r)[n])) + 1 = n
    <2>1. Timed(r) /\ r \in OrderReport
      BY <1>1, ListsTimed DEF Lists
    <2>2. PICK at : Sorted(r, at)
      BY <2>1, TradesSorted
    <2> DEFINE D == DOMAIN r.trades
    <2>3. at \in [D -> D] /\ Trades(r) = [n \in D |-> r.trades[at[n]]]
      BY <2>2 DEF Sorted, Bijection, Injection
    <2>4. ASSUME NEW n \in D
          PROVE  Trades(r)[n] \in T /\ Cardinality(Earlier(T, Trades(r)[n])) + 1 = n
      <3>1. at[n] \in D /\ Rank(r, at[n]) = n /\ Trades(r)[n] = r.trades[at[n]]
        BY <2>2, <2>3 DEF Sorted
      <3>2. Rank(r, at[n]) = Cardinality(Earlier(T, r.trades[at[n]])) + 1
        BY <1>1, <3>1, RankByKey
      <3>3. r.trades[at[n]] \in T
        BY <1>1, <3>1, ListsTimed
      <3> QED
        BY <3>1, <3>2, <3>3
    <2>5. D = 1..Len(r.trades) /\ Len(r.trades) \in Nat
      BY <2>1 DEF OrderReport
    <2>6. PICK s : s = r.trades
      OBVIOUS
    <2>7. s \in Bijection(D, T)
      <3>1. s \in Injection(D, T) /\ T = {s[i] : i \in D}
        BY <1>1, <2>6 DEF Lists
      <3>2. \A t \in T : \E i \in D : s[i] = t
        BY <3>1
      <3>3. s \in Surjection(D, T)
        BY <3>1, <3>2 DEF Injection, Surjection
      <3> QED
        BY <3>1, <3>3 DEF Bijection
    <2>8. IsFiniteSet(D) /\ Cardinality(D) = Len(r.trades)
      BY <2>5, FS_Interval
    <2>9. Cardinality(T) = Cardinality(D)
      <3> HIDE DEF D
      <3> QED
        BY <2>7, <2>8, FS_Bijection DEF ExistsBijection
    <2> QED
      BY <2>4, <2>5, <2>8, <2>9
  <1>2. DOMAIN p.trades = DOMAIN q.trades
    BY <1>1
  <1> DEFINE D == DOMAIN p.trades
  <1>3. \A n \in D : Trades(p)[n] = Trades(q)[n]
    <2> SUFFICES ASSUME NEW n \in D PROVE Trades(p)[n] = Trades(q)[n]
      OBVIOUS
    <2>1. PICK t \in T, u \in T : t = Trades(p)[n] /\ u = Trades(q)[n]
      BY <1>1, <1>2
    <2>2. Cardinality(Earlier(T, t)) + 1 = n /\ Cardinality(Earlier(T, u)) + 1 = n
      BY <1>1, <1>2, <2>1
    <2>3. Cardinality(Earlier(T, t)) \in Nat /\ Cardinality(Earlier(T, u)) \in Nat
      <3>1. \A x : Earlier(T, x) \subseteq T
        BY DEF Earlier
      <3>2. IsFiniteSet(Earlier(T, t)) /\ IsFiniteSet(Earlier(T, u))
        BY <3>1, FS_Subset
      <3> QED
        BY <3>2, FS_CardinalityType
    <2>4. t = u
      BY <2>2, <2>3, EarlierApart
    <2> QED
      BY <2>1, <2>4
  <1>4. /\ DOMAIN Trades(p) = D /\ DOMAIN Trades(q) = D
        /\ Trades(p) = [n \in D |-> Trades(p)[n]] /\ Trades(q) = [n \in D |-> Trades(q)[n]]
    <2>1. DOMAIN Trades(p) = D /\ DOMAIN Trades(q) = D
      BY <1>2, TradesList
    <2>2. Trades(p) \in [D -> T] /\ Trades(q) \in [D -> T]
      BY <1>2, TradesList DEF Injection
    <2> QED
      BY <2>1, <2>2
  <1> QED
    BY <1>2, <1>3, <1>4

\* The funds of an order do not depend on the answer.
LEMMA FundsByTrade ==
    ASSUME NEW T \in SUBSET Market, NEW p, Lists(p, T),
           \A i \in DOMAIN p.trades : p.trades[i].funds # Absent
    PROVE  Funds(p) = SumFunctionOnSet([t \in T |-> t.funds], T)
  <1> DEFINE D == DOMAIN p.trades
             e == [i \in D |-> p.trades[i].funds]
             f == [t \in T |-> t.funds]
  <1>1. PICK s : s = p.trades
    OBVIOUS
  <1>2. s \in Injection(D, T) /\ T = {s[i] : i \in D} /\ s \in [D -> T]
    BY <1>1 DEF Lists, Injection
  <1>3. IsFiniteSet(D)
    <2>1. D = 1..Len(p.trades) /\ Len(p.trades) \in Nat
      BY DEF Lists, OrderReport
    <2> QED
      BY <2>1, UpToFinite
  <1>4. \A t \in T : f[t] \in Int
    <2> SUFFICES ASSUME NEW t \in T PROVE t.funds \in Int
      OBVIOUS
    <2>1. PICK i \in D : s[i] = t
      BY <1>2
    <2>2. t \in TradeReport /\ t.funds # Absent
      BY <1>1, <2>1, MarketKeys
    <2> QED
      BY <2>2 DEF TradeReport, Optional
  <1>5. \A i \in D : e[i] = f[s[i]]
    BY <1>1, <1>2
  <1> HIDE DEF e, f, D
  <1>6. SumFunctionOnSet(e, D) = SumFunctionOnSet(f, {s[i] : i \in D})
    BY <1>2, <1>3, <1>4, <1>5, SumImages
  <1> QED
    BY <1>2, <1>6 DEF Funds, e, f, D

\* The order of the exchange has the type TypeOK gives it, and finitely many
\* trades.
IsExchangeOrder(o) ==
    /\ exchange[o].state \in {"wait", "trade"} \cup TerminalStates
    /\ exchange[o].trades \in SUBSET Market
    /\ exchange[o].paid \in Nat
    /\ IsFiniteSet(exchange[o].trades)

\* What the exchange answers, with as many trades as it counts.
LEMMA AnswerFacts ==
    ASSUME NEW o \in Exchanged, IsExchangeOrder(o), NEW p \in Answers(o), CountsTrades(p)
    PROVE  /\ Lists(p, exchange[o].trades)
           /\ p.paid = exchange[o].paid /\ p.side = "bid" /\ p.state = exchange[o].state
  <1> DEFINE T == exchange[o].trades
             n == Cardinality(T)
  <1>1. n \in Nat /\ IsFiniteSet(T) /\ n # Absent
    BY FS_CardinalityType, AbsentIsNoNumber DEF IsExchangeOrder
  <1>2. p \in OrderReport
    BY AnswersType DEF IsExchangeOrder
  <1>3. \E s : /\ s \in SetToSeqs(T) \/ (s = <<>> /\ n = 0)
               /\ p.trades = s
               /\ p.paid = exchange[o].paid /\ p.side = "bid" /\ p.state = exchange[o].state
    <2>1. CASE \E s \in SetToSeqs(T) : p = Payload(o, "GET /v1/order", s)
      <3>1. PICK s \in SetToSeqs(T) : p = Payload(o, "GET /v1/order", s)
        BY <2>1
      <3>2. /\ p.trades = s /\ p.paid = exchange[o].paid
            /\ p.side = "bid" /\ p.state = exchange[o].state
        BY <3>1 DEF Payload
      <3> QED
        BY <3>2
    <2>2. CASE p = Payload(o, "GET /v1/orders/closed", <<>>)
      <3>1. p.trades = <<>> /\ p.count = n
        BY <2>2 DEF Payload
      <3>2. n = 0
        BY <1>1, <3>1 DEF CountsTrades, Or
      <3> QED
        BY <2>2, <3>2 DEF Payload
    <2> QED
      BY <2>1, <2>2 DEF Answers
  <1>4. PICK s : /\ s \in SetToSeqs(T) \/ (s = <<>> /\ n = 0)
                 /\ p.trades = s
                 /\ p.paid = exchange[o].paid /\ p.side = "bid" /\ p.state = exchange[o].state
    BY <1>3
  <1>5. DOMAIN s = 1..n /\ s \in Injection(1..n, T)
    <2>1. CASE s \in SetToSeqs(T)
      BY <2>1 DEF SetToSeqs, Injection, IsInjective
    <2>2. CASE s = <<>> /\ n = 0
      <3>1. DOMAIN s = {} /\ 1..n = {} /\ s = [i \in {} |-> s[i]]
        BY <2>2
      <3> QED
        BY <3>1 DEF Injection, IsInjective
    <2> QED
      BY <1>4, <2>1, <2>2
  <1>6. s \in Surjection(1..n, T)
    <2>1. PICK D : D = 1..n
      OBVIOUS
    <2>2. IsFiniteSet(D) /\ Cardinality(D) = n
      BY <1>1, <2>1, FS_Interval
    <2> HIDE DEF n
    <2>3. s \in Injection(D, T)
      BY <1>5, <2>1
    <2>4. s \in Surjection(D, T)
      BY <1>1, <2>2, <2>3, FS_Injection DEF n
    <2> QED
      BY <2>1, <2>4
  <1>7. T = {s[i] : i \in DOMAIN s}
    BY <1>5, <1>6 DEF Surjection
  <1> QED
    BY <1>2, <1>4, <1>5, <1>7 DEF Lists

\* Whatever answers about an order the adapter is given, they make the same
\* fills: the order of the trades in them does not matter.
LEMMA SameFills ==
    ASSUME DistinctTrades, NEW o \in Exchanged, IsExchangeOrder(o),
           NEW p \in Answers(o), Applicable(p), NEW q \in Answers(o), Applicable(q)
    PROVE  ReconciliationFills(p) = ReconciliationFills(q)
  <1> DEFINE T == exchange[o].trades
             D == DOMAIN p.trades
  <1>1. /\ Lists(p, T) /\ Lists(q, T)
        /\ p.paid = q.paid /\ p.side = q.side
    BY AnswerFacts DEF Applicable, Parses
  <1>2. T \in SUBSET Market /\ IsFiniteSet(T)
    BY DEF IsExchangeOrder
  <1> HIDE DEF T
  <1>3. DOMAIN q.trades = D /\ Trades(p) = Trades(q)
    BY <1>1, <1>2, SameTrades
  <1>4. /\ D = 1..Len(p.trades) /\ Len(p.trades) \in Nat
        /\ DOMAIN q.trades = 1..Len(q.trades) /\ Len(q.trades) \in Nat
    BY <1>1 DEF Lists, OrderReport
  <1>5. Len(p.trades) = Len(q.trades)
    BY <1>3, <1>4
  <1>6. DistributedFees(p) = DistributedFees(q)
    <2>1. CASE Or(p.paid, 0) = 0 \/ Len(p.trades) = 1
      BY <1>1, <1>5, <2>1, FeesByCase
    <2>2. CASE Or(p.paid, 0) # 0 /\ Len(p.trades) # 1
      <3>1. CASE p.trades = <<>>
        <4>1. Len(p.trades) = 0
          BY <3>1
        <4>2. DistributedFees(p) = [i \in {} |-> p] /\ DistributedFees(q) = [i \in {} |-> p]
          <5>1. 1..0 = {}
            OBVIOUS
          <5>2. \A r : Len(r.trades) = 0 /\ Or(r.paid, 0) # 0 =>
                   DistributedFees(r) =
                     [i \in 1..0 |-> IF i = 0 THEN Remainder(r, 0, Share(r)) ELSE Share(r)[i]]
            BY FeesByCase
          <5> QED
            BY <1>1, <1>5, <2>2, <4>1, <5>1, <5>2
        <4> QED
          BY <4>2
      <3>2. CASE p.trades # <<>>
        <4>1. q.trades # <<>>
          BY <1>1, <1>4, <1>5, <3>2 DEF Lists, OrderReport
        <4>2. /\ \A i \in DOMAIN p.trades : p.trades[i].funds # Absent
              /\ \A i \in DOMAIN q.trades : q.trades[i].funds # Absent
          BY <1>1, <1>5, <2>2, <3>2, <4>1 DEF Applicable, Distributes
        <4>3. Funds(p) = Funds(q)
          BY <1>1, <1>2, <4>2, FundsByTrade
        <4>4. Share(p) = Share(q)
          BY <1>1, <1>3, <1>5, <4>3 DEF Share
        <4>5. Remainder(p, Len(p.trades), Share(p)) = Remainder(q, Len(q.trades), Share(q))
          BY <1>1, <1>5, <4>4 DEF Remainder
        <4> QED
          BY <1>1, <1>5, <2>2, <4>4, <4>5, FeesByCase
      <3> QED
        BY <3>1, <3>2
    <2> QED
      BY <2>1, <2>2
  <1>7. \A t : TradeSide(p, t) = TradeSide(q, t)
    BY <1>1 DEF TradeSide
  <1> QED
    BY <1>3, <1>6, <1>7 DEF ReconciliationFills

-----------------------------------------------------------------------------
(* The rows of a snapshot, added up.                                       *)

\* A stored fee is off by half a unit of the table's last digit at most.
LEMMA RoundingError ==
    ASSUME NEW f \in Fill
    PROVE  /\ Stored(f).quantity = f.quantity
           /\ Stored(f).fee \in Int
           /\ 2 * Stored(f).fee - 2 * f.fee <= Scale
           /\ 2 * f.fee - 2 * Stored(f).fee <= Scale
  <1>1. f.fee \in Nat /\ Scale \in Nat \ {0}
    BY ReconciliationConstants DEF Fill
  <1>2. PICK a, b, k, m : /\ a = 2 * f.fee + Scale /\ b = 2 * Scale
                          /\ k = a \div b /\ m = a % b
    OBVIOUS
  <1>3. k \in Nat /\ m \in 0..(b - 1) /\ a = b * k + m
    <2>1. a \in Nat /\ b \in Nat /\ b > 0
      BY <1>1, <1>2
    <2> QED
      BY <1>2, <2>1
  <1>4. Stored(f).fee = Scale * k /\ Stored(f).quantity = f.quantity
    BY <1>2 DEF Stored, Fill
  <1>5. PICK s : s = Scale * k
    OBVIOUS
  <1>6. b * k = 2 * s /\ s \in Nat
    <2>1. \A c, n \in Nat : (2 * c) * n = 2 * (c * n) /\ c * n \in Nat
      OBVIOUS
    <2> QED
      BY <1>1, <1>2, <1>3, <1>5, <2>1
  <1>7. 2 * f.fee + Scale = 2 * s + m /\ m \in 0..(2 * Scale - 1)
    BY <1>2, <1>3, <1>6
  <1>8. 2 * s - 2 * f.fee <= Scale /\ 2 * f.fee - 2 * s <= Scale
    BY <1>1, <1>6, <1>7
  <1> QED
    BY <1>4, <1>5, <1>6, <1>8

\* The fill that a snapshot has under a sequence number.
FillAt(p, i) ==
    [seq |-> i, side |-> TradeSide(p, Trades(p)[i]), quantity |-> Trades(p)[i].volume,
     price |-> Trades(p)[i].price, fee |-> DistributedFees(p)[i]]

\* A snapshot has each sequence number once.
LEMMA FillsBySequence ==
    ASSUME NEW T \in SUBSET Market, NEW p, Lists(p, T)
    PROVE  /\ ReconciliationFills(p) = {FillAt(p, i) : i \in DOMAIN p.trades}
           /\ \A f, g \in ReconciliationFills(p) : f.seq = g.seq => f = g
  <1>1. DOMAIN Trades(p) = DOMAIN p.trades
    BY TradesList
  <1>2. ReconciliationFills(p) = {FillAt(p, i) : i \in DOMAIN p.trades}
    BY <1>1 DEF ReconciliationFills, FillAt
  <1>3. \A i : FillAt(p, i).seq = i
    BY DEF FillAt
  <1> QED
    BY <1>2, <1>3

\* The rows of a snapshot that is passed on add up to the order: its volume
\* exactly, its fee but for the rounding of each row.
LEMMA RowsAddUp ==
    ASSUME NEW o \in Exchanged, IsExchangeOrder(o),
           exchange[o].trades = {} => exchange[o].paid = 0,
           NEW p \in Answers(o), Applicable(p),
           NEW S, S = Inserted(ReconciliationFills(p)), ReconciliationFills(p) \in SUBSET Fill
    PROVE  /\ SumFunctionOnSet([f \in S |-> f.quantity], S) = Volume(exchange[o].trades)
           /\ LET gap == 2 * SumFunctionOnSet([f \in S |-> f.fee], S) - 2 * exchange[o].paid
              IN  gap <= Scale * Cardinality(S) /\ -gap <= Scale * Cardinality(S)
           /\ SumFunctionOnSet([f \in S |-> f.fee], S) \in Int
           /\ Cardinality(S) \in Nat
  <1> DEFINE T == exchange[o].trades
             D == DOMAIN p.trades
             row == [i \in D |-> Stored(FillAt(p, i))]
             fees == DistributedFees(p)
             quantity == [f \in Fill |-> f.quantity]
             fee == [f \in Fill |-> f.fee]
             volume == [t \in T |-> t.volume]
             quantities == [i \in D |-> Trades(p)[i].volume]
             stored == [i \in D |-> row[i].fee]
  <1>1. /\ Lists(p, T) /\ p.paid = exchange[o].paid /\ p \in OrderReport
        /\ T \in SUBSET Market /\ IsFiniteSet(T)
    BY AnswerFacts DEF Applicable, Parses, IsExchangeOrder, Lists
  <1> HIDE DEF T
  <1>2. D = 1..Len(p.trades) /\ Len(p.trades) \in Nat
    BY <1>1 DEF OrderReport
  <1>3. IsFiniteSet(D)
    BY <1>2, UpToFinite
  <1>4. \A i \in D : FillAt(p, i) \in Fill
    BY <1>1, FillsBySequence
  <1>5. S = {row[i] : i \in D}
    <2>1. ReconciliationFills(p) = {FillAt(p, i) : i \in D}
      BY <1>1, FillsBySequence
    <2> QED
      BY <2>1 DEF Inserted
  <1>6. \A i \in D : /\ row[i] \in Fill /\ row[i].seq = i
                     /\ row[i].quantity = quantities[i]
                     /\ row[i].fee \in Int /\ fees[i] \in Int
                     /\ 2 * row[i].fee - 2 * fees[i] <= Scale
                     /\ 2 * fees[i] - 2 * row[i].fee <= Scale
    <2> SUFFICES ASSUME NEW i \in D
                 PROVE  /\ Stored(FillAt(p, i)) \in Fill /\ Stored(FillAt(p, i)).seq = i
                        /\ Stored(FillAt(p, i)).quantity = Trades(p)[i].volume
                        /\ Stored(FillAt(p, i)).fee \in Int /\ fees[i] \in Int
                        /\ 2 * Stored(FillAt(p, i)).fee - 2 * fees[i] <= Scale
                        /\ 2 * fees[i] - 2 * Stored(FillAt(p, i)).fee <= Scale
      OBVIOUS
    <2>1. PICK f \in Fill : f = FillAt(p, i)
      BY <1>4
    <2>2. f.seq = i /\ f.quantity = Trades(p)[i].volume /\ f.fee = fees[i] /\ f.fee \in Int
      BY <2>1 DEF FillAt, Fill
    <2>3. /\ Stored(f) \in Fill /\ Stored(f).seq = f.seq /\ Stored(f).quantity = f.quantity
          /\ Stored(f).fee \in Int
          /\ 2 * Stored(f).fee - 2 * f.fee <= Scale /\ 2 * f.fee - 2 * Stored(f).fee <= Scale
      BY StoredFacts, RoundingError
    <2> HIDE DEF fees
    <2> QED
      BY <2>1, <2>2, <2>3
  <1>7. row \in Injection(D, Fill)
    <2>1. row = [i \in D |-> row[i]]
      OBVIOUS
    <2> HIDE DEF row, D
    <2>2. row \in [D -> Fill] /\ \A i, j \in D : row[i] = row[j] => i = j
      BY <1>6, <2>1
    <2> QED
      BY <2>2 DEF Injection, IsInjective
  <1>8. IsFiniteSet(S) /\ S \in SUBSET Fill /\ Cardinality(S) = Cardinality(D)
    <2> HIDE DEF row, D
    <2>1. IsFiniteSet(S) /\ S \in SUBSET Fill
      BY <1>3, <1>5, <1>6, ImageFinite
    <2>2. row \in Bijection(D, S)
      BY <1>5, <1>7 DEF Bijection, Injection, Surjection, IsInjective
    <2> QED
      BY <1>3, <2>1, <2>2, FS_Bijection DEF ExistsBijection
  <1>9. \A f \in Fill : /\ quantity[f] = f.quantity /\ fee[f] = f.fee
                        /\ quantity[f] \in Int /\ fee[f] \in Int
    BY DEF Fill
  <1>10. \A i \in D : quantities[i] = quantity[row[i]] /\ stored[i] = fee[row[i]]
    BY <1>6, <1>9
  <1>11. /\ SumFunctionOnSet(quantities, D) = SumFunctionOnSet(quantity, S)
         /\ SumFunctionOnSet(stored, D) = SumFunctionOnSet(fee, S)
    <2> HIDE DEF row, quantity, fee, quantities, stored, D
    <2>1. SumFunctionOnSet(quantities, D) = SumFunctionOnSet(quantity, {row[i] : i \in D})
      BY <1>3, <1>7, <1>9, <1>10, SumImages
    <2>2. SumFunctionOnSet(stored, D) = SumFunctionOnSet(fee, {row[i] : i \in D})
      BY <1>3, <1>7, <1>9, <1>10, SumImages
    <2> QED
      BY <1>5, <2>1, <2>2
  <1>12. /\ SumFunctionOnSet(quantity, S) = SumFunctionOnSet([f \in S |-> f.quantity], S)
         /\ SumFunctionOnSet(fee, S) = SumFunctionOnSet([f \in S |-> f.fee], S)
    <2>1. PICK g, h : g = [f \in S |-> f.quantity] /\ h = [f \in S |-> f.fee]
      OBVIOUS
    <2>2. \A f \in S : g[f] = quantity[f] /\ h[f] = fee[f]
      BY <1>8, <1>9, <2>1
    <2> HIDE DEF quantity, fee
    <2>3. /\ SumFunctionOnSet(quantity, S) = SumFunctionOnSet(g, S)
          /\ SumFunctionOnSet(fee, S) = SumFunctionOnSet(h, S)
      BY <1>8, <2>2, SumSame
    <2> QED
      BY <2>1, <2>3
  <1>13. SumFunctionOnSet(quantities, D) = Volume(T)
    <2>1. PICK at : at = Trades(p)
      OBVIOUS
    <2>2. at \in Injection(D, T) /\ T = {at[i] : i \in D} /\ at \in [D -> T]
      <3>1. at \in Injection(D, T) /\ T = {at[i] : i \in D}
        BY <1>1, <2>1, TradesList
      <3> QED
        BY <3>1 DEF Injection
    <2>3. \A t \in T : volume[t] \in Int
      <3> SUFFICES ASSUME NEW t \in T PROVE t.volume \in Int
        OBVIOUS
      <3>1. t.volume \in Nat
        BY <1>1, MarketKeys
      <3> QED
        BY <3>1
    <2>4. \A i \in D : quantities[i] = volume[at[i]]
      BY <2>1, <2>2
    <2> HIDE DEF quantities, volume, D
    <2>5. SumFunctionOnSet(quantities, D) = SumFunctionOnSet(volume, {at[i] : i \in D})
      BY <1>3, <2>2, <2>3, <2>4, SumImages
    <2> QED
      BY <2>2, <2>5 DEF Volume, volume
  <1>14. SumFunctionOnSet(fees, D) = exchange[o].paid
    <2>1. exchange[o].paid \in Nat /\ Or(p.paid, 0) = exchange[o].paid
      BY <1>1, AbsentIsNoNumber DEF Or, IsExchangeOrder
    <2>2. CASE p.trades # <<>>
      <3>1. Sharable(p)
        BY DEF Applicable, Parses, Timed, Sharable
      <3> QED
        BY <1>1, <2>1, <2>2, <3>1, FeesAddUp
    <2>3. CASE p.trades = <<>>
      <3>1. D = {}
        BY <2>3
      <3>2. T = {}
        BY <1>1, <3>1 DEF Lists
      <3>3. SumFunctionOnSet(fees, {}) = 0
        BY SumEmpty
      <3> QED
        BY <3>1, <3>2, <3>3 DEF T
    <2> QED
      BY <2>2, <2>3
  <1>15. LET gap == 2 * SumFunctionOnSet(stored, D) - 2 * SumFunctionOnSet(fees, D)
         IN  gap <= Scale * Cardinality(D) /\ -gap <= Scale * Cardinality(D)
    <2>1. Scale \in Nat
      BY ReconciliationConstants
    <2>2. \A i \in D : /\ stored[i] \in Int /\ fees[i] \in Int
                       /\ 2 * stored[i] - 2 * fees[i] <= Scale
                       /\ 2 * fees[i] - 2 * stored[i] <= Scale
      BY <1>6
    <2> HIDE DEF stored, fees, D
    <2> QED
      BY <1>3, <2>1, <2>2, SumNear
  <1>16. SumFunctionOnSet(stored, D) \in Int
    <2>1. \A i \in D : stored[i] \in Int
      BY <1>6
    <2> HIDE DEF stored, D
    <2> QED
      BY <1>3, <2>1, SumType
  <1> HIDE DEF row, fees, quantity, fee, volume, quantities, stored, D
  <1>17. Cardinality(S) \in Nat
    BY <1>8, FS_CardinalityType
  <1>18. SumFunctionOnSet([f \in S |-> f.fee], S) = SumFunctionOnSet(stored, D)
    BY <1>11, <1>12
  <1> QED
    BY <1>8, <1>11, <1>12, <1>13, <1>14, <1>15, <1>16, <1>17, <1>18 DEF T

-----------------------------------------------------------------------------
(* What reconciliation knows of the exchange's orders.                     *)

\* An observation that was made of an answer of the exchange.
Answered(o, seen) ==
    \E p \in Answers(o) : Passes(o, p) /\ seen = ReconciliationRequest(p)

\* A transaction that may succeed for an order of the exchange, and a run that
\* did, has an answer for its observation; and what was never traded costs
\* nothing.
Sourced ==
    /\ \A r \in Reconcilers :
         /\ proc[r].pc # "idle" /\ proc[r].req.live
         /\ proc[r].req.order \in Exchanged
         => Answered(proc[r].req.order, proc[r].req.seen)
    /\ \A o \in Exchanged, k \in RunKeys :
         run[<<o, k>>].status = "succeeded" => Answered(o, run[<<o, k>>].seen)
    /\ \A o \in Exchanged : exchange[o].trades = {} => exchange[o].paid = 0

\* Why an observation did not match the ledger: it has a sequence twice, or the
\* order has ended and the observation is none of its answers', unless a fee
\* of it is not stored as it is.
Explained(o, seen) ==
    \/ \E f, g \in seen.fills : f # g /\ f.seq = g.seq
    \/ /\ exchange[o].state \in TerminalStates
       /\ \A p \in Answers(o) :
            Applicable(p) /\ seen = ReconciliationRequest(p) =>
                \E f \in seen.fills : Stored(f) # f

MismatchesExplained ==
    \A o \in Exchanged, k \in RunKeys :
        run[<<o, k>>].status = "mismatch" => Explained(o, run[<<o, k>>].seen)

\* The types of an order of the exchange.
LEMMA ExchangeOrders == IInv => \A o \in Exchanged : IsExchangeOrder(o)
  BY DEF IInv, TypeOK, TradesFinite, IsExchangeOrder

\* Only an order that has ended has an answer that is applied.
LEMMA AppliedHasEnded ==
    ASSUME NEW o \in Exchanged, IsExchangeOrder(o), NEW p \in Answers(o), Applicable(p)
    PROVE  exchange[o].state \in TerminalStates
  <1>1. p.state = exchange[o].state
    BY AnswerFacts DEF Applicable, Parses
  <1>2. Applies(p) => p.state \in TerminalStates
    BY DEF Applies, ObservedStatus, TerminalStates
  <1> QED
    BY <1>1, <1>2 DEF Applicable

\* An order that has ended stays as it is, and so do the answers about it.
LEMMA EndedStays ==
    ASSUME TypeOK, [Next]_vars, NEW o \in Exchanged, exchange[o].state \in TerminalStates
    PROVE  exchange'[o] = exchange[o] /\ Answers(o)' = Answers(o)
  <1>1. exchange'[o] = exchange[o]
    <2>1. exchange \in [Exchanged -> [state : {"wait", "trade"} \cup TerminalStates,
                                      trades : SUBSET Market, paid : Nat]]
      BY DEF TypeOK
    <2>2. exchange[o].state \notin {"wait", "trade"}
      BY DEF TerminalStates
    <2>3. CASE \E x \in Exchanged : \E t \in Market : Trade(x, t)
      BY <2>1, <2>2, <2>3 DEF Trade
    <2>4. CASE \E x \in Exchanged : \E state \in Endings : Finish(x, state)
      BY <2>1, <2>2, <2>4 DEF Finish
    <2>5. CASE \E p \in Positions : \E move \in PaperMoves : PaperFill(p, move)
      BY <2>5 DEF PaperFill
    <2>6. CASE UNCHANGED vars
      BY <2>6 DEF vars, outside
    <2>7. ASSUME NEW r \in Reconcilers, Call(r) \/ Step(r) \/ Rollback(r)
          PROVE  exchange' = exchange
      BY <2>7 DEF Call, ApplySnapshot, ObserveSnapshot, Begin, Answer, Step, LockOrder,
                  LockPosition, Project, Commit, RefuseApplication, Raise, Rollback,
                  vars, outside
    <2> QED
      BY <2>3, <2>4, <2>5, <2>6, <2>7 DEF Next
  <1> QED
    BY <1>1 DEF Answers, Payload

\* What was answered stays answered, and an explanation stays one.
LEMMA ReasonsStay ==
    ASSUME IInv, [Next]_vars, NEW o \in Exchanged, NEW seen
    PROVE  /\ Answered(o, seen) => Answered(o, seen)'
           /\ Explained(o, seen) => Explained(o, seen)'
  <1>1. IsExchangeOrder(o) /\ TypeOK
    BY ExchangeOrders DEF IInv
  <1>2. ASSUME Answered(o, seen) PROVE Answered(o, seen)'
    <2>1. PICK p \in Answers(o) : Passes(o, p) /\ seen = ReconciliationRequest(p)
      BY <1>2 DEF Answered
    <2>2. exchange[o].state \in TerminalStates
      BY <1>1, <2>1, AppliedHasEnded DEF Passes
    <2>3. Answers(o)' = Answers(o)
      BY <1>1, <2>2, EndedStays
    <2> QED
      BY <2>1, <2>3 DEF Answered
  <1>3. ASSUME Explained(o, seen) PROVE Explained(o, seen)'
    <2>1. CASE \E f, g \in seen.fills : f # g /\ f.seq = g.seq
      BY <2>1 DEF Explained
    <2>2. CASE ~\E f, g \in seen.fills : f # g /\ f.seq = g.seq
      <3>1. exchange[o].state \in TerminalStates
        BY <1>3, <2>2 DEF Explained
      <3>2. exchange'[o] = exchange[o] /\ Answers(o)' = Answers(o)
        BY <1>1, <3>1, EndedStays
      <3> QED
        BY <1>3, <2>2, <3>2 DEF Explained
    <2> QED
      BY <2>1, <2>2
  <1> QED
    BY <1>2, <1>3

\* A request that is under way was under way, or comes from a caller of the
\* store, or from an adapter that was given a payload.
LEMMA RequestSource ==
    ASSUME TypeOK, [Next]_vars, NEW s \in Reconcilers, proc'[s].pc # "idle"
    PROVE  \/ proc[s].pc # "idle" /\ proc'[s].req = proc[s].req
           \/ proc'[s].req \in DirectRequests
           \/ \E o \in Exchanged : \E p \in Answers(o) \cup Strays :
                /\ Passes(o, p) /\ proc'[s].req.order = o
                /\ proc'[s].req.seen = ReconciliationRequest(p)
  <1>1. proc \in [Reconcilers -> Memory]
    BY DEF TypeOK
  <1>2. CASE proc'[s] = proc[s]
    BY <1>2
  <1>3. ASSUME NEW q, Begin(s, q) PROVE proc'[s].req = q
    BY <1>1, <1>3 DEF Begin, Doing
  <1>4. ASSUME NEW r \in Reconcilers, Call(r)
        PROVE  \/ proc'[s] = proc[s]
               \/ proc'[s].req \in DirectRequests
               \/ \E o \in Exchanged : \E p \in Answers(o) \cup Strays :
                    /\ Passes(o, p) /\ proc'[s].req.order = o
                    /\ proc'[s].req.seen = ReconciliationRequest(p)
    <2>1. CASE proc' = proc
      BY <2>1
    <2>2. CASE proc' # proc
      <3>1. \A q : ~Answer(r, q)
        BY <2>2 DEF Answer, vars
      <3>2. \A o, p : ~ObserveSnapshot(r, o, p)
        BY <2>2 DEF ObserveSnapshot, vars
      <3>3. ASSUME NEW q, Begin(r, q), r # s PROVE proc'[s] = proc[s]
        BY <1>1, <3>3 DEF Begin
      <3>4. CASE \E q \in DirectRequests : Begin(r, q)
        BY <1>3, <3>3, <3>4
      <3>5. CASE \E o \in Exchanged : \E p \in Answers(o) \cup Strays : ApplySnapshot(r, o, p)
        <4>1. PICK o \in Exchanged : \E p \in Answers(o) \cup Strays : ApplySnapshot(r, o, p)
          BY <3>5
        <4>2. PICK p \in Answers(o) \cup Strays : ApplySnapshot(r, o, p)
          BY <4>1
        <4>3. Passes(o, p)
          BY <4>2 DEF ApplySnapshot
        <4>4. PICK key \in RunKeys : Begin(r, Adapted(o, key, p))
          BY <3>1, <4>2 DEF ApplySnapshot
        <4>5. PICK q : q = Adapted(o, key, p)
          OBVIOUS
        <4>6. q.order = o /\ q.seen = ReconciliationRequest(p) /\ Begin(r, q)
          BY <4>4, <4>5 DEF Adapted
        <4> QED
          BY <1>3, <3>3, <4>3, <4>6
      <3> QED
        BY <1>4, <3>1, <3>2, <3>4, <3>5 DEF Call
    <2> QED
      BY <2>1, <2>2
  <1>5. ASSUME NEW r \in Reconcilers, Release(r)
        PROVE  proc'[s] = proc[s]
    BY <1>1, <1>5 DEF Release, NoProc
  <1>6. ASSUME NEW r \in Reconcilers, Step(r) \/ Rollback(r)
        PROVE  \/ proc'[s] = proc[s]
               \/ proc[s].pc # "idle" /\ proc'[s].req = proc[s].req
    <2>1. CASE Release(r)
      BY <1>5, <2>1
    <2>2. CASE LockOrder(r)
      BY <1>1, <2>2 DEF LockOrder, Doing
    <2>3. CASE LockPosition(r)
      BY <1>1, <2>3 DEF LockPosition, Doing
    <2>4. CASE Project(r)
      BY <1>1, <2>4 DEF Project, Doing
    <2> QED
      BY <1>6, <2>1, <2>2, <2>3, <2>4
         DEF Step, Commit, RefuseApplication, Raise, Rollback
  <1>7. CASE proc' = proc
    BY <1>7
  <1>8. (\E r \in Reconcilers : Call(r) \/ Step(r) \/ Rollback(r)) \/ proc' = proc
    BY DEF Next, Trade, Finish, PaperFill, vars
  <1> QED
    BY <1>2, <1>4, <1>6, <1>7, <1>8

\* A run that is new or has changed was committed with a caller's outcome.
LEMMA RunSource ==
    ASSUME TypeOK, [Next]_vars, NEW o \in Orders, NEW k \in RunKeys,
           run'[<<o, k>>] # run[<<o, k>>]
    PROVE  \E r \in Reconcilers :
             /\ Commit(r)
             /\ proc[r].req.order = o /\ proc[r].req.key = k
             /\ run'[<<o, k>>] = [status |-> proc[r].result, seen |-> proc[r].req.seen]
  <1>1. run \in [Runs -> [status : Outcome, seen : Observation \cup {None}]]
    BY DEF TypeOK
  <1>2. PICK r \in Reconcilers : Commit(r)
    <2>1. \A r \in Reconcilers : Call(r) => run' = run
      <3>1. \A r, q : Begin(r, q) \/ Answer(r, q) => run' = run
        BY DEF Begin, Answer, vars, tables
      <3>2. \A r, x, p : ObserveSnapshot(r, x, p) => run' = run
        BY DEF ObserveSnapshot, vars, tables
      <3>3. \A r, x, p : ApplySnapshot(r, x, p) => run' = run
        BY <3>1 DEF ApplySnapshot
      <3> QED
        BY <3>1, <3>2, <3>3 DEF Call
    <2>2. \A r \in Reconcilers : Step(r) \/ Rollback(r) => run' = run \/ Commit(r)
      BY DEF Step, LockOrder, LockPosition, Project, RefuseApplication, Raise, Rollback, tables
    <2>3. CASE \E r \in Reconcilers : Call(r) \/ Step(r) \/ Rollback(r)
      BY <2>1, <2>2, <2>3
    <2>4. CASE run' = run
      BY <2>4
    <2> QED
      BY <2>3, <2>4 DEF Next, Trade, Finish, PaperFill, vars, tables
  <1>3. PICK q : q = proc[r].req
    OBVIOUS
  <1>4. run' = [run EXCEPT ![<<q.order, q.key>>] = [status |-> proc[r].result, seen |-> q.seen]]
    BY <1>2, <1>3 DEF Commit, RecordRun
  <1>5. <<o, k>> \in Runs
    BY DEF Runs
  <1>6. <<o, k>> = <<q.order, q.key>>
    BY <1>1, <1>4, <1>5
  <1>7. run'[<<o, k>>] = [status |-> proc[r].result, seen |-> q.seen]
    BY <1>1, <1>4, <1>5, <1>6
  <1> QED
    BY <1>2, <1>3, <1>6, <1>7

\* The ledger of an order of the exchange: empty before a run succeeded, and
\* then the rows of any answer about the order.
LEMMA LedgerOfOrder ==
    ASSUME DistinctTrades, IInv, Sourced, NEW o \in Exchanged
    PROVE  /\ (~\E k \in RunKeys : run[<<o, k>>].status = "succeeded") => fills[o] = {}
           /\ \A p \in Answers(o) :
                Applicable(p) /\ (\E k \in RunKeys : run[<<o, k>>].status = "succeeded") =>
                    fills[o] = Inserted(ReconciliationFills(p))
  <1>1. IsExchangeOrder(o) /\ o \in Orders /\ Recorded[o] = {}
    BY ExchangeOrders, ReconciliationConstants
  <1>2. fills[o] = Inserted(Observed(o))
    <2>1. {Stored(f) : f \in Observed(o)} \subseteq fills[o]
      BY <1>1 DEF IInv, LedgerExplained
    <2>2. fills[o] \subseteq {Stored(f) : f \in Observed(o)} \cup Recorded[o]
      BY <1>1 DEF IInv, LedgerExplained
    <2> QED
      BY <1>1, <2>1, <2>2 DEF Inserted
  <1>3. (~\E k \in RunKeys : run[<<o, k>>].status = "succeeded") => Observed(o) = {}
    BY ObservedBy
  <1>4. ASSUME NEW p \in Answers(o), Applicable(p),
               NEW k \in RunKeys, run[<<o, k>>].status = "succeeded"
        PROVE  Observed(o) = ReconciliationFills(p)
    <2>1. ASSUME NEW x \in RunKeys, run[<<o, x>>].status = "succeeded"
          PROVE  run[<<o, x>>].seen.fills = ReconciliationFills(p)
      <3>1. PICK q \in Answers(o) : /\ Passes(o, q)
                                    /\ run[<<o, x>>].seen = ReconciliationRequest(q)
        BY <2>1 DEF Sourced, Answered
      <3>2. run[<<o, x>>].seen.fills = ReconciliationFills(q)
        BY <3>1 DEF ReconciliationRequest
      <3>3. Applicable(q)
        BY <3>1 DEF Passes
      <3>4. ReconciliationFills(q) = ReconciliationFills(p)
        BY <1>1, <1>4, <3>3, SameFills
      <3> QED
        BY <3>2, <3>4
    <2>2. PICK A, B : A = Observed(o) /\ B = ReconciliationFills(p)
      OBVIOUS
    <2>3. \A f : f \in A <=> \E x \in RunKeys : /\ run[<<o, x>>].status = "succeeded"
                                               /\ f \in run[<<o, x>>].seen.fills
      BY <2>2, ObservedBy
    <2>4. \A f : f \in A <=> f \in B
      BY <1>4, <2>1, <2>2, <2>3
    <2>5. A = B
      BY <2>4
    <2> QED
      BY <2>2, <2>5
  <1> QED
    BY <1>2, <1>3, <1>4 DEF Inserted

\* An outcome is a mismatch for a reason.
LEMMA MismatchExplained ==
    ASSUME DistinctTrades, IInv, Sourced, NEW q \in Request, q.order \in Exchanged,
           Result(q) = "mismatch"
    PROVE  Explained(q.order, q.seen)
  <1>1. PICK o, F : o = q.order /\ F = q.seen.fills
    OBVIOUS
  <1>2. /\ o \in Exchanged /\ IsExchangeOrder(o) /\ exchange[o].trades \in SUBSET Market
        /\ \E f \in F :
             \/ \E g \in F \ {f} : g.seq = f.seq
             \/ \E g \in fills[o] : g.seq = f.seq /\ g # f
             \/ ~Known(o, f) /\ \E g \in fills[o] : g.seq > f.seq
    BY <1>1, ExchangeOrders DEF Result, Mismatch, SameFill, Late, IsExchangeOrder
  <1>3. CASE \E f, g \in F : f # g /\ f.seq = g.seq
    BY <1>1, <1>3 DEF Explained
  <1>4. CASE ~\E f, g \in F : f # g /\ f.seq = g.seq
    <2>1. fills[o] # {}
      BY <1>2, <1>4
    <2>2. PICK k \in RunKeys : run[<<o, k>>].status = "succeeded"
      BY <1>2, <2>1, LedgerOfOrder
    <2>3. PICK p \in Answers(o) : Passes(o, p)
      BY <1>2, <2>2 DEF Sourced, Answered
    <2>4. exchange[o].state \in TerminalStates
      BY <1>2, <2>3, AppliedHasEnded DEF Passes
    <2>5. ASSUME NEW x \in Answers(o), Applicable(x), q.seen = ReconciliationRequest(x),
                 \A f \in F : Stored(f) = f
          PROVE  FALSE
      <3>1. F = ReconciliationFills(x)
        BY <1>1, <2>5 DEF ReconciliationRequest
      <3>2. fills[o] = Inserted(F)
        BY <1>2, <2>2, <2>5, <3>1, LedgerOfOrder
      <3>3. fills[o] = F
        BY <2>5, <3>2 DEF Inserted
      <3>4. \A f \in F : Known(o, f)
        BY <3>3 DEF Known
      <3> QED
        BY <1>2, <1>4, <3>3, <3>4
    <2> QED
      BY <1>1, <2>4, <2>5 DEF Explained
  <1> QED
    BY <1>3, <1>4

\* The order of the exchange with no trades has cost nothing, after any step.
LEMMA NothingTraded ==
    ASSUME TypeOK, [Next]_vars, NEW o \in Exchanged,
           exchange[o].trades = {} => exchange[o].paid = 0
    PROVE  (exchange[o].trades = {} => exchange[o].paid = 0)'
  <1>1. exchange \in [Exchanged -> [state : {"wait", "trade"} \cup TerminalStates,
                                    trades : SUBSET Market, paid : Nat]]
    BY DEF TypeOK
  <1>2. CASE exchange' = exchange
    BY <1>2
  <1>3. CASE \E x \in Exchanged : \E t \in Market : Trade(x, t)
    BY <1>1, <1>3 DEF Trade
  <1>4. CASE \E x \in Exchanged : \E state \in Endings : Finish(x, state)
    BY <1>1, <1>4 DEF Finish
  <1>5. \A r \in Reconcilers : Step(r) \/ Rollback(r) => exchange' = exchange
    BY DEF Step, LockOrder, LockPosition, Project, Commit, RefuseApplication, Raise,
           Rollback, outside
  <1>6. \A r \in Reconcilers : Call(r) => exchange' = exchange
    <2>1. \A r, q : Begin(r, q) \/ Answer(r, q) => exchange' = exchange
      BY DEF Begin, Answer, vars, outside
    <2>2. \A r, x, p : ObserveSnapshot(r, x, p) => exchange' = exchange
      BY DEF ObserveSnapshot, vars, outside
    <2>3. \A r, x, p : ApplySnapshot(r, x, p) => exchange' = exchange
      BY <2>1 DEF ApplySnapshot
    <2> QED
      BY <2>1, <2>2, <2>3 DEF Call
  <1> QED
    BY <1>2, <1>3, <1>4, <1>5, <1>6 DEF Next, PaperFill, vars, outside

\* Both hold of the first state and after every step.
LEMMA NextSourced ==
    ASSUME DistinctTrades, OnlyAnswers, IInv, Sourced, MismatchesExplained, [Next]_vars
    PROVE  Sourced' /\ MismatchesExplained'
  <1>1. TypeOK /\ Callers
    BY DEF IInv
  <1>2. ASSUME NEW r \in Reconcilers,
               proc'[r].pc # "idle", proc'[r].req.live, proc'[r].req.order \in Exchanged
        PROVE  Answered(proc[r].req.order, proc[r].req.seen)'
    <2>1. CASE proc[r].pc # "idle" /\ proc'[r].req = proc[r].req
      <3>1. Answered(proc[r].req.order, proc[r].req.seen)
        BY <1>2, <2>1 DEF Sourced
      <3>2. PICK q : q = proc[r].req
        OBVIOUS
      <3>3. Answered(q.order, q.seen) /\ q.order \in Exchanged /\ proc'[r].req = q
        BY <1>2, <2>1, <3>1, <3>2
      <3>4. PICK o, seen : o = q.order /\ seen = q.seen /\ o \in Exchanged
        BY <3>3
      <3>5. Answered(o, seen)'
        BY <3>3, <3>4, ReasonsStay
      <3>6. proc'[r].req.order = o /\ proc'[r].req.seen = seen
        BY <3>3, <3>4
      <3> QED
        BY <3>5, <3>6 DEF Answered
    <2>2. CASE proc'[r].req \in DirectRequests
      BY <1>2, <2>2 DEF OnlyAnswers
    <2>3. ASSUME NEW o \in Exchanged, NEW p \in Answers(o) \cup Strays,
                 Passes(o, p), proc'[r].req.order = o,
                 proc'[r].req.seen = ReconciliationRequest(p)
          PROVE  Answered(proc[r].req.order, proc[r].req.seen)'
      <3>1. p \notin Strays
        BY <2>3 DEF OnlyAnswers, Passes, MatchesBinding
      <3>2. PICK seen : seen = ReconciliationRequest(p)
        OBVIOUS
      <3>3. Answered(o, seen)
        BY <2>3, <3>1, <3>2 DEF Answered
      <3>4. Answered(o, seen)'
        BY <3>3, ReasonsStay
      <3> QED
        BY <2>3, <3>2, <3>4 DEF Answered
    <2> QED
      BY <1>1, <1>2, <2>1, <2>2, <2>3, RequestSource
  <1>3. ASSUME NEW o \in Exchanged, NEW k \in RunKeys
        PROVE  /\ run'[<<o, k>>].status = "succeeded" => Answered(o, run[<<o, k>>].seen)'
               /\ run'[<<o, k>>].status = "mismatch" => Explained(o, run[<<o, k>>].seen)'
    <2>1. o \in Orders
      BY ReconciliationConstants
    <2>2. PICK seen : seen = run'[<<o, k>>].seen
      OBVIOUS
    <2>3. /\ run'[<<o, k>>].status = "succeeded" => Answered(o, seen)
          /\ run'[<<o, k>>].status = "mismatch" => Explained(o, seen)
      <3>1. CASE run'[<<o, k>>] = run[<<o, k>>]
        BY <2>2, <3>1 DEF Sourced, MismatchesExplained
      <3>2. CASE run'[<<o, k>>] # run[<<o, k>>]
        <4>1. PICK r \in Reconcilers :
                /\ Commit(r)
                /\ proc[r].req.order = o /\ proc[r].req.key = k
                /\ run'[<<o, k>>] = [status |-> proc[r].result, seen |-> proc[r].req.seen]
          BY <1>1, <2>1, <3>2, RunSource
        <4>2. PICK q : q = proc[r].req
          OBVIOUS
        <4>3. proc[r].pc \in {"decided", "projecting"}
          BY <4>1 DEF Commit, Written
        <4>4. q \in Request /\ proc[r].result = Result(q)
          BY <1>1, <4>2, <4>3 DEF Callers, HoldsKey, HoldsRow
        <4>5. q.order = o /\ q.seen = seen /\ run'[<<o, k>>].status = proc[r].result
          BY <2>2, <4>1, <4>2
        <4>6. CASE proc[r].result = "succeeded"
          <5>1. q.live
            BY <4>1, <4>2, <4>5, <4>6 DEF Commit, ApplicationDone, Live, OnlyAnswers
          <5>2. Answered(o, seen)
            BY <4>2, <4>3, <4>5, <5>1 DEF Sourced
          <5> QED
            BY <4>5, <4>6, <5>2
        <4>7. CASE proc[r].result = "mismatch"
          <5>1. Explained(q.order, q.seen)
            BY <4>4, <4>5, <4>7, MismatchExplained
          <5> QED
            BY <4>5, <4>7, <5>1
        <4>8. CASE proc[r].result \notin {"succeeded", "mismatch"}
          BY <4>5, <4>8
        <4> QED
          BY <4>6, <4>7, <4>8
      <3> QED
        BY <3>1, <3>2
    <2>4. /\ Answered(o, seen) => Answered(o, seen)'
          /\ Explained(o, seen) => Explained(o, seen)'
      BY ReasonsStay
    <2> QED
      BY <2>2, <2>3, <2>4 DEF Answered, Explained
  <1>4. \A o \in Exchanged : (exchange[o].trades = {} => exchange[o].paid = 0)'
    BY <1>1, NothingTraded DEF Sourced
  <1>5. Sourced'
    BY <1>2, <1>3, <1>4 DEF Sourced
  <1>6. MismatchesExplained'
    BY <1>3 DEF MismatchesExplained
  <1> QED
    BY <1>5, <1>6

\* The ledger and the mismatches, from the inductive invariant.
LEMMA MatchesFollow ==
    ASSUME DistinctTrades, IInv, Sourced, MismatchesExplained
    PROVE  LedgerMatchesExchange /\ SnapshotsAgree
  <1>1. ASSUME NEW o \in Exchanged, NEW k \in RunKeys, run[<<o, k>>].status = "succeeded"
        PROVE  LET fee == SumFunctionOnSet([f \in fills[o] |-> f.fee], fills[o])
                   quantity == SumFunctionOnSet([f \in fills[o] |-> f.quantity], fills[o])
                   rounding == Scale * Cardinality(fills[o])
               IN  /\ exchange[o].state \in TerminalStates
                   /\ quantity = Volume(exchange[o].trades)
                   /\ 2 * fee \in (2 * exchange[o].paid - rounding)
                                    ..(2 * exchange[o].paid + rounding)
    <2>1. IsExchangeOrder(o) /\ exchange[o].trades \in SUBSET Market /\ o \in Orders
      BY ExchangeOrders, ReconciliationConstants DEF IsExchangeOrder
    <2>2. PICK p \in Answers(o) : Passes(o, p)
      BY <1>1 DEF Sourced, Answered
    <2>3. Applicable(p) /\ p \in OrderReport
      BY <2>1, <2>2, AnswersType DEF Passes, IsExchangeOrder
    <2>4. PICK S : S = fills[o]
      OBVIOUS
    <2>5. S = Inserted(ReconciliationFills(p))
      BY <1>1, <2>3, <2>4, LedgerOfOrder
    <2>6. ReconciliationFills(p) \in SUBSET Fill
      <3>1. Adapted(o, k, p) \in Request
        BY <2>1, <2>2, <2>3, AdaptedType
      <3> QED
        BY <3>1 DEF Adapted, Request, Observation, ReconciliationRequest
    <2>7. exchange[o].trades = {} => exchange[o].paid = 0
      BY DEF Sourced
    <2>8. /\ SumFunctionOnSet([f \in S |-> f.quantity], S) = Volume(exchange[o].trades)
          /\ LET gap == 2 * SumFunctionOnSet([f \in S |-> f.fee], S) - 2 * exchange[o].paid
             IN  gap <= Scale * Cardinality(S) /\ -gap <= Scale * Cardinality(S)
          /\ SumFunctionOnSet([f \in S |-> f.fee], S) \in Int
          /\ Cardinality(S) \in Nat
      BY <2>1, <2>3, <2>5, <2>6, <2>7, RowsAddUp
    <2>9. exchange[o].state \in TerminalStates
      BY <2>1, <2>3, AppliedHasEnded
    <2>10. PICK fee, paid, n : /\ fee = SumFunctionOnSet([f \in S |-> f.fee], S)
                               /\ paid = exchange[o].paid /\ n = Scale * Cardinality(S)
      OBVIOUS
    <2>11. fee \in Int /\ paid \in Nat /\ n \in Nat
      BY <2>1, <2>8, <2>10, ReconciliationConstants DEF IsExchangeOrder
    <2>12. 2 * fee - 2 * paid <= n /\ -(2 * fee - 2 * paid) <= n
      BY <2>8, <2>10
    <2>13. 2 * fee \in (2 * paid - n)..(2 * paid + n)
      BY <2>11, <2>12
    <2> QED
      BY <2>4, <2>8, <2>9, <2>10, <2>13
  <1>2. LedgerMatchesExchange
    BY <1>1 DEF LedgerMatchesExchange
  <1>3. ASSUME NEW o \in Exchanged, NEW k \in RunKeys, run[<<o, k>>].status = "mismatch",
               NEW p \in Answers(o), Applicable(p),
               run[<<o, k>>].seen = ReconciliationRequest(p)
        PROVE  \E f \in run[<<o, k>>].seen.fills : Stored(f) # f
    <2>1. IsExchangeOrder(o) /\ exchange[o].trades \in SUBSET Market
      BY ExchangeOrders DEF IsExchangeOrder
    <2>2. PICK seen : seen = run[<<o, k>>].seen
      OBVIOUS
    <2>3. Explained(o, seen) /\ seen.fills = ReconciliationFills(p)
      BY <1>3, <2>2 DEF MismatchesExplained, ReconciliationRequest
    <2>4. Lists(p, exchange[o].trades)
      BY <1>3, <2>1, AnswerFacts DEF Applicable, Parses
    <2>5. \A f, g \in seen.fills : f.seq = g.seq => f = g
      BY <2>1, <2>3, <2>4, FillsBySequence
    <2> QED
      BY <1>3, <2>2, <2>3, <2>5 DEF Explained
  <1>4. SnapshotsAgree
    BY <1>3 DEF SnapshotsAgree
  <1> QED
    BY <1>2, <1>4

LEMMA InitSourced == Init => Sourced /\ MismatchesExplained
  <1> SUFFICES ASSUME Init PROVE Sourced /\ MismatchesExplained
    OBVIOUS
  <1>1. \A r \in Reconcilers : proc[r].pc = "idle"
    BY DEF Init, NoProc
  <1>2. \A o \in Exchanged, k \in RunKeys : run[<<o, k>>].status = "none"
    BY ReconciliationConstants DEF Init, NoRun, Runs
  <1>3. \A o \in Exchanged : exchange[o].paid = 0
    BY DEF Init
  <1> QED
    BY <1>1, <1>2, <1>3 DEF Sourced, MismatchesExplained

\* What is known of the exchange's orders in every state.
Reasoned == IInv /\ Sourced /\ MismatchesExplained

\* The invariant of the exchange's orders: every success has an answer behind
\* it, every mismatch a reason.
THEOREM AnswersBehindRuns ==
    ASSUME DistinctTrades, OnlyAnswers PROVE Spec => []Reasoned
  <1>1. Init => Reasoned
    BY InitIInv, InitSourced DEF Reasoned
  <1>2. Reasoned /\ [Next]_vars => Reasoned'
    BY NextIInv, NextSourced DEF Reasoned
  <1> QED
    BY <1>1, <1>2, PTL DEF Spec

\* What reconciliation wrote down for a live order is what the exchange did:
\* as soon as a run succeeded the order has ended, the fills are all it
\* executed, and their fees are the fee it charged but for the rounding of each
\* row; however many trades there are, in whatever order the answers list them
\* and whatever callers apply them (apply_upbit_live_rest_order_snapshot).
THEOREM LedgerIsExchange ==
    ASSUME DistinctTrades, OnlyAnswers PROVE Spec => []LedgerMatchesExchange
  <1>1. Reasoned => LedgerMatchesExchange
    BY MatchesFollow DEF Reasoned
  <1> QED
    BY <1>1, AnswersBehindRuns, PTL

\* A snapshot of an ended order is a mismatch only when a fee share of it does
\* not fit the column, however often and in whatever order of its trades it is
\* applied (reconcile_exchange_order, _same_fill).
THEOREM AnswersAgree ==
    ASSUME DistinctTrades, OnlyAnswers PROVE Spec => []SnapshotsAgree
  <1>1. Reasoned => SnapshotsAgree
    BY MatchesFollow DEF Reasoned
  <1> QED
    BY <1>1, AnswersBehindRuns, PTL
=============================================================================
