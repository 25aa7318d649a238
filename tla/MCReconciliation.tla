-------------------------- MODULE MCReconciliation --------------------------
(* Instances of Reconciliation: a paper order with one recorded fill and a *)
(* live order, on one position.                                            *)
EXTENDS Reconciliation

CONSTANTS PaperOrder, LiveOrder, Holding, r1, r2

F(seq, side, quantity, fee) ==
    [seq |-> seq, side |-> side, quantity |-> quantity, price |-> 1, fee |-> fee]

First == F(1, "buy", 1, 2)
Dearer == F(1, "buy", 1, 4)
Second == F(2, "sell", 1, 2)
Third == F(3, "buy", 1, 2)

Direct(o, key, status, fs) ==
    [order |-> o, key |-> key, live |-> FALSE, seen |-> [status |-> status, fills |-> fs]]

\* Direct callers report, of the paper order, a fill with a gap before it, a
\* sale, and the recorded fill with other terms; of the live order, a
\* fill that is not theirs to report, and that nothing was found.
Requests ==
    {Direct(PaperOrder, "monday", "terminal", {Third}),
     Direct(PaperOrder, "tuesday", "terminal", {Second}),
     Direct(PaperOrder, "tuesday", "terminal", {Dearer}),
     Direct(LiveOrder, "monday", "terminal", {First}),
     Direct(LiveOrder, "tuesday", "unknown", {})}

T(uuid, volume, at) ==
    [uuid |-> uuid, side |-> Absent, price |-> 1, volume |-> volume, funds |-> volume, at |-> at]

\* Two trades of the same second, whose fee shares fit, and one a second later,
\* whose share with either does not.
MarketTrades == {T(2, 1, 1), T(1, 3, 1), T(3, 2, 2)}

\* A terminal snapshot of an order of someone else.
Stray ==
    [endpoint |-> "GET /v1/order", own |-> FALSE, state |-> "done", side |-> "bid",
     trades |-> <<T(9, 3, 1)>>, count |-> 1, executed |-> 3, remaining |-> 0, paid |-> 2,
     created |-> 0]
StrayPayloads == {Stray}

Modes == [o \in {PaperOrder, LiveOrder} |-> IF o = PaperOrder THEN "paper" ELSE "live"]
OnePosition == [o \in {PaperOrder, LiveOrder} |-> Holding]
PaperRecorded == [o \in {PaperOrder, LiveOrder} |-> IF o = PaperOrder THEN {First} ELSE {}]
HoldsOne == [p \in {Holding} |-> 1]
Moves == {-1}

\* The key is new, or was used for a live order of another position.
MondayTaken == {{}, {"monday"}}

\* The instance meets the hypotheses under which the ledger is proved to be the
\* exchange's.
ASSUME LedgerHypotheses == DistinctTrades /\ OnlyAnswers
=============================================================================
