--------------------------- MODULE Reconciliation ---------------------------
(***************************************************************************)
(* Reconciliation of exchange orders with observed fills, and the record   *)
(* of its application to live orders: reconcile_exchange_order and         *)
(* apply_upbit_live_reconciliation_application of portfolio_bot_store.py,  *)
(* the adapters that call them with snapshots of the exchange's orders     *)
(* (RestSnapshot), and the triggers of the migrations 20260718000800 and   *)
(* 20260718001400.                                                         *)
(*                                                                         *)
(* A transaction locks the run key, then the order row, then the position, *)
(* and commits everything it wrote at once.  An order stands for its       *)
(* intent as well: one order per intent.                                   *)
(***************************************************************************)
EXTENDS RestSnapshot

CONSTANTS
    Orders,         \* exchange_orders rows
    ModeOf,         \* [Orders -> execution_mode]
    PositionOf,     \* [Orders -> (portfolio, instrument)]
    Positions,
    RunKeys,        \* run keys callers use
    DirectRequests, \* requests of callers of reconcile_exchange_order itself
    Exchanged,      \* orders the exchange knows
    Market,         \* trades the exchange may make of an order
    Endings,        \* terminal states the exchange's orders may reach
    MaxTrades,      \* bound: trades of an order
    TradeFee,       \* what the exchange charges for a trade
    Strays,         \* payloads of other orders or sources handed to the adapters
    Scale,          \* digits of a fee in one digit of NUMERIC(38, 18)
    Recorded,       \* [Orders -> fills recorded when the order was made]
    Opening,        \* [Positions -> quantity with the recorded fills]
    Reconcilers,    \* concurrent callers
    PaperMoves,     \* what a paper fill may add to a position
    MaxPaperFills,  \* bound: paper fills in a behaviour
    Taken,          \* sets of run keys that orders of other positions have used
    Elsewhere,      \* such an order
    None

Fill == [seq : Nat \ {0}, side : {"buy", "sell"}, quantity : Nat \ {0},
         price : Nat \ {0}, fee : Nat]

Observation == [status : {"terminal", "unknown"}, fills : SUBSET Fill]

Request == [order : Orders, key : RunKeys, seen : Observation, live : BOOLEAN]

Runs == Orders \X RunKeys

ASSUME ReconciliationConstants ==
    /\ ModeOf \in [Orders -> {"paper", "shadow", "live"}]
    /\ PositionOf \in [Orders -> Positions]
    /\ DirectRequests \subseteq Request
    /\ Exchanged \subseteq Orders /\ \A o \in Exchanged : Recorded[o] = {}
    /\ Endings \subseteq TerminalStates
    /\ MaxTrades \in Nat /\ TradeFee \in Nat /\ Scale \in Nat \ {0}
    /\ Recorded \in [Orders -> SUBSET Fill] /\ Opening \in [Positions -> Nat]
    /\ PaperMoves \subseteq Int /\ MaxPaperFills \in Nat
    /\ Taken \subseteq SUBSET RunKeys
    /\ Market \subseteq TradeReport /\ \A t \in Market : t.at # Absent
    /\ Strays \subseteq OrderReport
    /\ None \notin Reconcilers \cup Orders \cup {Elsewhere} /\ Elsewhere \notin Orders

ASSUME RecordedOnce ==
    \A o \in Orders : \A f, g \in Recorded[o] : f.seq = g.seq => f = g

ASSUME FinitelyMany ==
    /\ IsFiniteSet(Orders)
    /\ \A o \in Orders : IsFiniteSet(Recorded[o])
    /\ \A q \in DirectRequests : IsFiniteSet(q.seen.fills)

VARIABLES
    order,      \* exchange_orders.status
    intent,     \* order_intents.status
    fills,      \* order_fills of each order
    position,   \* position_projections.quantity
    run,        \* reconciliation_runs, by order and key
    applied,    \* upbit_live_reconciliation_applications, by idempotency key
    events,     \* risk_events raised by reconciliation
    keyLock,    \* the caller holding the run key's advisory lock
    rowLock,    \* the caller whose transaction locks the order row
    posLock,    \* the caller holding the position's advisory lock
    proc,       \* what each caller's transaction has done so far
    exchange,   \* the exchange's orders: state, trades and fee paid
    paper,      \* history: what paper fills added to each position
    papers      \* number of paper fills

tables == <<order, intent, fills, run, applied, events>>
locks == <<keyLock, rowLock, posLock>>
outside == <<exchange, paper, papers>>
vars == <<tables, position, locks, proc, outside>>

-----------------------------------------------------------------------------
Signed(f) == IF f.side = "buy" THEN f.quantity ELSE -f.quantity

NoRun == [status |-> "none", seen |-> None]
NoProc == [pc |-> "idle", req |-> None, result |-> "none", todo |-> {}, done |-> {},
           quantity |-> 0]

\* The caller's memory in the transaction of request q: what it decided, the
\* fills it has still to insert and has inserted, and its projection.
Doing(pc, q, result, todo, done, quantity) ==
    [pc |-> pc, req |-> q, result |-> result, todo |-> todo, done |-> done,
     quantity |-> quantity]

Init ==
    /\ order = [o \in Orders |-> IF ModeOf[o] = "paper" THEN "done" ELSE "wait"]
    /\ intent = [o \in Orders |-> IF ModeOf[o] = "paper" THEN "paper_filled" ELSE "approved"]
    /\ fills = Recorded
    /\ position = Opening
    /\ run = [k \in Runs |-> NoRun]
    /\ \E taken \in Taken :
         applied = [k \in RunKeys |-> IF k \in taken THEN Elsewhere ELSE None]
    /\ events = {}
    /\ keyLock = [k \in Runs |-> None]
    /\ rowLock = [o \in Orders |-> None]
    /\ posLock = [p \in Positions |-> None]
    /\ proc = [r \in Reconcilers |-> NoProc]
    /\ exchange = [o \in Exchanged |-> [state |-> "wait", trades |-> {}, paid |-> 0]]
    /\ paper = [p \in Positions |-> 0]
    /\ papers = 0

Run(q) == run[<<q.order, q.key>>]

-----------------------------------------------------------------------------
(* The exchange's orders, and what callers learn of them.                  *)

Volume(trades) == SumFunctionOnSet([t \in trades |-> t.volume], trades)

\* A trade of an open order, not before the earlier ones.
Trade(o, t) ==
    /\ exchange[o].state \in {"wait", "trade"}
    /\ Cardinality(exchange[o].trades) < MaxTrades
    /\ \A u \in exchange[o].trades : u # t /\ u.at <= t.at
    /\ exchange' = [exchange EXCEPT ![o] =
         [state |-> "trade", trades |-> @.trades \cup {t}, paid |-> @.paid + TradeFee]]
    /\ UNCHANGED <<tables, position, locks, proc, paper, papers>>

\* The order ends: done with a trade, rejected without one, or cancelled.
Finish(o, state) ==
    /\ exchange[o].state \in {"wait", "trade"}
    /\ (state = "done" => exchange[o].trades # {})
    /\ (state = "rejected" => exchange[o].trades = {})
    /\ exchange' = [exchange EXCEPT ![o].state = state]
    /\ UNCHANGED <<tables, position, locks, proc, paper, papers>>

\* An answer with the given trades in some order.
Payload(o, endpoint, trades) ==
    [endpoint |-> endpoint, own |-> TRUE, state |-> exchange[o].state, side |-> "bid",
     trades |-> trades, count |-> Cardinality(exchange[o].trades),
     executed |-> Volume(exchange[o].trades),
     remaining |-> IF exchange[o].state = "trade" THEN 1 ELSE 0,
     paid |-> exchange[o].paid, created |-> 0]

\* GET /v1/order answers with the trades; lists of orders leave them out.
Answers(o) ==
    {Payload(o, "GET /v1/order", s) : s \in SetToSeqs(exchange[o].trades)}
        \cup {Payload(o, "GET /v1/orders/closed", <<>>)}

\* _validate_snapshot_matches_binding, for a live order.
MatchesBinding(o, p) == ModeOf[o] = "live" => p.own

\* _reconciliation_fill_payload refuses a fee below zero, as the rounding of
\* the other shares may leave of a tiny fee.
Payable(p) == LET fees == DistributedFees(p) IN \A i \in DOMAIN fees : fees[i] >= 0

\* The adapter of the order's mode passes the snapshot on, and the store
\* accepts it.
Passes(o, p) == MatchesBinding(o, p) /\ Applicable(p) /\ Payable(p)

\* What the adapter of the order's mode makes of a snapshot it applies.
Adapted(o, key, p) ==
    [order |-> o, key |-> key, seen |-> ReconciliationRequest(p), live |-> ModeOf[o] = "live"]

-----------------------------------------------------------------------------
(* A request: _reconcile_exchange_order_in_connection.                     *)

\* _lock_reconciliation_run_key waits for the advisory lock.
KeyFree(q) == keyLock[<<q.order, q.key>>] = None

\* No run of this key yet: the transaction goes on, holding the key.
Begin(r, q) ==
    /\ proc[r].pc = "idle"
    /\ KeyFree(q)
    /\ Run(q).status = "none"
    /\ keyLock' = [keyLock EXCEPT ![<<q.order, q.key>>] = r]
    /\ proc' = [proc EXCEPT ![r] = Doing("keyed", q, "none", {}, {}, 0)]
    /\ UNCHANGED <<tables, position, rowLock, posLock, outside>>

\* The key was used: the recorded run is the answer to the same request, and
\* another request is refused (ReconciliationIdempotencyConflictError and its
\* live counterpart).  Neither writes anything.
Answer(r, q) ==
    /\ proc[r].pc = "idle"
    /\ KeyFree(q)
    /\ Run(q).status # "none"
    /\ UNCHANGED vars

\* apply_upbit_live_rest_order_snapshot and apply_upbit_rest_order_snapshot,
\* with a snapshot they pass on to the store.
ApplySnapshot(r, o, p) ==
    /\ Passes(o, p)
    /\ \E key \in RunKeys :
         \/ Begin(r, Adapted(o, key, p))
         \/ Answer(r, Adapted(o, key, p))

\* The same with a snapshot that is refused or only observed.
ObserveSnapshot(r, o, p) ==
    /\ proc[r].pc = "idle"
    /\ ~Passes(o, p)
    /\ UNCHANGED vars

\* Mutant: fills of the same sequence are not compared.
AlwaysSame(a, b) == TRUE

\* _same_fill.
SameFill(a, b) == a = b

\* A fill that was not recorded before a higher one was.
Late(o, f) == \E g \in fills[o] : g.seq > f.seq

Known(o, f) == \E g \in fills[o] : g.seq = f.seq

\* The loop over the observed fills: a duplicate, a difference or a late fill.
Mismatch(o, observed) ==
    \E f \in observed :
        \/ \E g \in observed \ {f} : g.seq = f.seq
        \/ \E g \in fills[o] : g.seq = f.seq /\ ~SameFill(g, f)
        \/ ~Known(o, f) /\ Late(o, f)

Result(q) ==
    IF q.seen.status = "unknown" /\ q.seen.fills = {} THEN "outcome_unknown"
    ELSE IF Mismatch(q.order, q.seen.fills) THEN "mismatch" ELSE "succeeded"

Unrecorded(q) == {f \in q.seen.fills : ~Known(q.order, f)}

\* _locked_exchange_order_for_reconciliation waits for the row.
RowFree(o) == rowLock[o] = None

\* The order row and its fills are locked, and the outcome is decided.
LockOrder(r) ==
    /\ proc[r].pc = "keyed"
    /\ LET q == proc[r].req IN
       /\ RowFree(q.order)
       /\ rowLock' = [rowLock EXCEPT ![q.order] = r]
       /\ proc' = [proc EXCEPT ![r] =
            Doing("decided", q, Result(q),
                  IF Result(q) = "succeeded" THEN Unrecorded(q) ELSE {}, {}, 0)]
    /\ UNCHANGED <<tables, position, keyLock, posLock, outside>>

\* Mutant: the projection is read without its advisory lock.
PositionUnlocked(p) == TRUE

\* _lock_position_projection_scope waits for the advisory lock.
PositionFree(p) == posLock[p] = None

\* The lock and the read of the first _upsert_position_projection.
LockPosition(r) ==
    /\ proc[r].pc = "decided"
    /\ proc[r].todo # {}
    /\ LET q == proc[r].req
           p == PositionOf[q.order] IN
       /\ PositionFree(p)
       /\ posLock' = [posLock EXCEPT ![p] = r]
       /\ proc' = [proc EXCEPT ![r] =
            Doing("projecting", q, "succeeded", proc[r].todo, {}, position[p])]
    /\ UNCHANGED <<tables, position, keyLock, rowLock, outside>>

\* A sale of more than the position raises ValueError.
Covered(f, quantity) == f.side = "sell" => f.quantity <= quantity

\* The next fill to insert: the loop goes by sequence.
NextFill(r, f) == f \in proc[r].todo /\ \A g \in proc[r].todo : f.seq <= g.seq

\* One turn of the loop: the INSERT of the fill and its projection.
Project(r) ==
    /\ proc[r].pc = "projecting"
    /\ \E f \in proc[r].todo :
        /\ NextFill(r, f)
        /\ Covered(f, proc[r].quantity)
        /\ proc' = [proc EXCEPT ![r] =
             Doing("projecting", proc[r].req, "succeeded", proc[r].todo \ {f},
                   proc[r].done \cup {f}, proc[r].quantity + Signed(f))]
    /\ UNCHANGED <<tables, position, locks, outside>>

\* A fill as order_fills keeps it: its fee rounded half up to NUMERIC(38, 18).
Stored(f) == [f EXCEPT !.fee = Scale * ((2 * @ + Scale) \div (2 * Scale))]

ASSUME RecordedAsStored == \A o \in Orders : \A f \in Recorded[o] : Stored(f) = f

\* Everything the transaction locked is free again.
Release(r) ==
    /\ keyLock' = [k \in Runs |-> IF keyLock[k] = r THEN None ELSE keyLock[k]]
    /\ rowLock' = [o \in Orders |-> IF rowLock[o] = r THEN None ELSE rowLock[o]]
    /\ posLock' = [p \in Positions |-> IF posLock[p] = r THEN None ELSE posLock[p]]
    /\ proc' = [proc EXCEPT ![r] = NoProc]

\* Nothing left to write.
Written(r) == proc[r].pc \in {"decided", "projecting"} /\ proc[r].todo = {}

\* A succeeded run of a live order, which needs its application.
Live(r) == proc[r].result = "succeeded" /\ ModeOf[proc[r].req.order] = "live"

\* Mutant: no trigger requires the application of a live run.
NoApplicationNeeded(r) == TRUE

\* reconciliation_runs_require_live_application, at the commit, and the
\* application's idempotency key: free, because the run is new.
ApplicationDone(r) ==
    Live(r) => proc[r].req.live /\ applied[proc[r].req.key] = None

\* _insert_reconciliation_run.
RecordRun(q, result) ==
    run' = [run EXCEPT ![<<q.order, q.key>>] = [status |-> result, seen |-> q.seen]]

\* The order and its intent take the outcome; a mismatch leaves them alone.
RecordOutcome(o, result) ==
    \/ /\ result = "mismatch"
       /\ UNCHANGED <<order, intent>>
    \/ /\ result = "outcome_unknown"
       /\ order' = [order EXCEPT ![o] = "outcome_unknown"]
       /\ intent' = [intent EXCEPT ![o] = "outcome_unknown"]
    \/ /\ result = "succeeded"
       /\ order' = [order EXCEPT ![o] = "reconciled"]
       /\ intent' = [intent EXCEPT ![o] = "reconciled"]

\* _insert_reconciliation_risk_event, for every outcome but success.
RecordEvent(q, result) ==
    events' = IF result = "succeeded" THEN events
              ELSE events \cup {[order |-> q.order, key |-> q.key, type |-> result]}

\* The application of a live run, under the key made of the run key.
RecordApplication(r) ==
    applied' = IF Live(r) /\ proc[r].req.live
               THEN [applied EXCEPT ![proc[r].req.key] = proc[r].req.order] ELSE applied

\* Everything the transaction wrote commits together.
Commit(r) ==
    /\ Written(r)
    /\ ApplicationDone(r)
    /\ LET q == proc[r].req
           o == q.order IN
       /\ RecordRun(q, proc[r].result)
       /\ fills' = [fills EXCEPT ![o] = @ \cup {Stored(f) : f \in proc[r].done}]
       /\ position' = IF proc[r].pc = "projecting"
                      THEN [position EXCEPT ![PositionOf[o]] = proc[r].quantity]
                      ELSE position
       /\ RecordOutcome(o, proc[r].result)
       /\ RecordEvent(q, proc[r].result)
    /\ RecordApplication(r)
    /\ Release(r)
    /\ UNCHANGED outside

\* The idempotency key the live adapter makes of the run key belongs to an
\* application of another order: LiveReconciliationApplicationIdempotencyConflictError,
\* or the UNIQUE key's violation when that application committed just before.
RefuseApplication(r) ==
    /\ Written(r)
    /\ Live(r) /\ proc[r].req.live
    /\ applied[proc[r].req.key] # None
    /\ Release(r)
    /\ UNCHANGED <<tables, position, outside>>

\* The transaction cannot go on: an uncovered sale, or a succeeded run of a
\* live order that came without its application.
Raise(r) ==
    /\ \/ /\ proc[r].pc = "projecting"
          /\ \E f \in proc[r].todo : NextFill(r, f) /\ ~Covered(f, proc[r].quantity)
       \/ Written(r) /\ Live(r) /\ ~proc[r].req.live
    /\ Release(r)
    /\ UNCHANGED <<tables, position, outside>>

\* Mutant: a failed transaction keeps its locks.
RollbackKeepsLocks(r) ==
    /\ proc[r].pc # "idle"
    /\ proc' = [proc EXCEPT ![r] = NoProc]
    /\ UNCHANGED <<tables, position, locks, outside>>

\* A database error or the death of the caller: nothing is written and every
\* lock is released.
Rollback(r) ==
    /\ proc[r].pc # "idle"
    /\ Release(r)
    /\ UNCHANGED <<tables, position, outside>>

-----------------------------------------------------------------------------
\* complete_claimed_paper_execution_job moves the same positions, from the
\* read of the projection to its commit under the same advisory lock.
PaperFill(p, move) ==
    /\ papers < MaxPaperFills
    /\ posLock[p] = None
    /\ position[p] + move >= 0
    /\ position' = [position EXCEPT ![p] = @ + move]
    /\ paper' = [paper EXCEPT ![p] = @ + move]
    /\ papers' = papers + 1
    /\ UNCHANGED <<tables, locks, proc, exchange>>

Step(r) ==
    \/ LockOrder(r)
    \/ LockPosition(r)
    \/ Project(r)
    \/ Commit(r)
    \/ RefuseApplication(r)
    \/ Raise(r)

\* A caller that is free asks the store, or hands a snapshot to an adapter.
Call(r) ==
    /\ proc[r].pc = "idle"
    /\ \/ \E q \in DirectRequests : Begin(r, q) \/ Answer(r, q)
       \/ \E o \in Exchanged : \E p \in Answers(o) \cup Strays :
            ApplySnapshot(r, o, p) \/ ObserveSnapshot(r, o, p)

Next ==
    \/ \E r \in Reconcilers : Call(r) \/ Step(r) \/ Rollback(r)
    \/ \E o \in Exchanged : \E t \in Market : Trade(o, t)
    \/ \E o \in Exchanged : \E state \in Endings : Finish(o, state)
    \/ \E p \in Positions : \E move \in PaperMoves : PaperFill(p, move)

Spec == Init /\ [][Next]_vars

\* A transaction that can take its next step takes it, and one that waits for
\* a lock gets it in its turn: PostgreSQL grants a lock in the order of the
\* waiters.  Nothing is assumed of callers or of database errors.
FairSpec ==
    /\ Spec
    /\ \A r \in Reconcilers :
         WF_vars(Step(r)) /\ SF_vars(LockOrder(r)) /\ SF_vars(LockPosition(r))

-----------------------------------------------------------------------------
(* Properties                                                              *)

Outcome == {"none", "mismatch", "outcome_unknown", "succeeded"}

Memory ==
    [pc : {"idle", "keyed", "decided", "projecting"}, req : Request \cup {None},
     result : Outcome, todo : SUBSET Fill, done : SUBSET Fill, quantity : Nat]

\* The tables, the locks, the callers' memory and the exchange's orders have
\* their types, and no position is negative.
TypeOK ==
    /\ order \in [Orders -> {"wait", "done", "outcome_unknown", "reconciled"}]
    /\ intent \in [Orders -> {"approved", "paper_filled", "outcome_unknown", "reconciled"}]
    /\ fills \in [Orders -> SUBSET Fill]
    /\ position \in [Positions -> Nat]
    /\ run \in [Runs -> [status : Outcome, seen : Observation \cup {None}]]
    /\ applied \in [RunKeys -> Orders \cup {None, Elsewhere}]
    /\ events \subseteq [order : Orders, key : RunKeys, type : Outcome]
    /\ keyLock \in [Runs -> Reconcilers \cup {None}]
    /\ rowLock \in [Orders -> Reconcilers \cup {None}]
    /\ posLock \in [Positions -> Reconcilers \cup {None}]
    /\ proc \in [Reconcilers -> Memory]
    /\ exchange \in [Exchanged -> [state : {"wait", "trade"} \cup TerminalStates,
                                   trades : SUBSET Market, paid : Nat]]
    /\ paper \in [Positions -> Int] /\ papers \in 0..MaxPaperFills

\* What the succeeded runs of an order observed.
Observed(o) ==
    UNION {run[<<o, k>>].seen.fills : k \in {x \in RunKeys : run[<<o, x>>].status = "succeeded"}}

\* The ledger is what the succeeded runs observed and what was recorded at
\* first: every fill of a succeeded run is there as observed, and a mismatch
\* or an unknown outcome, or a transaction that failed half way, added none.
LedgerExplained ==
    \A o \in Orders :
        /\ {Stored(f) : f \in Observed(o)} \subseteq fills[o]
        /\ fills[o] \subseteq {Stored(f) : f \in Observed(o)} \cup Recorded[o]

\* What a set of fills adds up to, the fills reconciliation added to an order,
\* and the orders of a position.
Moved(fs) == SumFunctionOnSet([f \in fs |-> Signed(f)], fs)
Added(o) == fills[o] \ Recorded[o]
On(p) == {o \in Orders : PositionOf[o] = p}

\* A position is what it was at first, plus the paper fills and the fills of
\* reconciliation, whatever callers and paper workers move it at once.
PositionMatchesFills ==
    \A p \in Positions :
        position[p] = Opening[p] + paper[p]
                        + SumFunctionOnSet([o \in Orders |-> Moved(Added(o))], On(p))

\* Every request that was begun is answered: no caller waits for ever for a
\* lock that an ended transaction left behind or that a waiting one holds.
EveryRequestEnds ==
    \A r \in Reconcilers : proc[r].pc # "idle" ~> proc[r].pc = "idle"

\* What tells trades of the exchange apart in an answer: each has a uuid.
KeyOf(t) == <<t.at, Or(t.uuid, 0), t.price, t.volume>>
DistinctTrades == \A t, u \in Market : KeyOf(t) = KeyOf(u) => t = u

\* The orders of the exchange are live ones, callers of the store bring no
\* application with them, and a payload that names the order comes from the
\* exchange.
OnlyAnswers ==
    /\ \A o \in Exchanged : ModeOf[o] = "live"
    /\ \A q \in DirectRequests : ~q.live
    /\ \A p \in Strays : ~p.own

\* What reconciliation wrote down for an order is what the exchange did: as
\* soon as a run succeeded the order has ended there, the fills' quantities are
\* all it executed, and their fees add up to the fee it charged, but for the
\* rounding of each stored fee.
LedgerMatchesExchange ==
    \A o \in Exchanged :
        (\E k \in RunKeys : run[<<o, k>>].status = "succeeded") =>
            LET fee == SumFunctionOnSet([f \in fills[o] |-> f.fee], fills[o])
                quantity == SumFunctionOnSet([f \in fills[o] |-> f.quantity], fills[o])
                rounding == Scale * Cardinality(fills[o])
            IN  /\ exchange[o].state \in TerminalStates
                /\ quantity = Volume(exchange[o].trades)
                /\ 2 * fee \in (2 * exchange[o].paid - rounding)..(2 * exchange[o].paid + rounding)

\* Snapshots of an ended order agree, whatever the order of their trades and
\* however often they are applied: a run that observed what the exchange
\* answers is no mismatch, unless a fee share does not fit NUMERIC(38, 18).
SnapshotsAgree ==
    \A o \in Exchanged, k \in RunKeys :
        run[<<o, k>>].status = "mismatch" =>
            \A p \in Answers(o) :
                Applicable(p) /\ run[<<o, k>>].seen = ReconciliationRequest(p) =>
                    \E f \in run[<<o, k>>].seen.fills : Stored(f) # f
=============================================================================
