------------------------- MODULE BacktestSubmission -------------------------
(***************************************************************************)
(* Submitting a backtest (backtest_store.create_run) for a published       *)
(* strategy version and a sealed dataset version, the replay of a run's    *)
(* candles by the engine, storing a result (persist_completed_run), and    *)
(* the lists of the runs and of a run's trades.  The threads, their locks  *)
(* and their listings are those of StrategyVersions; what happens to a     *)
(* queued run until a worker replays it is BacktestQueue's.                *)
(***************************************************************************)
EXTENDS StrategyVersions, BacktestEngine

CONSTANTS Settings,   \* the instances: [todo, strategies, versions, tape, signals, extras]
          Datasets    \* the dataset versions

VARIABLES runs,     \* the committed rows of backtest_runs
          input,    \* thread -> the input its create_run has put together
          sealed,   \* the datasets whose version is sealed
          tape,     \* the candles of the dataset, in the order they are read
          signals,  \* the strategy's signals
          replay    \* the replay: [status, next, book, equity]

submissionVars == <<storeVars, runs, input, sealed, tape, signals, replay>>

engineVars == <<tape, signals, replay>>

(* A table with its primary key and its UNIQUE (idempotency_key). *)
Table(rows) ==
    /\ IsFiniteSet(rows)
    /\ \A r \in rows : r.id \in Nat \ {0}
    /\ \A r, q \in rows : r.id = q.id \/ r.key = q.key => r = q

Candle == [known : Int, priority : Int, seq : Int, close : Int, volume : Nat,
           quality : STRING, decimal : BOOLEAN]
Signal == [occurred : Int, known : Int, side : {"buy", "sell"}, quantity : Nat]

(* An instance begins with requests whose graphs have a list of nodes,     *)
(* with tables the store has left - its versions passed the validation -   *)
(* and with candles that stable_sequence tells apart: each is of a         *)
(* revision or a rollup of its own.                                        *)
ASSUME SettingsAssumption ==
    /\ PageSize \in Nat \ {0}
    /\ \A s \in Settings :
         /\ s.todo = [t \in Threads |-> s.todo[t]]
         /\ \A t \in Threads :
              /\ Len(s.todo[t]) \in Nat
              /\ s.todo[t] = [i \in 1..Len(s.todo[t]) |-> s.todo[t][i]]
              /\ \A i \in 1..Len(s.todo[t]) :
                   /\ s.todo[t][i].op \in {"create", "publish", "list", "run", "persist",
                                          "runs", "trades"}
                   /\ s.todo[t][i].op = "publish" => IsFiniteSet(NodeIds(s.todo[t][i].graph))
         /\ Table(s.strategies) /\ Table(s.versions)
         /\ \A v \in s.versions : v.version \in Nat \ {0} /\ Runnable(v.graph)
         /\ InOrder(s.versions)
         /\ s.tape \in Seq(Candle)
         /\ \A i, j \in DOMAIN s.tape : s.tape[i].seq = s.tape[j].seq => i = j
         /\ s.signals \in Seq(Signal)
         /\ s.extras \in Nat

NoInput == [spec |-> "none"]
NotReplayed == [status |-> "idle", next |-> 1, book |-> EmptyBook, final |-> 0]

SubmissionInit ==
    /\ \E s \in Settings :
          /\ todo = s.todo
          /\ strategies = s.strategies
          /\ versions = s.versions
          /\ tape = s.tape
          /\ signals = s.signals
          /\ extras = s.extras
          /\ nextId = [strategies |-> MaxId(s.strategies) + 1,
                       versions |-> MaxId(s.versions) + 1, runs |-> 1]
    /\ pc = [t \in Threads |-> "idle"]
    /\ locks = [t \in Threads |-> {}]
    /\ inserted = [t \in Threads |-> NoRow]
    /\ answers = {} /\ refused = {}
    /\ page = [t \in Threads |-> NoPage]
    /\ runs = {} /\ sealed = {}
    /\ input = [t \in Threads |-> NoInput]
    /\ replay = NotReplayed

(* A dataset build publishes its version. *)
Seal(d) ==
    /\ d \notin sealed
    /\ \E t \in Threads : \E i \in DOMAIN todo[t] :
          todo[t][i].op = "run" /\ todo[t][i].what.dataset = d
    /\ sealed' = sealed \union {d}
    /\ UNCHANGED <<storeVars, runs, input, engineVars>>

(* The version is published and the dataset sealed (create_run asks for    *)
(* both, and so does the trigger validate_backtest_run_inputs).            *)
Ready(what) == what.version \in IdsOf(versions) /\ what.dataset \in sealed

(* create_run: the lock of the key, the look for it, the material of the   *)
(* published version and the sealed dataset, the input - without signals - *)
(* and its hash.                                                           *)
RunKey(t) ==
    LET job == Job(t)
        old == WithKey(runs, job.key)
    IN /\ pc[t] = "idle" /\ todo[t] # <<>> /\ job.op = "run"
       /\ \/ /\ old # {}
             /\ \A u \in Threads \ {t} : <<"backtest-run", job.key>> \notin locks[u]
             /\ \E r \in old : AnswerAgain(t, r)
             /\ UNCHANGED input
          \/ /\ old = {} /\ Ready(job.what)
             /\ Grab(t, <<"backtest-run", job.key>>)
             /\ input' = [input EXCEPT ![t] = InputHash(job.what, tape, <<>>)]
             /\ pc' = [pc EXCEPT ![t] = "input"]
             /\ UNCHANGED <<todo, inserted, answers>>
          \/ /\ old = {} /\ ~Ready(job.what)
             /\ \A u \in Threads \ {t} : <<"backtest-run", job.key>> \notin locks[u]
             /\ EndTransaction(t)
             /\ UNCHANGED <<answers, input>>
       /\ UNCHANGED <<strategies, versions, nextId, refused, page, extras, runs, sealed,
                      engineVars>>

(* UNIQUE (strategy_version_id, dataset_version_id, engine_version,        *)
(* parameter_hash, seed): without the cash and the execution model.        *)
Tuple(what) == <<what.version, what.dataset, what.seed>>

(* That, or UNIQUE (input_hash). *)
Clashes(r, job, hash) == r.input = hash \/ Tuple(r.hash.what) = Tuple(job.what)

(* An insertion waits for a transaction that has inserted such a row, and  *)
(* is refused when that one commits.                                       *)
ClashWritten(t, hash) ==
    \E u \in Threads \ {t} : inserted[u].table = "runs" /\ Clashes(inserted[u], Job(t), hash)

RunRow(job, hash, trades) ==
    [table |-> "runs", id |-> nextId.runs, key |-> job.key, hash |-> RequestHash(job),
     input |-> hash, trades |-> trades]

GrabInput(t, hash) == Grab(t, <<"backtest-input", hash>>)

(* The lock of the input, the look for a run of the same input, which      *)
(* refuses before the insertion, and the insertion: of a queued run, which *)
(* has no trades.                                                          *)
RunInput(t) ==
    LET job == Job(t)
        found == \E r \in runs : r.input = input[t]
        clash == \E r \in runs : Clashes(r, job, input[t])
    IN /\ pc[t] = "input"
       /\ \/ /\ ~clash /\ ~ClashWritten(t, input[t])
             /\ GrabInput(t, input[t])
             /\ inserted' = [inserted EXCEPT ![t] = RunRow(job, input[t], <<>>)]
             /\ pc' = [pc EXCEPT ![t] = "commit"]
             /\ UNCHANGED todo
          \/ /\ clash
             /\ \A u \in Threads \ {t} : <<"backtest-input", input[t]>> \notin locks[u]
             /\ EndTransaction(t)
       /\ nextId' = [nextId EXCEPT !.runs = IF found THEN @ ELSE @ + 1]
       /\ input' = [input EXCEPT ![t] = NoInput]
       /\ UNCHANGED <<strategies, versions, answers, refused, page, extras, runs, sealed,
                      engineVars>>

(* persist_completed_run, for a result the caller has: the lock of the     *)
(* key, the look for it, the insertion of the run with its trades, whether *)
(* the result succeeded or not.  No lock covers the input; two fills       *)
(* against one candle break UNIQUE (run_id, occurred_at) of the equity     *)
(* points, and the transaction is rolled back.                             *)
PersistRun(t) ==
    LET job == Job(t)
        old == WithKey(runs, job.key)
        hash == InputHash(job.what, tape, signals)
        takes == /\ Ready(job.what) /\ \A r \in runs : ~Clashes(r, job, hash)
                 /\ replay.book.trades = <<>> \/ OneFillEach(tape, signals)
    IN /\ pc[t] = "idle" /\ todo[t] # <<>> /\ job.op = "persist"
       /\ replay.status \in {"failed", "succeeded"}
       /\ \A u \in Threads \ {t} : <<"backtest-run", job.key>> \notin locks[u]
       /\ \/ /\ old # {}
             /\ \E r \in old : AnswerAgain(t, r)
             /\ UNCHANGED nextId
          \/ /\ old = {} /\ takes /\ ~ClashWritten(t, hash)
             /\ locks' = [locks EXCEPT ![t] = {<<"backtest-run", job.key>>}]
             /\ inserted' = [inserted EXCEPT ![t] = RunRow(job, hash, replay.book.trades)]
             /\ nextId' = [nextId EXCEPT !.runs = @ + 1]
             /\ pc' = [pc EXCEPT ![t] = "commit"]
             /\ UNCHANGED <<todo, answers>>
          \/ /\ old = {} /\ ~takes
             /\ nextId' = [nextId EXCEPT !.runs = @ + 1]
             /\ EndTransaction(t)
             /\ UNCHANGED answers
       /\ UNCHANGED <<strategies, versions, refused, page, extras, runs, input, sealed,
                      engineVars>>

CommitRun(t) ==
    /\ pc[t] = "commit" /\ inserted[t].table = "runs"
    /\ runs' = runs \union {inserted[t]}
    /\ Answer(Job(t), inserted[t].id)
    /\ EndTransaction(t)
    /\ UNCHANGED <<strategies, versions, nextId, refused, page, extras, input, sealed,
                   engineVars>>

(* list_runs *)
ListRuns(t) ==
    /\ todo[t] # <<>> /\ Job(t).op = "runs"
    /\ \/ pc[t] = "idle" /\ Ceiling(t, "runs", runs)
       \/ pc[t] = "page" /\ ReadPage(t, runs)
    /\ UNCHANGED <<strategies, versions, nextId, answers, refused, extras, runs, input,
                   sealed, engineVars>>

-----------------------------------------------------------------------------
(* run_candle_backtest, by the worker that has the first run or by a       *)
(* caller that will store the result.                                      *)
StartReplay ==
    /\ runs # {} \/ \E t \in Threads : todo[t] # <<>> /\ Job(t).op = "persist"
    /\ replay.status = "idle" /\ tape # <<>>
    /\ replay' = [replay EXCEPT !.status =
          IF DecimalError(tape) \/ \E i \in DOMAIN signals : LookAhead(signals[i])
          THEN "failed" ELSE "running"]
    /\ UNCHANGED <<storeVars, runs, input, sealed, tape, signals>>

ReplaySignal ==
    /\ replay.status = "running" /\ replay.next <= Len(signals)
    /\ replay' = [replay EXCEPT !.next = @ + 1,
          !.book = Fill(@, ReplayEvents(tape), OrderedSignals(signals)[replay.next])]
    /\ UNCHANGED <<storeVars, runs, input, sealed, tape, signals>>

FinishReplay ==
    /\ replay.status = "running" /\ replay.next > Len(signals)
    /\ replay' = [replay EXCEPT !.status = "succeeded",
                                !.final = FinalEquity(replay.book, ReplayEvents(tape))]
    /\ UNCHANGED <<storeVars, runs, input, sealed, tape, signals>>

(* The trades of the run a client asks for: those the run was stored with, *)
(* for what complete_claimed_run adds to a queued run has none - it takes  *)
(* only a result with the run's input_hash, which is of no signals.        *)
Published(t) == UNION {DOMAIN r.trades : r \in {q \in runs : q.id = Job(t).run}}

(* list_run_trades: the ceiling is the highest trade when the listing      *)
(* began, and travels with the place of the last trade in the cursor.      *)
OpenTrades(t) ==
    /\ pc[t] = "idle"
    /\ \/ /\ Job(t).run \in IdsOf(runs)
          /\ page' = [page EXCEPT ![t] =
                [of |-> "trades", ceiling |-> Max(Published(t) \union {0}), last |-> 0,
                 got |-> <<>>, seen |-> Published(t), over |-> FALSE]]
          /\ pc' = [pc EXCEPT ![t] = "page"]
          /\ UNCHANGED <<todo, locks, inserted>>
       \/ /\ Job(t).run \notin IdsOf(runs)
          /\ EndTransaction(t)
          /\ UNCHANGED page

(* ORDER BY trade_sequence *)
Ascending(ids) ==
    [k \in 1..Cardinality(ids) |-> CHOOSE i \in ids : Cardinality({j \in ids : j < i}) = k - 1]

(* A page of them: the cursor says where it begins.                        *)
ReadTrades(t) ==
    LET p == page[t]
        rest == {i \in Published(t) : i <= p.ceiling /\ i > p.last}
        taken == {i \in rest : Cardinality({j \in rest : j < i}) < PageSize}
    IN /\ pc[t] = "page"
       /\ page' = [page EXCEPT ![t].got = @ \o Ascending(taken),
                               ![t].last = Max(taken \union {@}),
                               ![t].over = taken = rest]
       /\ IF taken = rest THEN EndTransaction(t) ELSE UNCHANGED <<todo, pc, locks, inserted>>

ListTrades(t) ==
    /\ todo[t] # <<>> /\ Job(t).op = "trades"
    /\ OpenTrades(t) \/ ReadTrades(t)
    /\ UNCHANGED <<strategies, versions, nextId, answers, refused, extras, runs, input,
                   sealed, engineVars>>

Quiet == \A t \in Threads : todo[t] = <<>>

SubmissionNext ==
    \/ \E t \in Threads :
          \/ StoreStep(t) /\ UNCHANGED <<runs, input, sealed, engineVars>>
          \/ pc[t] = "commit" /\ inserted[t].table # "runs" /\ CommitStore(t)
             /\ UNCHANGED <<runs, input, sealed, engineVars>>
          \/ Break(t) /\ input' = [input EXCEPT ![t] = NoInput]
             /\ UNCHANGED <<runs, sealed, engineVars>>
          \/ RunKey(t) \/ RunInput(t) \/ PersistRun(t) \/ CommitRun(t)
          \/ ListRuns(t) \/ ListTrades(t)
    \/ \E d \in Datasets : Seal(d)
    \/ StartReplay \/ ReplaySignal \/ FinishReplay
    \/ Quiet /\ replay.status \in {"idle", "failed", "succeeded"} /\ UNCHANGED submissionVars

SubmissionSpec == SubmissionInit /\ [][SubmissionNext]_submissionVars

-----------------------------------------------------------------------------
(* A key stands for one request: every client that used it and got an      *)
(* answer asked for the same thing and was given the same row, of a graph  *)
(* or a run that is the one it asked for - retries after a broken          *)
(* connection and requests at the same moment included (create_strategy,   *)
(* publish_version, create_run, persist_completed_run).                   *)
AnswersMatchRequests ==
    \A a, b \in answers :
        a.job.op = b.job.op /\ a.job.key = b.job.key =>
            a.id = b.id /\ RequestHash(a.job) = RequestHash(b.job)

(* A listing that was read to its end gives everything that was there when *)
(* it began, once and in order, whatever was committed between its pages;  *)
(* the versions of a strategy and the trades of a run are exactly those    *)
(* (list_versions: their ids are committed in order; list_run_trades: a    *)
(* run is stored with its trades), a list of runs may have got more        *)
(* (list_runs).                                                            *)
ListingIsWhole ==
    \A t \in Threads : page[t] # NoPage /\ page[t].over =>
        LET p == page[t]
            got == {p.got[i] : i \in DOMAIN p.got}
        IN /\ p.seen \subseteq got
           /\ \A i, j \in DOMAIN p.got :
                i < j => IF p.of = "trades" THEN p.got[i] < p.got[j] ELSE p.got[i] > p.got[j]
           /\ p.of # "runs" => got = p.seen

(* What a client is told is so: a retry gets the row of the first request, *)
(* versions are numbered as they were published, a listing is whole.       *)
AnswersAreTrue == AnswersMatchRequests /\ VersionsInOrder /\ ListingIsWhole

(* A trade is decided by what is known when it happens: cut off every      *)
(* candle that becomes known later and the trades up to this one are the   *)
(* same, in whatever order the candles were read; and it comes no earlier  *)
(* than its signal and the latency (_execution_event, _event_sort_key).    *)
TradesAreCausal ==
    LET trades == replay.book.trades
    IN \A n \in DOMAIN trades :
         LET known == SelectSeq(tape, LAMBDA c : c.known <= trades[n].known)
             alone == TradesOf(known, signals)
         IN \A k \in 1..n :
              /\ k <= Len(alone)
              /\ alone[k].side = trades[k].side
              /\ alone[k].known = trades[k].known
              /\ FillPrice(alone[k].close, alone[k].side) = trades[k].price

(* The final equity is the cash one started with, what the fills moved and *)
(* the fees took, and the position at the last close (run_candle_backtest, *)
(* _final_equity).                                                         *)
EquityAccounted ==
    replay.status = "succeeded" =>
        replay.final = InitialCash + CashMoved(replay.book.trades)
                         + Held(replay.book.trades) * Last(ReplayEvents(tape)).close * Parts * Parts
=============================================================================
