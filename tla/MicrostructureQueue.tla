------------------------ MODULE MicrostructureQueue ------------------------
(***************************************************************************)
(* The queue that turns stored trades into one-minute microstructure:      *)
(* microstructure_store.py, versioned_microstructure.py and the triggers   *)
(* of migration 20260717001200, composed with the realtime stream whose    *)
(* transactions fire them.                                                 *)
(*                                                                         *)
(* A trigger runs inside the transaction that inserts the row, so a step   *)
(* of the stream that adds verdicts or trades also adds invalidations      *)
(* (Triggered).  Candle revisions and quality events come from another     *)
(* writer, whose rows get their ids when they are inserted and are seen    *)
(* when it commits; a revision knows how many trades the minute had.       *)
(* Order books differ from trades only in their calculation and are left   *)
(* out, the receipt frontier moves with the trade frontier.  A retry is    *)
(* due at once; a lease is live or has lapsed.                             *)
(***************************************************************************)
EXTENDS RealtimeStream

CONSTANTS
    Workers,        \* aggregation workers
    MaxAttempts     \* microstructure_invalidations.max_attempts

ASSUME QueueAssumption == MaxAttempts \in Nat \ {0}

VARIABLES
    facts,      \* source_candle_revisions and data_quality_events, in id order
    queue,      \* microstructure_invalidations, in id order
    points,     \* microstructure_materializations
    mw          \* per worker: where it is in run_next_microstructure_invalidation

vars == <<streamVars, extras, facts, queue, points, mw>>

Free == [pc |-> "idle", id |-> 0, gen |-> 0, previous |-> "none", point |-> {}]
Open == {"pending", "retry_wait", "running"}
Waiting == {"pending", "retry_wait"}

-----------------------------------------------------------------------------
(* The triggers.                                                           *)

\* Ids of the visible facts of a kind about a bucket, known at a time.
FactIds(kind, m, b, at) ==
    {i \in DOMAIN facts :
        facts[i].visible /\ facts[i].kind = kind /\ facts[i].market = m
        /\ facts[i].bucket = b /\ facts[i].at <= at}

\* ORDER BY knowledge_at DESC, revision_number DESC, id DESC
LatestCandle(m, b, at) ==
    LET ids == FactIds("revision", m, b, at)
        newest == {i \in ids : \A j \in ids : facts[j].at <= facts[i].at}
    IN IF ids = {} THEN 0 ELSE Max(newest)
LatestQuality(m, b, at) == Max(FactIds("no_trade", m, b, at) \cup {0})

\* The highest connection verdict, of any session, detected by then
ConnectionCeiling(vs, at) == Max({i \in DOMAIN vs : vs[i].at <= at} \cup {0})
TradeCeiling(ts, m) == Max({i \in DOMAIN ts : ts[i].market = m} \cup {0})

Key(r) == <<r.market, r.bucket, r.candle, r.quality, r.connection>>
Row(m, b, through, candle, quality, connection, at) ==
    [market |-> m, bucket |-> b, through |-> through, candle |-> candle, quality |-> quality,
     connection |-> connection, at |-> at, status |-> "pending", attempts |-> 0,
     owner |-> "none", gen |-> 0, live |-> FALSE, visible |-> TRUE]

\* The partial unique index on waiting invalidations
Clashing(q, r) == {i \in DOMAIN q : Key(q[i]) = Key(r) /\ q[i].status \in Waiting}

InsertOrSkip(q, r) == IF Clashing(q, r) = {} THEN Append(q, r) ELSE q

\* enqueue_microstructure_invalidation coalesces with a waiting row.
\* Mutant: the row may also be running, its reading already taken.
CoalesceWithAny(q, r) ==
    LET same == {i \in DOMAIN q : Key(q[i]) = Key(r) /\ q[i].status \in Open}
    IN IF same = {}
       THEN Append(q, r)
       ELSE [q EXCEPT ![Max(same)].through = Max2(@, r.through), ![Max(same)].at = Max2(@, r.at)]
Coalesce(q, r) ==
    IF Clashing(q, r) = {}
    THEN Append(q, r)
    ELSE LET i == CHOOSE i \in Clashing(q, r) : TRUE
         IN [q EXCEPT ![i].through = Max2(@, r.through), ![i].at = Max2(@, r.at),
                      ![i].status = "pending"]

EnqueueTrade(q, vs, ts, i) ==
    LET t == ts[i]
    IN Coalesce(q, Row(t.market, t.bucket, i, LatestCandle(t.market, t.bucket, t.at),
                       LatestQuality(t.market, t.bucket, t.at), ConnectionCeiling(vs, t.at), t.at))

\* enqueue_quality_microstructure_invalidation: every minute of the verdict,
\* for every market of the session's scope it is about
EnqueueVerdict(q, ss, vs, ts, i) ==
    LET v == vs[i]
        about == {m \in Markets : v.market = m \/ (v.market = All /\ <<m, v.type>> \in ss[v.conn].scope)}
        row(c) == Row(c[1], c[2], TradeCeiling(ts, c[1]), LatestCandle(c[1], c[2], v.at),
                      LatestQuality(c[1], c[2], v.at), i, v.at)
        cells == SetToSeq(about \X (v.from..(v.to - 1)))
    IN IF v.type \in {"trade_event", "orderbook_snapshot"}
       THEN FoldLeft(LAMBDA acc, c : InsertOrSkip(acc, row(c)), q, cells)
       ELSE q

\* The invalidations a step of the stream enqueues: the verdicts of a flush
\* are inserted before its trades.
Triggered ==
    LET newVerdicts == [k \in 1..(Len(verdicts') - Len(verdicts)) |-> Len(verdicts) + k]
        newTrades == [k \in 1..(Len(trades') - Len(trades)) |-> Len(trades) + k]
        q1 == FoldLeft(LAMBDA q, i : EnqueueVerdict(q, sessions', verdicts', trades, i),
                       queue, newVerdicts)
    IN FoldLeft(LAMBDA q, i : EnqueueTrade(q, verdicts', trades', i), q1, newTrades)

StreamStep ==
    /\ StreamNext
    /\ queue' = Triggered
    /\ UNCHANGED <<facts, points, mw>>

\* A candle revision or a no-trade event of a bucket is inserted, with the
\* invalidation enqueue_source_candle_microstructure_invalidation adds ...
WriteFact(m, b, kind) ==
    LET i == Len(facts) + 1
        candle == IF kind = "revision" THEN i ELSE LatestCandle(m, b, now)
        quality == IF kind = "revision" THEN 0 ELSE i
        volume == IF kind = "revision"
                  THEN Cardinality({t \in DOMAIN tape[m] : Floor(tape[m][t]) = b}) ELSE 0
        row == [Row(m, b, TradeCeiling(trades, m), candle, quality,
                    ConnectionCeiling(verdicts, now), now) EXCEPT !.visible = FALSE]
    IN /\ i <= Len(bound.facts) /\ bound.facts[i] = <<b, kind>> /\ 2 * b <= now
       /\ \A j \in DOMAIN facts : facts[j].visible
       /\ facts' = Append(facts, [kind |-> kind, market |-> m, bucket |-> b, at |-> now,
                                  volume |-> volume, visible |-> FALSE])
       /\ queue' = InsertOrSkip(queue, row)
       /\ UNCHANGED <<streamVars, extras, points, mw>>

\* ... and both are seen once the writer commits.
CommitFact ==
    /\ \E i \in DOMAIN facts : ~facts[i].visible
    /\ facts' = [i \in DOMAIN facts |-> [facts[i] EXCEPT !.visible = TRUE]]
    /\ queue' = [i \in DOMAIN queue |-> [queue[i] EXCEPT !.visible = TRUE]]
    /\ UNCHANGED <<streamVars, extras, points, mw>>

-----------------------------------------------------------------------------
(* run_next_microstructure_invalidation                                    *)

Visible(i) == queue[i].visible
SameBucket(i, j) == queue[i].market = queue[j].market /\ queue[i].bucket = queue[j].bucket
Fenced(i) == \E v \in Workers : mw[v].pc = "fence" /\ mw[v].id = i
FencedBucket(i) == \E v \in Workers : mw[v].pc = "fence" /\ SameBucket(mw[v].id, i)

Predecessors(i) ==
    {j \in DOMAIN queue : Visible(j) /\ j < i /\ SameBucket(i, j) /\ queue[j].status \in Open}

\* Mutant: a running row whose lease lapsed is not claimed again.
DueUnlessRunning(i) == Visible(i) /\ queue[i].status \in Waiting
Due(i) ==
    Visible(i) /\ (queue[i].status \in Waiting \/ (queue[i].status = "running" /\ ~queue[i].live))

Claimable ==
    {i \in DOMAIN queue :
        /\ Due(i) /\ ~Fenced(i)
        /\ 2 * (queue[i].bucket + 1) <= now
        /\ Predecessors(i) = {}
        /\ \A j \in DOMAIN queue :
               ~(Visible(j) /\ SameBucket(i, j) /\ queue[j].status = "running" /\ queue[j].live)}

Claim(v) ==
    /\ mw[v].pc = "idle" /\ v \in bound.workers /\ Claimable # {}
    /\ LET i == Min(Claimable)
       IN /\ queue' = [queue EXCEPT ![i].status = "running", ![i].owner = v, ![i].live = TRUE,
                           ![i].attempts = @ + 1, ![i].gen = @ + 1]
          /\ mw' = [mw EXCEPT ![v] = [Free EXCEPT !.pc = "claimed", !.id = i,
                        !.gen = queue[i].gen + 1, !.previous = queue[i].status]]
    /\ UNCHANGED <<streamVars, extras, facts, points>>

Mine(v) == queue[mw[v].id].owner = v /\ queue[mw[v].id].gen = mw[v].gen

Given(r, status, attempts) ==
    [r EXCEPT !.status = status, !.attempts = attempts, !.owner = "none", !.live = FALSE]
Backoff(r) == Given(r, IF r.attempts >= MaxAttempts THEN "dead_letter" ELSE "retry_wait", r.attempts)

\* The row a release leaves: a waiting row of the same key makes the release
\* break the unique index, and the handler's own update breaks it again unless
\* it ends the row, which otherwise stays running until the lease lapses.
Released(i, r) ==
    LET others == [queue EXCEPT ![i].status = "running"]
        stuck(x) == x.status \in Waiting /\ Clashing(others, queue[i]) # {}
    IN IF ~stuck(r) THEN [queue EXCEPT ![i] = r]
       ELSE IF ~stuck(Backoff(queue[i])) THEN [queue EXCEPT ![i] = Backoff(queue[i])]
       ELSE queue

\* _connection_qualities, for trades: the latest verdict that spans the bucket
TradeVerdicts(r) ==
    {i \in DOMAIN verdicts :
        i <= r.connection /\ verdicts[i].at <= r.at /\ Covers(i, r.market, "trade_event", r.bucket)}
TradeVerdict(r) ==
    LET newest == {i \in TradeVerdicts(r) :
                     \A j \in TradeVerdicts(r) : verdicts[j].at <= verdicts[i].at}
    IN Max(newest)

\* _source_candle_input: a no-trade event wins over a revision
QualityInput(r) ==
    {i \in FactIds("no_trade", r.market, r.bucket, r.at) : r.quality = 0 \/ i <= r.quality}
CandleInput(r) ==
    {i \in FactIds("revision", r.market, r.bucket, r.at) : r.candle # 0 /\ i <= r.candle}

\* _trade_inputs
TradeInputs(r) ==
    {i \in DOMAIN trades :
        /\ trades[i].market = r.market /\ trades[i].bucket = r.bucket
        /\ i <= r.through /\ trades[i].at <= r.at}

\* _trade_values: a count is only published when it agrees with the candle.
TradeStatus(quality, volume, inputs) ==
    CASE quality = "no_trade" -> IF inputs = {} /\ volume = 0 THEN "ready" ELSE "missing"
      [] quality = "available" -> IF inputs # {} /\ Cardinality(inputs) = volume
                                  THEN "ready" ELSE "missing"
      [] OTHER -> "missing"

\* calculate_microstructure_bucket: which inputs went in, and as of when.  A
\* verdict other than available decides the quality, else the candle does.
Point(r) ==
    LET none == QualityInput(r) # {}
        candle == facts[Max(IF none THEN QualityInput(r) ELSE CandleInput(r))]
        verdict == verdicts[TradeVerdict(r)]
        quality == IF verdict.quality # "available" THEN verdict.quality
                   ELSE IF none THEN "no_trade" ELSE "available"
    IN [market |-> r.market, bucket |-> r.bucket, trades |-> TradeInputs(r),
        quality |-> quality, status |-> TradeStatus(quality, candle.volume, TradeInputs(r)),
        at |-> Max({trades[i].at : i \in TradeInputs(r)} \cup {candle.at, verdict.at})]

\* The fence: the advisory lock of the bucket, the row locked and read again
EnterFence(v) ==
    LET i == mw[v].id
        r == queue[i]
        restored == IF mw[v].previous \in Waiting THEN mw[v].previous ELSE "retry_wait"
    IN /\ mw[v].pc = "claimed" /\ ~FencedBucket(i)
       /\ IF ~(Mine(v) /\ r.status = "running" /\ r.live)
          THEN mw' = [mw EXCEPT ![v] = Free] /\ UNCHANGED queue
          ELSE IF Predecessors(i) # {}
          THEN /\ queue' = Released(i, Given(r, restored, r.attempts - 1))
               /\ mw' = [mw EXCEPT ![v] = Free]
          ELSE IF TradeVerdicts(r) = {} \/ (QualityInput(r) = {} /\ CandleInput(r) = {})
          THEN /\ queue' = Released(i, Backoff(r))
               /\ mw' = [mw EXCEPT ![v] = Free]
          ELSE /\ mw' = [mw EXCEPT ![v].pc = "fence", ![v].point = {Point(r)}]
               /\ UNCHANGED queue
       /\ UNCHANGED <<streamVars, extras, facts, points>>

\* _insert_materialization: a point that is there already is inserted once
\* (ON CONFLICT DO NOTHING); the trades it was computed with go with it.
InsertMaterialization(point) == points' = points \cup {point}

\* The materialization and the end of the invalidation, in one transaction
Materialize(v) ==
    LET i == mw[v].id
    IN /\ mw[v].pc = "fence"
       /\ IF queue[i].live
          THEN /\ \E point \in mw[v].point : InsertMaterialization(point)
               /\ queue' = [queue EXCEPT ![i] = Given(@, "succeeded", @.attempts)]
          ELSE UNCHANGED <<points, queue>>
       /\ mw' = [mw EXCEPT ![v] = Free]
       /\ UNCHANGED <<streamVars, extras, facts>>

\* An exception inside the fence: rolled back, then the row is given back.
FenceFails(v) ==
    /\ mw[v].pc = "fence"
    /\ Spend("queue")
    /\ queue' = Released(mw[v].id, Backoff(queue[mw[v].id]))
    /\ mw' = [mw EXCEPT ![v] = Free]
    /\ UNCHANGED <<streamVars, facts, points>>

WorkerDies(v) ==
    /\ mw[v].pc # "idle"
    /\ Spend("queue")
    /\ mw' = [mw EXCEPT ![v] = Free]
    /\ UNCHANGED <<streamVars, facts, queue, points>>

\* A lease lapses: of its own accord once nobody works under it.
Working(i) == \E v \in Workers : mw[v].pc # "idle" /\ mw[v].id = i /\ mw[v].gen = queue[i].gen
Lapse(i) ==
    /\ queue[i].status = "running" /\ queue[i].live /\ ~Working(i)
    /\ queue' = [queue EXCEPT ![i].live = FALSE]
    /\ UNCHANGED <<streamVars, extras, facts, points, mw>>
LapseEarly(i) ==
    /\ queue[i].live /\ Working(i)
    /\ Spend("queue")
    /\ queue' = [queue EXCEPT ![i].live = FALSE]
    /\ UNCHANGED <<streamVars, facts, points, mw>>

-----------------------------------------------------------------------------
Init ==
    /\ StreamInit
    /\ extras = 0
    /\ facts = <<>>
    /\ queue = <<>>
    /\ points = {}
    /\ mw = [v \in Workers |-> Free]

Step(v) == Claim(v) \/ EnterFence(v) \/ Materialize(v)

Next ==
    \/ StreamStep
    \/ \E m \in Markets, b \in 0..(Floor(bound.tick) - 1), kind \in {"revision", "no_trade"} :
           WriteFact(m, b, kind)
    \/ CommitFact
    \/ \E v \in Workers : Step(v) \/ FenceFails(v) \/ WorkerDies(v)
    \/ \E i \in DOMAIN queue : Lapse(i) \/ LapseEarly(i)

Spec == Init /\ [][Next]_vars

\* The aggregation workers loop, the writer's transaction ends, the database
\* clock passes a lease nobody renews.  Nothing is assumed of the stream.
FairSpec ==
    /\ Spec
    /\ \A v \in Workers : WF_vars(Step(v))
    /\ WF_vars(CommitFact)
    /\ WF_vars(\E i \in DOMAIN queue : Lapse(i))

-----------------------------------------------------------------------------
(* Properties.                                                             *)

\* No stored trade is forgotten by the queue: some invalidation of its minute
\* that reaches it is unfinished or dead-lettered, or a materialization of the
\* minute was computed with it.
NoTradeForgotten ==
    \A i \in DOMAIN trades :
        \/ \E p \in points : p.market = trades[i].market /\ i \in p.trades
        \/ \E j \in DOMAIN queue :
               /\ queue[j].market = trades[i].market /\ queue[j].bucket = trades[i].bucket
               /\ i <= queue[j].through /\ trades[i].at <= queue[j].at
               /\ queue[j].status # "succeeded"

\* Every invalidation of a minute that is over ends, with a materialization or
\* as a dead letter: neither a crash, nor a release that breaks the unique
\* index, nor rows that wait for each other keep the bucket from draining, as
\* long as there is a worker.
EveryInvalidationEnds ==
    <>[](\A i \in DOMAIN queue : bound.workers # {} /\
            2 * (queue[i].bucket + 1) <= now => queue[i].status \notin Open)
=============================================================================
