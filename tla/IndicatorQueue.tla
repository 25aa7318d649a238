-------------------------- MODULE IndicatorQueue --------------------------
(***************************************************************************)
(* The queue that keeps indicators and market statistics current:          *)
(* indicator_store.py and the triggers of migration 20260717001100.        *)
(*                                                                         *)
(* One series (an instrument and a candle unit).  Slots are its candles in *)
(* time order.  What is written of it is a plan, in the order of the ids:  *)
(* source candles and quality events (the series of 1m), or the rollups of *)
(* recomputations and the rows that complete one (every other unit).  Each *)
(* gets an id and, by trigger or with the event, the invalidation with the *)
(* same number; both become visible when the transaction commits.          *)
(* A frontier is what was known at a time, up to a source revision and up  *)
(* to a quality event; its parts are compared one by one, so that of two   *)
(* frontiers neither may hold the other.  A quality_event_through_id of    *)
(* NULL is 0.  Every indicator value of a slot is a fold over the candles  *)
(* up to it, so a value, and the checkpoint a later calculation resumes    *)
(* from, is the set of <<slot, candle, event>> folded into it: the event   *)
(* is the one that gives a source candle its quality, 0 for none.          *)
(* indicator_materializations and market_statistics are written together,  *)
(* from checkpoints that must agree, and are one table here.               *)
(*                                                                         *)
(* A lease is live or has lapsed; a retry is due at once.  How long the    *)
(* 120 and 5 seconds last is left open.                                    *)
(***************************************************************************)
EXTENDS Naturals, Sequences, FiniteSets, FiniteSetsExt

CONSTANTS
    Workers,        \* aggregation workers
    NumSlots,
    Chunk,          \* candles materialised by one claim: 512
    Batch,          \* invalidations one claim takes: 512
    MaxAttempts,    \* indicator_invalidations.max_attempts
    PageSize,       \* points on a page of a reading
    Plans,          \* bound: what is written, sequences of
                    \*   [tx, what, slot, to, known, source, quality, rank]
    MaxExtras,      \* bound: lapses, faults, crashes, readings
    None

ASSUME BoundsAssumption ==
    /\ NumSlots \in Nat \ {0}
    /\ Chunk \in Nat \ {0}
    /\ Batch \in Nat \ {0}
    /\ MaxAttempts \in Nat \ {0}
    /\ PageSize \in Nat \ {0}

\* A source revision and a quality event name no frontier: its parts are their
\* own ids and what was committed before them.
ASSUME PlansAssumption ==
    \A p \in Plans : \A n \in DOMAIN p :
        /\ p[n].what \in {"source", "event", "rollup", "completion"}
        /\ p[n].known \in Nat /\ p[n].source \in Nat /\ p[n].quality \in Nat

Slots == 1..NumSlots

VARIABLES
    plan,       \* what is written in this behaviour
    inv,        \* indicator_invalidations with what each stands for, in id order
    points,     \* indicator_materializations, in id order
    lock,       \* who holds the series' session advisory lock
    worker,     \* per worker: where it is in run_next_indicator_invalidation
    reader,     \* a reading of the series, page by page under one ceiling
    overtaken,  \* a write became visible after a younger one was computed
    extras

vars == <<plan, inv, points, lock, worker, reader, overtaken, extras>>

Idle == [pc |-> "idle", batch |-> {}, fresh |-> FALSE, state |-> {}, chunk |-> {}, next |-> 0]
NoReading == [asOf |-> 0, ceiling |-> 0, after |-> 0, got |-> {}, due |-> {}]

Ids == DOMAIN inv
Frontier(i) == inv[i].frontier
LastSlot(state) == Max({p[1] : p \in state})
Spend == extras < MaxExtras /\ extras' = extras + 1

LastOf(S) == IF S = {} THEN 0 ELSE Max(S)

\* ORDER BY ... DESC of several columns.
After(a, b) == \E n \in DOMAIN a : a[n] > b[n] /\ \A k \in 1..(n - 1) : a[k] = b[k]

----------------------------------------------------------------------------
\* What a frontier lets a reader see: of source revisions and events of the
\* 1m series, and of rollups, whose quality a ceiling of NULL does not bound.
Visible(i, f) ==
    /\ inv[i].committed
    /\ plan[i].known <= f.known
    /\ CASE plan[i].what = "source" -> i <= f.source
         [] plan[i].what = "event" -> i <= f.quality
         [] plan[i].what = "rollup" ->
                /\ plan[i].source <= f.source
                /\ f.quality # 0 => plan[i].quality <= f.quality
         [] OTHER -> FALSE

\* The rows of a slot: by source_as_of, revision_number and id, or by
\* source_revision_through_id, quality_event_through_id, knowledge_at and id.
CandleKey(i) ==
    IF plan[i].what = "source" THEN <<plan[i].rank, i>>
    ELSE <<plan[i].source, plan[i].quality, plan[i].known, i>>
Known(s, f) ==
    {i \in Ids : plan[i].what \in {"source", "rollup"} /\ plan[i].slot = s /\ Visible(i, f)}
RowOf(s, f) ==
    LET known == Known(s, f)
    IN  CHOOSE i \in known : \A j \in known \ {i} : After(CandleKey(i), CandleKey(j))

\* ORDER BY event.id DESC: the event that gives a source candle its quality.
Judged(i, f) ==
    IF plan[i].what # "source" THEN 0
    ELSE LastOf({e \in Ids : /\ plan[e].what = "event" /\ Visible(e, f)
                             /\ plan[e].slot <= plan[i].slot /\ plan[i].slot <= plan[e].to})

\* The series as of a frontier.
Candles(f) ==
    {LET i == RowOf(s, f) IN <<s, i, Judged(i, f)>> : s \in {t \in Slots : Known(t, f) # {}}}

\* read_indicator_points: of the points known at a time, up to a ceiling, the
\* first by source, quality, time and id.
PointKey(i) ==
    <<points[i].frontier.source, points[i].frontier.quality, points[i].frontier.known, i>>
Better(i, j) == i = j \/ After(PointKey(i), PointKey(j))
Readable(ceiling, asOf) == {i \in 1..ceiling : points[i].frontier.known <= asOf}
Projected(ceiling, asOf) ==
    LET readable == Readable(ceiling, asOf)
    IN  {i \in readable : \A j \in readable : points[j].slot = points[i].slot => Better(i, j)}

\* Every part of f is within g.
Within(f, g) == f.known <= g.known /\ f.source <= g.source /\ f.quality <= g.quality

\* Mutant: a checkpoint is looked for by its source revision alone.
ParentsBySource(start, f) ==
    {i \in DOMAIN points : points[i].slot < start /\ points[i].frontier.source <= f.source}

\* _load_parent_checkpoints: the checkpoint of the last slot before the
\* replay's start, of those within f; by source, quality and id.
Parents(start, f) ==
    {i \in DOMAIN points : points[i].slot < start /\ Within(points[i].frontier, f)}
ParentKey(i) == <<points[i].slot, points[i].frontier.source, points[i].frontier.quality, i>>
ParentState(start, f) ==
    LET found == Parents(start, f)
    IN  IF found = {} THEN {}
        ELSE points[CHOOSE i \in found :
                 \A j \in found \ {i} : After(ParentKey(i), ParentKey(j))].value

\* _replay_start_from_checkpoints
Usable(state, start) == state # {} /\ LastSlot(state) + 1 <= start

----------------------------------------------------------------------------
Init ==
    /\ plan \in Plans
    /\ inv = <<>>
    /\ points = <<>>
    /\ lock = None
    /\ worker = [w \in Workers |-> Idle]
    /\ reader = NoReading
    /\ overtaken = FALSE
    /\ extras = 0

\* What a writer's transaction sees of what was written before.
Seen(tx) == {k \in Ids : inv[k].committed \/ plan[k].tx = tx}

\* The frontier of the invalidation with number i, plan[i] having been inserted:
\* of a source revision, itself and the last quality event detected by then; of
\* a quality event, itself and the last source revision; of a recomputation,
\* what its rows say.
FrontierAt(i) ==
    LET p == plan[i]
        before == Seen(p.tx)
    IN  [known |-> p.known,
         source |-> CASE p.what = "source" -> i
                      [] p.what = "event" -> LastOf({k \in before : plan[k].what = "source"})
                      [] OTHER -> p.source,
         quality |-> CASE p.what = "source" ->
                            LastOf({k \in before : plan[k].what = "event"
                                                    /\ plan[k].known <= p.known})
                       [] p.what = "event" -> i
                       [] OTHER -> p.quality]

\* A writer's transaction inserts a row and, by enqueue_indicator_invalidation,
\* enqueue_source_indicator_invalidation, enqueue_completed_rollup_indicator_-
\* invalidation or coverage_transition.py, its invalidation.  An event before
\* any source revision has none.
Insert ==
    LET i == Len(inv) + 1
        f == FrontierAt(i)
    IN  /\ i \in DOMAIN plan
        /\ inv' = Append(inv,
               [slot |-> plan[i].slot, frontier |-> f, committed |-> FALSE,
                status |-> IF plan[i].what = "event" /\ f.source = 0 THEN "none" ELSE "pending",
                attempts |-> 0, gen |-> 0, owner |-> None, live |-> FALSE,
                progress |-> 0, state |-> {}])
        /\ UNCHANGED <<plan, points, lock, worker, reader, overtaken, extras>>

\* Rows the fence transaction of some worker has updated and not committed.
Pinned == UNION {{b[1] : b \in worker[w].batch} :
                    w \in {v \in Workers : worker[v].pc \in {"fenced", "read"}}}

Rows(tx) == {i \in DOMAIN plan : plan[i].tx = tx}

\* A writer's transaction commits: too late, if a younger invalidation is
\* already past the comparison of frontiers.
Commit(tx) ==
    /\ Rows(tx) # {} /\ Rows(tx) \subseteq Ids
    /\ \A i \in Rows(tx) : ~inv[i].committed
    /\ inv' = [i \in Ids |-> IF i \in Rows(tx) THEN [inv[i] EXCEPT !.committed = TRUE]
                             ELSE inv[i]]
    /\ overtaken' = (overtaken \/ \E i \in Rows(tx), j \in Ids \ Rows(tx) :
                        /\ j > i
                        /\ j \in Pinned \/ inv[j].status = "succeeded" \/ inv[j].progress # 0)
    /\ UNCHANGED <<plan, points, lock, worker, reader, extras>>

----------------------------------------------------------------------------
Unfinished(i) == inv[i].committed /\ inv[i].status \in {"pending", "retry_wait", "running"}
Leased(i) == inv[i].status = "running" /\ inv[i].live
Due(i) == Unfinished(i) /\ ~Leased(i)
Preceded(i) == \E p \in 1..(i - 1) : Unfinished(p) /\ Frontier(p) # Frontier(i)
Claimable == {i \in Ids : Due(i) /\ i \notin Pinned /\ ~Preceded(i)}
\* The candidates of the seed's frontier, FOR UPDATE SKIP LOCKED LIMIT 512.
BatchOf(seed) ==
    LET same == {i \in Claimable : Frontier(i) = Frontier(seed)}
    IN  {i \in same : Cardinality({j \in same : j < i}) < Batch}

\* The claim: seed, try-lock of the claim, batch; one transaction.
Claim(w) ==
    /\ worker[w].pc = "idle"
    /\ Claimable # {}
    /\ ~\E i \in Ids : inv[i].committed /\ Leased(i)
    /\ LET b == BatchOf(Min(Claimable))
       IN  /\ inv' = [i \in Ids |->
                        IF i \in b
                        THEN [inv[i] EXCEPT !.status = "running", !.attempts = @ + 1,
                                            !.gen = @ + 1, !.owner = w, !.live = TRUE]
                        ELSE inv[i]]
           /\ worker' = [worker EXCEPT ![w] =
                            [Idle EXCEPT !.pc = "claimed",
                                         !.batch = {<<i, inv[i].gen + 1>> : i \in b}]]
    /\ UNCHANGED <<plan, points, lock, reader, overtaken, extras>>

Held(w) == {b[1] : b \in worker[w].batch}
FrontierOf(w) == Frontier(Min(Held(w)))
Owned(w, b) == inv[b[1]].owner = w /\ inv[b[1]].gen = b[2]

Lock(w) ==
    /\ worker[w].pc = "claimed"
    /\ lock = None
    /\ lock' = w
    /\ worker' = [worker EXCEPT ![w].pc = "locked"]
    /\ UNCHANGED <<plan, inv, points, reader, overtaken, extras>>

\* Mutant: a worker that leaves early keeps its session, and the lock.
LeaveLocked(w) == worker' = [worker EXCEPT ![w] = Idle] /\ UNCHANGED lock
\* finally: unlock and close the session.
Leave(w) ==
    /\ worker' = [worker EXCEPT ![w] = Idle]
    /\ lock' = IF lock = w THEN None ELSE lock

\* _has_preceding_unfinished_frontier
Overtaken(w) == \E p \in 1..(Min(Held(w)) - 1) : Unfinished(p) /\ Frontier(p) # FrontierOf(w)

Renewed(w) == \A b \in worker[w].batch : Owned(w, b) /\ Leased(b[1])

\* The renewal misses a row: roll back and leave.
LeaseLost(w) ==
    /\ worker[w].pc = "locked"
    /\ ~Renewed(w)
    /\ Leave(w)
    /\ UNCHANGED <<plan, inv, points, reader, overtaken, extras>>

\* _release_claimed_invalidations
Release(w) ==
    /\ worker[w].pc = "locked"
    /\ Renewed(w)
    /\ Overtaken(w)
    /\ inv' = [i \in Ids |->
                 IF i \in Held(w)
                 THEN [inv[i] EXCEPT !.status = "pending", !.owner = None, !.live = FALSE,
                                     !.attempts = @ - 1]
                 ELSE inv[i]]
    /\ Leave(w)
    /\ UNCHANGED <<plan, points, reader, overtaken, extras>>

\* The renewal holds every row until the fence transaction ends.
Fence(w) ==
    /\ worker[w].pc = "locked"
    /\ Renewed(w)
    /\ ~Overtaken(w)
    /\ worker' = [worker EXCEPT ![w].pc = "fenced", ![w].fresh = TRUE]
    /\ UNCHANGED <<plan, inv, points, lock, reader, overtaken, extras>>

EffectiveStart(b) ==
    Min({IF inv[i].progress # 0 THEN inv[i].progress ELSE inv[i].slot : i \in b})
Progressed(b) == {i \in b : inv[i].progress # 0}
\* The batch's own progress goes before the stored checkpoints.
Checkpoints(b, f) ==
    IF Progressed(b) # {} THEN {inv[i].state : i \in Progressed(b)}
    ELSE {ParentState(EffectiveStart(b), f)}

\* _next_rollup_at: where rollups are found; a ceiling of NULL counts as 0 here.
Found(begin, f) ==
    {s \in Slots : s >= begin /\ \E i \in Known(s, f) : plan[i].quality <= f.quality}
\* The candles of a claim: of 1m all that follow, of rollups those up to 512
\* candles after the first one found.
Window(begin, f) ==
    LET found == Found(begin, f)
    IN  {c \in Candles(f) :
            /\ c[1] >= begin
            /\ plan[c[2]].what = "rollup" => found # {} /\ c[1] <= Min(found) + Chunk}
\* next_progress_at: what of the window is left, or else the next rollup found.
Later(begin, f, chunk) ==
    LET left == Window(begin, f) \ chunk
    IN  IF left # {} THEN {c[1] : c \in left} ELSE Found(begin, f) \ {c[1] : c \in chunk}

\* Load the checkpoints, read the candles as of the frontier, calculate.
Read(w) ==
    /\ worker[w].pc = "fenced"
    /\ \E state \in Checkpoints(Held(w), FrontierOf(w)) :
         LET use == Usable(state, EffectiveStart(Held(w)))
             begin == IF use THEN LastSlot(state) + 1 ELSE 1
             found == Window(begin, FrontierOf(w))
             chunk == {c \in found : Cardinality({d \in found : d[1] < c[1]}) < Chunk}
             later == Later(begin, FrontierOf(w), chunk)
         IN  worker' = [worker EXCEPT ![w].pc = "read",
                            ![w].state = IF use THEN state ELSE {},
                            ![w].chunk = chunk,
                            ![w].next = IF later = {} THEN 0 ELSE Min(later)]
    /\ UNCHANGED <<plan, inv, points, lock, reader, overtaken, extras>>

\* materialize_indicator_points, materialize_market_statistics: a point that
\* exists already, at whatever time known, is left alone (ON CONFLICT DO NOTHING).
ChunkPoint(w, c) ==
    [slot |-> c[1], frontier |-> FrontierOf(w),
     value |-> worker[w].state \cup {d \in worker[w].chunk : d[1] <= c[1]}]
SamePoint(p, q) ==
    /\ p.slot = q.slot /\ p.value = q.value
    /\ p.frontier.source = q.frontier.source /\ p.frontier.quality = q.frontier.quality
NewPoints(w) ==
    {p \in {ChunkPoint(w, c) : c \in worker[w].chunk} :
        ~\E i \in DOMAIN points : SamePoint(points[i], p)}
BySlot(ps) ==
    [k \in 1..Cardinality(ps) |->
        CHOOSE p \in ps : Cardinality({q \in ps : q.slot < p.slot}) = k - 1]

\* _materialize_with_lease_fence: the points and the end of the chunk commit
\* together, while the lease that was renewed is live.
Complete(w) ==
    /\ worker[w].pc = "read"
    /\ worker[w].fresh
    /\ points' = points \o BySlot(NewPoints(w))
    /\ LET more == worker[w].next # 0
       IN  inv' = [i \in Ids |->
                     IF i \in Held(w)
                     THEN [inv[i] EXCEPT !.status = IF more THEN "pending" ELSE "succeeded",
                             !.progress = worker[w].next, !.attempts = 0,
                             !.state = IF more THEN worker[w].state \cup worker[w].chunk ELSE {},
                             !.owner = None, !.live = FALSE]
                     ELSE inv[i]]
    /\ Leave(w)
    /\ UNCHANGED <<plan, reader, overtaken, extras>>

\* The fence transaction is rolled back: by an error of the calculation or
\* the database, or because the renewed lease lapsed before the end.
Fail(w) ==
    /\ worker[w].pc \in {"fenced", "read"}
    /\ IF worker[w].pc = "read" /\ ~worker[w].fresh THEN UNCHANGED extras ELSE Spend
    /\ worker' = [worker EXCEPT ![w] = [Idle EXCEPT !.pc = "failed", !.batch = worker[w].batch]]
    /\ UNCHANGED <<plan, inv, points, lock, reader, overtaken>>

\* The exception handler, in a transaction of its own.
Handle(w) ==
    /\ worker[w].pc = "failed"
    /\ inv' = [i \in Ids |->
                 IF \E b \in worker[w].batch : b[1] = i /\ Owned(w, b)
                 THEN IF inv[i].attempts >= MaxAttempts
                      THEN [inv[i] EXCEPT !.status = "dead_letter", !.owner = None,
                                          !.live = FALSE, !.progress = 0, !.state = {}]
                      ELSE [inv[i] EXCEPT !.status = "retry_wait", !.owner = None,
                                          !.live = FALSE]
                 ELSE inv[i]]
    /\ Leave(w)
    /\ UNCHANGED <<plan, points, reader, overtaken, extras>>

\* A worker dies: its session ends, and with it the transaction and the lock.
Crash(w) ==
    /\ worker[w].pc # "idle"
    /\ Spend
    /\ Leave(w)
    /\ UNCHANGED <<plan, inv, points, reader, overtaken>>

\* Time passes: the lease of a claim nobody works on lapses, or one in use
\* does, as committed or as renewed.
Abandoned(i) == ~\E w \in Workers : <<i, inv[i].gen>> \in worker[w].batch
Lapse(i) ==
    /\ Leased(i)
    /\ IF Abandoned(i) THEN UNCHANGED extras ELSE Spend
    /\ inv' = [inv EXCEPT ![i].live = FALSE]
    /\ UNCHANGED <<plan, points, lock, worker, reader, overtaken>>

LapseRenewed(w) ==
    /\ worker[w].fresh
    /\ Spend
    /\ worker' = [worker EXCEPT ![w].fresh = FALSE]
    /\ UNCHANGED <<plan, inv, points, lock, reader, overtaken>>

----------------------------------------------------------------------------
\* indicator_projection_ceiling, then pages of read_indicator_points under it.
StartReading(asOf) ==
    LET known == {i \in DOMAIN points : points[i].frontier.known <= asOf}
    IN  /\ reader = NoReading
        /\ known # {}
        /\ Spend
        /\ reader' = [asOf |-> asOf, ceiling |-> Max(known), after |-> 0, got |-> {},
                      due |-> {points[i] : i \in Projected(Max(known), asOf)}]
        /\ UNCHANGED <<plan, inv, points, lock, worker, overtaken>>

\* Mutant: a later page is projected from the points of its own time.
PageOfNow == {i \in Projected(Len(points), reader.asOf) : points[i].slot > reader.after}
Page == {i \in Projected(reader.ceiling, reader.asOf) : points[i].slot > reader.after}

ReadPage ==
    /\ reader.ceiling # 0
    /\ Page # {}
    /\ LET page == {i \in Page :
                      Cardinality({j \in Page : points[j].slot < points[i].slot}) < PageSize}
       IN  reader' = [reader EXCEPT !.got = @ \cup {points[i] : i \in page},
                                    !.after = Max({points[i].slot : i \in page})]
    /\ UNCHANGED <<plan, inv, points, lock, worker, overtaken, extras>>

EndReading ==
    /\ reader.ceiling # 0
    /\ Page = {}
    /\ reader' = NoReading
    /\ UNCHANGED <<plan, inv, points, lock, worker, overtaken, extras>>

----------------------------------------------------------------------------
Step(w) ==
    \/ Claim(w) \/ Lock(w) \/ LeaseLost(w) \/ Release(w) \/ Fence(w) \/ Read(w)
    \/ Complete(w) \/ Fail(w) \/ Handle(w)

Transactions == {plan[i].tx : i \in DOMAIN plan}

Next ==
    \/ Insert
    \/ \E tx \in Transactions : Commit(tx)
    \/ \E i \in Ids : Lapse(i)
    \/ \E w \in Workers : Step(w) \/ Crash(w) \/ LapseRenewed(w)
    \/ (\E i \in Ids : StartReading(Frontier(i).known)) \/ ReadPage \/ EndReading

Spec == Init /\ [][Next]_vars

\* A worker's loop calls again and again; a lease that nobody renews lapses;
\* a writer's transaction commits.
FairSpec ==
    /\ Spec
    /\ \A w \in Workers : WF_vars(Step(w))
    /\ WF_vars(\E tx \in Transactions : Commit(tx))
    /\ WF_vars(\E i \in Ids : Abandoned(i) /\ Lapse(i))

----------------------------------------------------------------------------
\* A point folds one candle of its own slot, and of every slot before it at most
\* one: what was visible as of its own frontier, and nothing known later.
FoldsThePast(p) ==
    /\ \A c \in p.value : /\ c[1] <= p.slot
                          /\ Visible(c[2], p.frontier)
                          /\ c[3] # 0 => Visible(c[3], p.frontier)
    /\ \A c, d \in p.value : c[1] = d[1] => c = d
    /\ \E c \in p.value : c[1] = p.slot

Settled ==
    /\ \A i \in Ids : inv[i].committed /\ inv[i].status \in {"none", "succeeded"}
    /\ ~overtaken

\* What i changed was computed again to the end of the series, with the candles
\* that its frontier shows, unless a later write belongs to its past, or a
\* ceiling of NULL shows rollups that _next_rollup_at does not find.
ImpactRecomputed(i) ==
    LET f == Frontier(i)
        now == Candles(f)
        Impact(value) == {d \in value : d[1] >= inv[i].slot}
    IN  /\ \A j \in Ids : j > i /\ Visible(j, f) => Frontier(j) = f
        /\ \A c \in now : plan[c[2]].quality <= f.quality
        => \A c \in Impact(now) :
              \E k \in DOMAIN points :
                  /\ points[k].slot = c[1]
                  /\ points[k].frontier.source = f.source
                  /\ points[k].frontier.quality = f.quality
                  /\ Impact(points[k].value) = {d \in Impact(now) : d[1] <= c[1]}

\* No ceiling of NULL shows a rollup that names an event.
Bounded ==
    \A i, k \in Ids : plan[k].what = "rollup" /\ Visible(k, Frontier(i))
                      => plan[k].quality <= Frontier(i).quality

\* Frontiers that came in order: each holds the ones before.
FrontiersGrow == \A i, j \in Ids : i < j => Within(Frontier(i), Frontier(j))

\* What a reader as of a time is given of every slot, and what it should be: the
\* fold over the newest candles of the last frontier known by then.
Given(asOf) ==
    {[slot |-> points[i].slot, value |-> points[i].value] : i \in Projected(Len(points), asOf)}
Series(f) ==
    LET now == Candles(f)
    IN  {[slot |-> c[1], value |-> {d \in now : d[1] <= c[1]}] : c \in now}
UpToDate(asOf) == Given(asOf) = Series(Frontier(Max({i \in Ids : Frontier(i).known <= asOf})))

\* No value of the series has seen more than its frontier (no look-ahead), in
\* whatever order the writes are committed and the frontiers come, as long as no
\* ceiling of NULL shows what names an event: a checkpoint that saw it could be
\* resumed under an earlier event.  Once every invalidation has succeeded, none
\* having been overtaken by a write that was committed late, every impact was
\* recomputed; and if the frontiers came in order, a reader as of any time gets
\* the fold over the newest candles known then, whatever chunks, batches, retries
\* and workers it took and whichever checkpoint each resumed from
\* (run_next_indicator_invalidation, _load_parent_checkpoints).
SeriesIsPointInTime ==
    /\ Bounded => \A i \in DOMAIN points : FoldsThePast(points[i])
    /\ Settled => \A i \in Ids : inv[i].status = "succeeded" => ImpactRecomputed(i)
    /\ Settled /\ FrontiersGrow => \A i \in Ids : UpToDate(Frontier(i).known)

\* The pages of one reading add up to the series as it stood when its ceiling
\* was taken, while points of the same slots keep being added
\* (read_indicator_points under indicator_projection_ceiling).
PagesAgree == reader.ceiling # 0 /\ Page = {} => reader.got = reader.due

\* Every invalidation that becomes visible ends, as long as leases keep being
\* cut short only finitely often: no worker waits for ever on the series' lock,
\* on a predecessor, or on its own batch (run_next_indicator_invalidation).
EveryInvalidationEnds ==
    <>[](\A i \in Ids :
            inv[i].committed => inv[i].status \in {"none", "succeeded", "dead_letter"})
=============================================================================
