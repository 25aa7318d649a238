------------------------------ MODULE Rollups ------------------------------
(***************************************************************************)
(* From a fetched candle to the rollup a reader is served:                 *)
(* postgres_repository.py (record_incremental_collection, _upsert_candles, *)
(* the revision ledger, materialize_candle_rollups, the recompute jobs and *)
(* the full aggregation jobs), coverage_transition.py, aggregation.py,     *)
(* incremental_aggregation.py and aggregation_worker.py.                   *)
(*                                                                         *)
(* One market and one derived unit: a slot is a minute, a bucket is        *)
(* BucketSize slots.  A candle's prices are one value of Contents.  An     *)
(* input hash is the inputs themselves, a coverage hash the coverage       *)
(* itself.  Coverage is a status per slot, the intervals behind it are not *)
(* represented.  The quality events of one replacement are one event.      *)
(*                                                                         *)
(* Transactions are READ COMMITTED.  A collector's transaction is two      *)
(* actions: the upserts, which allocate revision ids and lock the candle   *)
(* rows, and the propagation, which takes the market's advisory lock and   *)
(* commits.  Sequences are not transactional: an id is taken for good.     *)
(***************************************************************************)
EXTENDS Naturals, Sequences, FiniteSets, FiniteSetsExt, Functions

CONSTANTS
    Collectors,         \* processes that store candles: incremental, backfill
    Aggregators,        \* aggregation workers
    NumMinutes,
    BucketSize,
    Pages,              \* sets of slots one response may hold
    Contents,           \* candle values
    MaxOutputBuckets,   \* MAX_OUTPUT_BUCKETS_PER_JOB
    MaxTries,           \* candle_rollup_recompute_jobs.max_attempts
    MaxFetches,         \* bound: responses fetched
    MaxAggregations,    \* bound: full aggregation jobs
    MaxIncidents,       \* bound: verdicts, failures, lost workers, operator actions
    Verdicts,           \* coverage statuses given without rows
    Spans,              \* sets of slots one verdict may be about
    Nothing

Minutes == 0..(NumMinutes - 1)
Bucket(s) == s \div BucketSize
Buckets == {Bucket(s) : s \in Minutes}
SlotsOf(b) == {s \in Minutes : Bucket(s) = b}
Covering(bs) == {s \in Minutes : Bucket(s) \in bs}

ASSUME RollupAssumption ==
    /\ NumMinutes \in Nat
    /\ BucketSize \in Nat \ {0}
    /\ MaxOutputBuckets \in Nat \ {0}
    /\ Pages \subseteq SUBSET Minutes
    /\ Spans \subseteq SUBSET Minutes
    /\ "available" \notin Verdicts
    /\ Nothing \notin [content : Contents, asOf : Nat]

VARIABLES
    clock,      \* collected_at of the latest response
    tx,         \* per collector: the response in hand and its open transaction
    candles,    \* source_candles: the latest projection
    revisions,  \* source_candle_revisions, committed
    nextRev,    \* source_candle_revisions_id_seq
    coverage,   \* coverage_intervals, as a status per slot
    events,     \* data_quality_events, in id order
    jobs,       \* candle_rollup_invalidations with their recompute job, in id order
    rollups,    \* candle_rollups, in id order
    agg,        \* candle_aggregation_jobs, in id order
    aggregator, \* per aggregation worker: where run_once is
    incidents,  \* how many of the bounded steps were taken
    raced       \* history: two transactions met (see Drained)

source == <<candles, revisions, nextRev, coverage, events>>
rollupVars == <<clock, tx, source, jobs, rollups, agg, aggregator, incidents, raced>>

IdleTx == [pc |-> "idle", page |-> <<>>, asOf |-> 0, created |-> {}]
IdleWorker == [pc |-> "idle", job |-> 0, read |-> <<>>, cov |-> <<>>]

RollupInit ==
    /\ clock = 0
    /\ tx = [c \in Collectors |-> IdleTx]
    /\ candles = [s \in Minutes |-> Nothing]
    /\ revisions = {}
    /\ nextRev = 1
    /\ coverage = [s \in Minutes |-> "unverified"]
    /\ events = <<>>
    /\ jobs = <<>>
    /\ rollups = <<>>
    /\ agg = <<>>
    /\ aggregator = [w \in Aggregators |-> IdleWorker]
    /\ incidents = 0
    /\ raced = FALSE

-----------------------------------------------------------------------------
(* Pure parts.                                                             *)

MaxOr(S, default) == IF S = {} THEN default ELSE Max(S)

\* affected_rollup_ranges: the changed buckets, cut into runs of adjacent
\* buckets of at most MaxOutputBuckets each.
AffectedRanges(changed) ==
    LET bs == {Bucket(s) : s \in changed}
        First(b) == Max({a \in bs : a <= b /\ (a - 1) \notin bs})
        Part(b) == (b - First(b)) \div MaxOutputBuckets
    IN  {{b \in bs : First(b) = First(a) /\ Part(b) = Part(a)} : a \in bs}

\* The source projection of a slot among some revisions:
\* ORDER BY source_as_of DESC, revision_number DESC.
Newer(r, q) == r.asOf > q.asOf \/ (r.asOf = q.asOf /\ r.number >= q.number)
Latest(revs, s) ==
    CHOOSE r \in {q \in revs : q.slot = s} :
        \A q \in revs : q.slot = s => Newer(r, q)
SlotsIn(revs) == {r.slot : r \in revs}

\* _missing_slot_statuses and _worst_quality.
WorstQuality(cov, missing) ==
    CASE \E s \in missing : cov[s] = "missing" -> "missing"
      [] \E s \in missing : cov[s] = "unavailable" -> "unavailable"
      [] \E s \in missing : cov[s] = "unverified" -> "unverified"
      [] \E s \in missing : cov[s] = "available" -> "missing"
      [] OTHER -> "available"

\* _aggregate_groups for one bucket that has inputs.
Aggregate(b, inputs, cov) ==
    LET missing == SlotsOf(b) \ DOMAIN inputs
    IN  [inputs |-> inputs,
         quality |-> WorstQuality(cov, missing),
         complete |-> \A s \in missing : cov[s] = "no_trade"]

\* current_rollup_quality_ceiling: the newest event over some slots.
QualityCeiling(evts, slots) ==
    MaxOr({e \in DOMAIN evts : evts[e].slots \cap slots # {}}, 0)

\* candle_rollups, candle_page: the row with the greatest frontier.
Before(r, q) ==
    \/ rollups[r].through < rollups[q].through
    \/ /\ rollups[r].through = rollups[q].through
       /\ \/ rollups[r].event < rollups[q].event
          \/ /\ rollups[r].event = rollups[q].event
             /\ \/ rollups[r].known < rollups[q].known
                \/ rollups[r].known = rollups[q].known /\ r <= q
RowsOf(b) == {r \in DOMAIN rollups : rollups[r].bucket = b}
Served(b) == rollups[CHOOSE r \in RowsOf(b) : \A q \in RowsOf(b) : Before(q, r)]

\* INSERT INTO candle_rollups ... ON CONFLICT DO NOTHING.
SameKey(r, q) ==
    /\ r.bucket = q.bucket /\ r.result.inputs = q.result.inputs
    /\ r.covered = q.covered /\ r.through = q.through /\ r.event = q.event
Inserted(rows) ==
    LET fresh == {r \in rows : \A k \in DOMAIN rollups : ~SameKey(rollups[k], r)}
        Position(r) == Cardinality({q \in fresh : q.bucket <= r.bucket})
    IN  rollups \o [n \in 1..Cardinality(fresh) |->
                        CHOOSE r \in fresh : Position(r) = n]

-----------------------------------------------------------------------------
(* Collectors.                                                             *)

\* A response arrives: its page, and the instant it was collected.
Fetch(c) ==
    /\ tx[c].pc = "idle"
    /\ clock < MaxFetches
    /\ clock' = clock + 1
    /\ \E page \in Pages : \E values \in [page -> Contents] :
           tx' = [tx EXCEPT ![c] = [pc |-> "fetched", page |-> values,
                                    asOf |-> clock + 1, created |-> {}]]
    /\ UNCHANGED <<source, jobs, rollups, agg, aggregator, incidents, raced>>

RowsLockedBy(c) == IF tx[c].pc = "written" THEN DOMAIN tx[c].page ELSE {}

\* _append_source_candle_revisions: a revision unless the highest numbered
\* one has the same content.
RevisionDue(c, s) ==
    LET known == {r \in revisions : r.slot = s}
    IN  \/ known = {}
        \/ (CHOOSE r \in known : \A q \in known : r.number >= q.number).content
              # tx[c].page[s]

\* _upsert_candles up to its coverage part: the candle rows are locked, the
\* due revisions get the next ids, in slot order.
UpsertCandles(c) ==
    LET page == DOMAIN tx[c].page
        due == {s \in page : RevisionDue(c, s)}
        Revision(s) ==
            [id |-> nextRev + Cardinality({d \in due : d < s}),
             slot |-> s, content |-> tx[c].page[s], asOf |-> tx[c].asOf,
             number |-> Cardinality({r \in revisions : r.slot = s}) + 1]
    IN  /\ tx[c].pc = "fetched"
        /\ \A d \in Collectors \ {c} : RowsLockedBy(d) \cap page = {}
        /\ tx' = [tx EXCEPT ![c].pc = "written",
                            ![c].created = {Revision(s) : s \in due}]
        /\ nextRev' = nextRev + Cardinality(due)
        /\ raced' = \/ raced
                    \/ \E d \in Collectors \ {c} : tx[d].pc = "written"
                    \/ \E s \in page : /\ candles[s] # Nothing
                                       /\ candles[s].asOf > tx[c].asOf
        /\ UNCHANGED <<clock, candles, revisions, coverage, events, jobs, rollups,
                       agg, aggregator, incidents>>

\* A new invalidation with its pending recompute job.
Job(buckets, through, event, cov, known) ==
    [buckets |-> buckets, through |-> through, event |-> event,
     cov |-> Restrict(cov, Covering(buckets)), known |-> known,
     status |-> "pending", attempts |-> 0, owner |-> Nothing, due |-> FALSE]

\* Ranges in the order of their buckets.
InOrder(ranges) ==
    LET Position(r) == Cardinality({q \in ranges : Min(q) <= Min(r)})
    IN  [n \in 1..Cardinality(ranges) |-> CHOOSE r \in ranges : Position(r) = n]

\* Mutant: a quality transition queues no recomputation.
NoQualityJobs(changed, revs, evts, cov) == <<>>

\* _enqueue_quality_transition_recomputation: the affected ranges that hold
\* a source revision, under the newest revision the transaction can see.
QualityJobs(changed, revs, evts, cov) ==
    LET ranges == InOrder({r \in AffectedRanges(changed) :
                               Covering(r) \cap SlotsIn(revs) # {}})
        newest == Max({q.id : q \in revs})
    IN  [n \in DOMAIN ranges |->
            Job(ranges[n], newest, Len(evts), cov, evts[Len(evts)].at)]

\* Mutant: the frontier of a source job is its lowest revision.
LowestFrontier(created, evts, cov) ==
    LET ranges == InOrder(AffectedRanges(SlotsIn(created)))
    IN  [n \in DOMAIN ranges |->
            Job(ranges[n], Min({q.id : q \in created}),
                QualityCeiling(evts, Covering(ranges[n])), cov, 0)]

\* _source_candle_revisions_created: the newest of the transaction's
\* revisions, and the newest event over the range.
SourceJobs(created, evts, cov) ==
    LET ranges == InOrder(AffectedRanges(SlotsIn(created)))
        newest == Max({q.id : q \in created})
        Ceiling(r) == QualityCeiling(evts, Covering(r))
        Known(r) == Max({q.asOf : q \in created}
                        \cup {IF Ceiling(r) = 0 THEN 0 ELSE evts[Ceiling(r)].at})
    IN  [n \in DOMAIN ranges |->
            Job(ranges[n], newest, Ceiling(ranges[n]), cov, Known(ranges[n]))]

\* replace_coverage_with_classification: the slots whose status changes are
\* a quality event.
Changed(slots, status) == {s \in slots : coverage[s] # status}
Reclassified(slots, status) ==
    [s \in Minutes |-> IF s \in slots THEN status ELSE coverage[s]]
EventsAfter(changed) ==
    IF changed = {} THEN events ELSE Append(events, [slots |-> changed, at |-> clock])

\* A full aggregation has read its source and not yet written its rows.
Reading == \E w \in Aggregators : aggregator[w].pc = "materializing"

\* The rest of _upsert_candles under the market's advisory lock, and the
\* commit: coverage, quality jobs, source jobs.
Propagate(c) ==
    LET page == DOMAIN tx[c].page
        changed == Changed(page, "available")
        evts == EventsAfter(changed)
        cov == Reclassified(page, "available")
        revs == revisions \cup tx[c].created
    IN  /\ tx[c].pc = "written"
        /\ candles' = [s \in Minutes |->
               IF s \in page /\ (candles[s] = Nothing \/ tx[c].asOf >= candles[s].asOf)
               THEN [content |-> tx[c].page[s], asOf |-> tx[c].asOf]
               ELSE candles[s]]
        /\ revisions' = revs
        /\ coverage' = cov
        /\ events' = evts
        /\ jobs' = jobs
               \o (IF changed = {} THEN <<>> ELSE QualityJobs(changed, revs, evts, cov))
               \o (IF tx[c].created = {} THEN <<>>
                   ELSE SourceJobs(tx[c].created, evts, cov))
        /\ tx' = [tx EXCEPT ![c] = IdleTx]
        /\ raced' = (raced \/ Reading)
        /\ UNCHANGED <<clock, nextRev, rollups, agg, aggregator, incidents>>

\* The transaction fails; the ids it took are not given back.
Rollback(c) ==
    /\ tx[c].pc = "written"
    /\ incidents < MaxIncidents
    /\ incidents' = incidents + 1
    /\ tx' = [tx EXCEPT ![c] = IdleTx]
    /\ UNCHANGED <<clock, source, jobs, rollups, agg, aggregator, raced>>

\* A verdict about an interval without rows in hand (no trades, the backfill
\* given up, the market gone or back), in a transaction of its own:
\* _record_confirmed_no_trade_gaps, the exhausted backfill, and
\* data_foundation_repository.py.
Classify(span, status) ==
    LET changed == Changed(span, status)
        evts == EventsAfter(changed)
        cov == Reclassified(span, status)
    IN  /\ incidents < MaxIncidents
        /\ incidents' = incidents + 1
        /\ changed # {}
        /\ coverage' = cov
        /\ events' = evts
        /\ jobs' = jobs \o (IF revisions = {} THEN <<>>
                            ELSE QualityJobs(changed, revisions, evts, cov))
        /\ raced' = (raced \/ Reading)
        /\ UNCHANGED <<clock, tx, candles, revisions, nextRev, rollups, agg,
                       aggregator>>

-----------------------------------------------------------------------------
(* Recompute jobs.                                                         *)

Eligible(j) ==
    /\ jobs[j].attempts < MaxTries
    /\ \/ jobs[j].status = "pending"
       \/ jobs[j].status = "retry_wait" /\ jobs[j].due
       \/ jobs[j].status = "running" /\ jobs[j].due

Exhausted(j) ==
    /\ jobs[j].status = "running" /\ jobs[j].due
    /\ jobs[j].attempts >= MaxTries

\* _dead_letter_expired_candle_rollup_jobs.
Swept == [j \in DOMAIN jobs |->
             IF Exhausted(j)
             THEN [jobs[j] EXCEPT !.status = "dead_letter", !.owner = Nothing, !.due = FALSE]
             ELSE jobs[j]]

\* The UPDATE shared by both claims: owner, attempt and a fresh lease.
Claimed(w, j) == [Swept EXCEPT ![j].status = "running", ![j].owner = w,
                              ![j].due = FALSE, ![j].attempts = @ + 1]

\* claim_next_candle_rollup_recompute_job: equal priorities, so the oldest.
ClaimNextJob(w) ==
    /\ aggregator[w].pc = "idle"
    /\ \/ \E j \in DOMAIN jobs :
              /\ Eligible(j)
              /\ \A k \in DOMAIN jobs : Eligible(k) => j <= k
              /\ jobs' = Claimed(w, j)
              /\ aggregator' = [aggregator EXCEPT ![w] =
                               [IdleWorker EXCEPT !.pc = "job", !.job = j]]
       \/ /\ \A j \in DOMAIN jobs : ~Eligible(j)
          /\ \E j \in DOMAIN jobs : Exhausted(j)
          /\ jobs' = Swept
          /\ UNCHANGED aggregator
    /\ UNCHANGED <<clock, tx, source, rollups, agg, incidents, raced>>

\* claim_candle_rollup_recompute_job: one job by its id, the sweep limited to
\* it.  Operators have it, no worker calls it; bounded like their restarts.
ClaimJob(w, j) ==
    /\ aggregator[w].pc = "idle"
    /\ incidents < MaxIncidents
    /\ incidents' = incidents + 1
    /\ j \in DOMAIN jobs
    /\ \/ /\ Eligible(j)
          /\ jobs' = [jobs EXCEPT ![j] = Claimed(w, j)[j]]
          /\ aggregator' = [aggregator EXCEPT ![w] = [IdleWorker EXCEPT !.pc = "job", !.job = j]]
       \/ /\ Exhausted(j)
          /\ jobs' = [jobs EXCEPT ![j] = Swept[j]]
          /\ UNCHANGED aggregator
    /\ UNCHANGED <<clock, tx, source, rollups, agg, raced>>

\* A lease or a retry delay runs out on the database clock.
Elapse(j) ==
    /\ j \in DOMAIN jobs
    /\ jobs[j].status \in {"running", "retry_wait"} /\ ~jobs[j].due
    /\ jobs' = [jobs EXCEPT ![j].due = TRUE]
    /\ UNCHANGED <<clock, tx, source, rollups, agg, aggregator, incidents, raced>>

Holds(w) ==
    LET job == jobs[aggregator[w].job]
    IN  job.status = "running" /\ job.owner = w /\ ~job.due

\* The rows a job computes: the projection at its frontier, the coverage its
\* invalidation froze.
RowsOfJob(job) ==
    LET revs == {r \in revisions : r.id <= job.through}
        Inputs(b) == [s \in SlotsOf(b) \cap SlotsIn(revs) |->
                         <<Latest(revs, s).content, Latest(revs, s).content>>]
        Known(b) == Max({job.known} \cup {Latest(revs, s).asOf : s \in DOMAIN Inputs(b)})
    IN  {[bucket |-> b, covered |-> job.cov, through |-> job.through,
          event |-> job.event, known |-> Known(b),
          result |-> Aggregate(b, Inputs(b), job.cov)] :
            b \in {a \in job.buckets : SlotsOf(a) \cap SlotsIn(revs) # {}}}

\* run_candle_rollup_recompute_job: rows and completion in one transaction,
\* fenced by owner and lease.
RunJob(w) ==
    /\ aggregator[w].pc = "job"
    /\ Holds(w)
    /\ rollups' = Inserted(RowsOfJob(jobs[aggregator[w].job]))
    /\ jobs' = [jobs EXCEPT ![aggregator[w].job].status = "succeeded",
                            ![aggregator[w].job].owner = Nothing]
    /\ aggregator' = [aggregator EXCEPT ![w] = IdleWorker]
    /\ UNCHANGED <<clock, tx, source, agg, incidents, raced>>

\* The run fails, or finds its lease gone: fail_candle_rollup_recompute_job
\* gives the job back or buries it while the lease is live, and is refused
\* otherwise.
FailJob(w) ==
    LET j == aggregator[w].job IN
    /\ aggregator[w].pc = "job"
    /\ IF Holds(w)
       THEN /\ incidents < MaxIncidents
            /\ incidents' = incidents + 1
            /\ jobs' = [jobs EXCEPT ![j].owner = Nothing,
                   ![j].status = IF jobs[j].attempts >= MaxTries
                                 THEN "dead_letter" ELSE "retry_wait"]
       ELSE UNCHANGED <<jobs, incidents>>
    /\ aggregator' = [aggregator EXCEPT ![w] = IdleWorker]
    /\ UNCHANGED <<clock, tx, source, rollups, agg, raced>>

\* safe_restart_candle_rollup_recompute_job, by an operator.
SafeRestart(j) ==
    /\ j \in DOMAIN jobs
    /\ jobs[j].status = "dead_letter"
    /\ incidents < MaxIncidents
    /\ incidents' = incidents + 1
    /\ jobs' = [jobs EXCEPT ![j].status = "pending", ![j].attempts = 0]
    /\ UNCHANGED <<clock, tx, source, rollups, agg, aggregator, raced>>

-----------------------------------------------------------------------------
(* Full aggregation, when run_once found no recompute job.                 *)

Open(a) == agg[a] \in {"pending", "running"}

\* schedule_candle_aggregation: nothing open, and the newest source bucket
\* is beyond the newest rollup.
Schedule(w) ==
    LET latest == {Bucket(s) : s \in {t \in Minutes : candles[t] # Nothing}}
        rolled == {rollups[r].bucket : r \in DOMAIN rollups}
        stale == \E b \in latest : \A r \in rolled : r < b
    IN  /\ aggregator[w].pc = "idle"
        /\ \A j \in DOMAIN jobs : ~Eligible(j)
        /\ Len(agg) < MaxAggregations
        /\ (\A a \in DOMAIN agg : ~Open(a)) => stale
        /\ agg' = IF \E a \in DOMAIN agg : Open(a) THEN agg ELSE Append(agg, "pending")
        /\ aggregator' = [aggregator EXCEPT ![w].pc = "scheduled"]
        /\ UNCHANGED <<clock, tx, source, jobs, rollups, incidents, raced>>

\* claim_next_candle_aggregation_job, then the source and coverage read of
\* materialize_candle_rollups.  Without a pending job run_once goes on to
\* the other queues.
ClaimAggregation(w) ==
    /\ aggregator[w].pc = "scheduled"
    /\ \/ /\ \A a \in DOMAIN agg : agg[a] # "pending"
          /\ aggregator' = [aggregator EXCEPT ![w] = IdleWorker]
          /\ UNCHANGED agg
       \/ \E a \in DOMAIN agg :
          /\ agg[a] = "pending"
          /\ \A b \in DOMAIN agg : agg[b] = "pending" => a <= b
          /\ agg' = [agg EXCEPT ![a] = "running"]
          /\ aggregator' = [aggregator EXCEPT ![w] =
                 [pc |-> "materializing", job |-> a, cov |-> coverage,
                  read |-> [s \in {t \in Minutes : candles[t] # Nothing} |->
                               [content |-> candles[s].content,
                                revision |-> Latest(revisions, s)]]]]
    /\ UNCHANGED <<clock, tx, source, jobs, rollups, incidents, raced>>

\* The rows of a full aggregation: what was read, under the coverage hash and
\* the quality ceiling of the moment they are written.
RowsOfRead(read, cov) ==
    LET Inputs(b) == [s \in SlotsOf(b) \cap DOMAIN read |->
                         <<read[s].content, read[s].revision.content>>]
        Through(b) == Max({read[s].revision.id : s \in DOMAIN Inputs(b)})
        Ceiling(b) == QualityCeiling(events, SlotsOf(b))
        Known(b) == Max({read[s].revision.asOf : s \in DOMAIN Inputs(b)}
                        \cup {IF Ceiling(b) = 0 THEN 0 ELSE events[Ceiling(b)].at})
    IN  {[bucket |-> b, covered |-> Restrict(coverage, SlotsOf(b)),
          through |-> Through(b), event |-> Ceiling(b), known |-> Known(b),
          result |-> Aggregate(b, Inputs(b), cov)] :
            b \in {Bucket(s) : s \in DOMAIN read}}

\* materialize_candle_rollups writes and commits; mark_candle_aggregation_target
\* closes the job, whose only target this is.
Materialize(w) ==
    /\ aggregator[w].pc = "materializing"
    /\ rollups' = Inserted(RowsOfRead(aggregator[w].read, aggregator[w].cov))
    /\ agg' = [agg EXCEPT ![aggregator[w].job] = "succeeded"]
    /\ aggregator' = [aggregator EXCEPT ![w] = IdleWorker]
    /\ UNCHANGED <<clock, tx, source, jobs, incidents, raced>>

\* The target fails and is marked so.
MaterializeFails(w) ==
    /\ aggregator[w].pc = "materializing"
    /\ incidents < MaxIncidents
    /\ incidents' = incidents + 1
    /\ agg' = [agg EXCEPT ![aggregator[w].job] = "failed"]
    /\ aggregator' = [aggregator EXCEPT ![w] = IdleWorker]
    /\ UNCHANGED <<clock, tx, source, jobs, rollups, raced>>

\* The process is lost; its successor starts with an empty memory.
LoseWorker(w) ==
    /\ aggregator[w].pc # "idle"
    /\ incidents < MaxIncidents
    /\ incidents' = incidents + 1
    /\ aggregator' = [aggregator EXCEPT ![w] = IdleWorker]
    /\ UNCHANGED <<clock, tx, source, jobs, rollups, agg, raced>>

-----------------------------------------------------------------------------
CollectorStep(c) == Fetch(c) \/ UpsertCandles(c) \/ Propagate(c) \/ Rollback(c)

WorkerStep(w) ==
    \/ ClaimNextJob(w)
    \/ \E j \in DOMAIN jobs : ClaimJob(w, j)
    \/ RunJob(w) \/ FailJob(w)
    \/ Schedule(w) \/ ClaimAggregation(w) \/ Materialize(w) \/ MaterializeFails(w)
    \/ LoseWorker(w)

RollupNext ==
    \/ \E c \in Collectors : CollectorStep(c)
    \/ \E span \in Spans, status \in Verdicts : Classify(span, status)
    \/ \E w \in Aggregators : WorkerStep(w)
    \/ \E j \in DOMAIN jobs : Elapse(j) \/ SafeRestart(j)

RollupSpec == RollupInit /\ [][RollupNext]_rollupVars

-----------------------------------------------------------------------------
(* Properties.                                                             *)

\* Every change is committed and every job it queued has succeeded.
Drained ==
    /\ \A c \in Collectors : tx[c].pc # "written"
    /\ \A j \in DOMAIN jobs : jobs[j].status = "succeeded"
    /\ \A w \in Aggregators : aggregator[w].pc # "materializing"

\* ADR-0018 on propagation under the advisory lock: a frontier that joins the
\* newest source ceiling and the newest quality ceiling is always left.  Once
\* the queue is drained, what a reader is served of a bucket names a frontier
\* no older than any revision or quality event of the bucket, however the
\* collectors, the verdicts and the full aggregations interleaved.
SettledFrontier ==
    Drained => \A r \in revisions :
        LET b == Bucket(r.slot) IN
        /\ RowsOf(b) # {}
        /\ Served(b).through >= r.id
        /\ Served(b).event >= QualityCeiling(events, SlotsOf(b))

\* The aggregate of what the store holds now.
CurrentAggregate(b) ==
    Aggregate(b, [s \in {t \in SlotsOf(b) : candles[t] # Nothing} |->
                     <<candles[s].content, candles[s].content>>], coverage)

ServedIsCurrent(b) == RowsOf(b) # {} /\ Served(b).result = CurrentAggregate(b)

\* The same with the value: without a race, the rollup served once the queue
\* is drained aggregates the current candles under the current coverage.  A
\* race is two collectors' transactions open at once, a response stored after
\* a newer one, or a change committed while a full aggregation is reading.
SettledRollupIsCurrent ==
    Drained /\ ~raced => \A s \in Minutes :
        candles[s] # Nothing => ServedIsCurrent(Bucket(s))
=============================================================================
