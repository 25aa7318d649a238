--------------------------- MODULE DatasetBuilds ---------------------------
(***************************************************************************)
(* Dataset builds and the versions they publish: dataset_version_store.py, *)
(* dataset_versions.py and the dataset tables of migration 20260717001300. *)
(*                                                                         *)
(* A build asks for one series over every slot.  A row stands for a row of *)
(* the table the series reads (source_candle_revisions, candle_rollups,    *)
(* indicator or microstructure materializations); a sequence gives its id  *)
(* when it is inserted and other transactions see it when it is committed, *)
(* so ids are not committed in order.  A hash is the content it is a hash  *)
(* of.  A verdict is a data_quality_event, or a row of                     *)
(* market_status_history; the market is active where no verdict of the     *)
(* market says otherwise.  A row has a value (its content hash, its        *)
(* source_as_of), which a version's hash covers, an id, which it does not, *)
(* and a rank that with knowledge_at and id orders the rows of a slot:     *)
(*   1m candle   source_as_of, revision_number                             *)
(*   rollup      source_revision_through_id, quality_event_through_id      *)
(*               (0 for NULL, which comes last)                            *)
(*   other       <<0, 0>>: materializations and daily candles have none.   *)
(*                                                                         *)
(* Time: knowledge_at is read before the row is inserted and asOf before   *)
(* the build is, so neither orders the two.  A lease is live or has lapsed *)
(* and a retry may be due at once: how long the 120 seconds, the renewals  *)
(* every 30 and the backoff take is left open.                             *)
(***************************************************************************)
EXTENDS Naturals, Sequences, FiniteSets, FiniteSetsExt

CONSTANTS
    Clients,        \* calls of create_build through the API
    Workers,        \* aggregation workers: publish_next_build
    NumSlots,
    Requests,       \* [key, unit, policy, asOf] a client may ask for
    Writes,         \* [slot, table, unit, rank, value, quality, known] of a row
    Verdicts,       \* [by, from, to, status, at] that may be recorded
    StepOf(_),      \* slots per bucket of a unit
    MaxAttempts,    \* dataset_builds.max_attempts
    PageSize,       \* versions on a page of a listing
    MaxExtras,      \* bound: rows, verdicts, lapses, faults, crashes, listings
    None

ASSUME BoundsAssumption ==
    /\ NumSlots \in Nat \ {0}
    /\ MaxAttempts \in Nat \ {0}
    /\ PageSize \in Nat \ {0}
    /\ MaxExtras \in Nat
    /\ IsFiniteSet(Clients)

Slots == 0..(NumSlots - 1)
Tables == {"source", "rollup"}
TablesOf(unit) ==
    CASE unit = "1m" -> {"source"}
      [] unit = "1d" -> {"source", "rollup"}
      [] OTHER -> {"rollup"}
Starts(unit) == {s \in Slots : s % StepOf(unit) = 0}
Qualities == {"available", "no_trade", "missing", "unavailable", "unverified"}

\* A row starts at a bucket of its unit, and what says something of the source
\* says one of the five qualities.
ASSUME InputsAssumption ==
    /\ \A r \in Requests : r.asOf \in Nat
    /\ \A w \in Writes : /\ w.table \in Tables /\ w.slot \in Starts(w.unit)
                         /\ w.known \in Nat /\ w.rank \in Nat \X Nat
    /\ \A v \in Verdicts : /\ v.from \in Nat /\ v.to \in Nat /\ v.at \in Nat
                           /\ v.by = "source" => v.status \in Qualities

VARIABLES
    open,       \* rows inserted by transactions that are not yet committed
    rows,       \* rows committed
    nextRow,    \* the ids' sequence
    verdicts,   \* quality events and market statuses, in id order
    client,     \* per client: the request and the transaction's snapshot
    builds,     \* dataset_builds with the frozen series, in id order
    versions,   \* dataset_versions, sealed and committed
    nextVersion,
    worker,     \* per worker: the claimed build and the publication's transaction
    reader,     \* a listing of the versions, page by page
    extras

store == <<open, rows, nextRow, verdicts>>
vars == <<store, client, builds, versions, nextVersion, worker, reader, extras>>

IdleClient == [pc |-> "idle", request |-> None, rows |-> {}, verdicts |-> <<>>,
               builds |-> {}, tries |-> 0, answer |-> 0]
IdleWorker == [pc |-> "idle", build |-> 0, gen |-> 0, members |-> {}, version |-> 0]
IdleReader == [pc |-> "idle", first |-> {}, ceiling |-> 0, last |-> 0, seen |-> <<>>]

Init ==
    /\ open = {} /\ rows = {} /\ nextRow = 1
    /\ verdicts = <<>>
    /\ client = [c \in Clients |-> IdleClient]
    /\ builds = <<>>
    /\ versions = {} /\ nextVersion = 1
    /\ worker = [w \in Workers |-> IdleWorker]
    /\ reader = IdleReader
    /\ extras = 0

Spend == extras < MaxExtras /\ extras' = extras + 1

-----------------------------------------------------------------------------
(* The tables a dataset is made from; their writers are other components.  *)

RowOf(w, id) ==
    [id |-> id, slot |-> w.slot, table |-> w.table, unit |-> w.unit, rank |-> w.rank,
     value |-> w.value, quality |-> w.quality, known |-> w.known]

\* The unique keys of the tables refuse a row that is there already.
Insert(w) ==
    /\ Spend
    /\ \A r \in open \cup rows : r # RowOf(w, r.id)
    /\ open' = open \cup {RowOf(w, nextRow)}
    /\ nextRow' = nextRow + 1
    /\ UNCHANGED <<rows, verdicts, client, builds, versions,
                   nextVersion, worker, reader>>

Commit(r) ==
    /\ open' = open \ {r}
    /\ rows' = rows \cup {r}
    /\ UNCHANGED <<nextRow, verdicts, client, builds, versions,
                   nextVersion, worker, reader, extras>>

Judge(v) ==
    /\ Spend
    /\ verdicts' = Append(verdicts, v)
    /\ UNCHANGED <<open, rows, nextRow, client, builds, versions,
                   nextVersion, worker, reader>>

-----------------------------------------------------------------------------
(* What is frozen with a build, in the snapshot of its transaction.        *)

MaxOr(S, default) == IF S = {} THEN default ELSE Max(S)

\* The ids a series may reach, per table and not per unit.
Ceilings(rs, asOf) ==
    [t \in Tables |-> MaxOr({r.id : r \in {q \in rs : q.table = t /\ q.known <= asOf}}, 0)]

\* What an authority had said of the whole of a range as of a time.
Over(vs, by, lo, hi, asOf) ==
    {n \in DOMAIN vs : vs[n].by = by /\ vs[n].at <= asOf /\ vs[n].from <= lo /\ vs[n].to >= hi}

\* The quality event that counts: the one with the greatest id, 0 for none.
Latest(vs, lo, hi, asOf) == MaxOr(Over(vs, "source", lo, hi, asOf), 0)

\* ORDER BY detected_at DESC, id DESC, and max by (observed_at, id): the
\* newest of some verdicts, 0 for none.
Newest(vs, ns) ==
    LET at == MaxOr({vs[n].at : n \in ns}, 0)
    IN  MaxOr({n \in ns : vs[n].at = at}, 0)

\* _project_coverage_ranges: cut the slots where a verdict starts or ends.
Ranges(vs, asOf) ==
    LET known == {vs[n] : n \in {k \in DOMAIN vs : vs[k].at <= asOf}}
        cuts == {0, NumSlots} \cup {v.from : v \in known} \cup {v.to : v \in known}
    IN  {r \in cuts \X cuts : r[1] < r[2] /\ \A x \in cuts : ~(r[1] < x /\ x < r[2])}

Expected(unit, lo, hi) == Cardinality({s \in Starts(unit) : lo <= s /\ s < hi})

\* _frozen_member_count: the distinct starts in the table, of any unit.
Counted(rs, ceilings, unit, asOf, lo, hi) ==
    Cardinality({r.slot : r \in {q \in rs :
        /\ q.table \in TablesOf(unit)
        /\ unit = "1d" => q.unit = "1d"
        /\ q.id <= ceilings[q.table] /\ q.known <= asOf
        /\ lo <= q.slot /\ q.slot < hi}})

\* market_status of _project_coverage_ranges: the one that stands over a range.
Standing(vs, lo, hi, asOf) == Newest(vs, Over(vs, "market", lo, hi, asOf))

\* _freeze_coverage for one range.  Its evidence names the quality event by id,
\* the standing market status by its fields.
RangeCoverage(b, rs, vs, ceilings, req, lo, hi) ==
    LET event == Latest(vs, lo, hi, req.asOf)
        market == Standing(vs, lo, hi, req.asOf)
        halted == market # 0 /\ vs[market].status # "active"
        told == (IF event = 0 THEN {} ELSE {vs[event].at})
                    \cup (IF halted THEN {vs[market].at} ELSE {})
        observed == Counted(rs, ceilings, req.unit, req.asOf, lo, hi)
        expected == Expected(req.unit, lo, hi)
    IN  [from |-> lo, to |-> hi,
         status |-> IF halted THEN "unavailable"
                    ELSE IF event # 0 THEN vs[event].status
                    ELSE IF observed >= expected /\ expected > 0 THEN "available"
                    ELSE "unverified",
         observed |-> observed,
         expected |-> expected,
         known |-> IF told = {} THEN <<"frozen", b>> ELSE <<"verdict", Max(told)>>,
         event |-> event,
         market |-> {vs[n] : n \in {market} \ {0}}]

\* _resolve_and_freeze_series, _freeze_market_status and _freeze_coverage.
Frozen(b, rs, vs, req) ==
    LET ceilings == Ceilings(rs, req.asOf)
    IN  [request |-> req, ceilings |-> ceilings,
         event |-> MaxOr({n \in DOMAIN vs : vs[n].by = "source" /\ vs[n].at <= req.asOf}, 0),
         statuses |-> {vs[n] : n \in {k \in DOMAIN vs : vs[k].by = "market"
                                                         /\ vs[k].at <= req.asOf}},
         coverage |-> {RangeCoverage(b, rs, vs, ceilings, req, r[1], r[2]) :
                          r \in Ranges(vs, req.asOf)},
         accepted |-> rs,    \* history: the rows the client's snapshot held
         status |-> "pending", owner |-> None, gen |-> 0, live |-> FALSE,
         attempts |-> 0, version |-> 0, doneGen |-> 0]

-----------------------------------------------------------------------------
(* create_build: a REPEATABLE READ transaction whose first statement takes *)
(* the key's advisory lock, so its snapshot may be older than the lock.    *)

Answer(c, pc, b) ==
    client' = [client EXCEPT ![c] =
        [IdleClient EXCEPT !.pc = pc, !.request = client[c].request, !.answer = b]]

Snapshot(c, req, tries) ==
    client' = [client EXCEPT ![c] =
        [pc |-> "creating", request |-> req, rows |-> rows, verdicts |-> verdicts,
         builds |-> DOMAIN builds, tries |-> tries, answer |-> 0]]

BeginCreate(c, req) ==
    /\ client[c].pc = "idle"
    /\ Snapshot(c, req, 1)
    /\ UNCHANGED <<store, builds, versions, nextVersion, worker, reader, extras>>

BuildsOf(key, bs) == {b \in bs : builds[b].request.key = key}

\* The key is known to the snapshot: the same request gets the build, another
\* one a conflict.
ReturnExisting(c) ==
    LET found == BuildsOf(client[c].request.key, client[c].builds)
        b == Min(found)
    IN  /\ client[c].pc = "creating" /\ found # {}
        /\ IF builds[b].request = client[c].request
           THEN Answer(c, "answered", b) ELSE Answer(c, "conflict", 0)
        /\ UNCHANGED <<store, builds, versions, nextVersion, worker, reader, extras>>

\* Insert the build and freeze what it may read.
CreateBuild(c) ==
    LET me == client[c]
        key == me.request.key
        b == Len(builds) + 1
    IN  /\ me.pc = "creating" /\ BuildsOf(key, DOMAIN builds) = {}
        /\ builds' = Append(builds, Frozen(b, me.rows, me.verdicts, me.request))
        /\ Answer(c, "answered", b)
        /\ UNCHANGED <<store, versions, nextVersion, worker, reader, extras>>

\* The snapshot misses the build that has the key: UniqueViolation, and
\* another transaction, at most three in all.
CreateRaced(c) ==
    LET me == client[c]
        key == me.request.key
    IN  /\ me.pc = "creating"
        /\ BuildsOf(key, me.builds) = {} /\ BuildsOf(key, DOMAIN builds) # {}
        /\ IF me.tries < 3 THEN Snapshot(c, me.request, me.tries + 1)
           ELSE Answer(c, "failed", 0)
        /\ UNCHANGED <<store, builds, versions, nextVersion, worker, reader, extras>>

-----------------------------------------------------------------------------
(* publish_next_build: the claim.                                          *)

Spent(b) == /\ builds[b].status = "running" /\ ~builds[b].live
            /\ builds[b].attempts >= MaxAttempts
DeadLettered(b) == [b EXCEPT !.status = "dead_letter", !.owner = None, !.live = FALSE]
Swept == [b \in DOMAIN builds |-> IF Spent(b) THEN DeadLettered(builds[b]) ELSE builds[b]]

Claimable(b) ==
    /\ builds[b].attempts < MaxAttempts
    /\ \/ builds[b].status \in {"pending", "retry_wait"}
       \/ builds[b].status = "running" /\ ~builds[b].live

Claim(w) ==
    LET b == Min({k \in DOMAIN builds : Claimable(k)})
        gen == builds[b].gen + 1
    IN  /\ worker[w].pc = "idle"
        /\ \E k \in DOMAIN builds : Claimable(k)
        /\ builds' = [Swept EXCEPT ![b] =
               [builds[b] EXCEPT !.status = "running", !.owner = w, !.live = TRUE,
                                 !.gen = gen, !.attempts = @ + 1]]
        /\ worker' = [worker EXCEPT ![w] =
               [IdleWorker EXCEPT !.pc = "claimed", !.build = b, !.gen = gen]]
        /\ UNCHANGED <<store, client, versions, nextVersion, reader, extras>>

\* Nothing to claim: the sweep is committed all the same.
SweepOnly(w) ==
    /\ worker[w].pc = "idle"
    /\ ~\E k \in DOMAIN builds : Claimable(k)
    /\ \E k \in DOMAIN builds : Spent(k)
    /\ builds' = Swept
    /\ UNCHANGED <<store, client, versions, nextVersion, worker, reader, extras>>

\* Mutant: the fence is not consulted.
Unfenced(w) == TRUE

\* The fence of the renewals and of every write to the build.
Holds(w) ==
    LET b == builds[worker[w].build]
    IN  b.status = "running" /\ b.owner = w /\ b.gen = worker[w].gen /\ b.live

-----------------------------------------------------------------------------
(* _publish_claimed_build.                                                 *)

\* The quality a source row has in the dataset: the newest frozen event on it.
QualityOf(vs, r, frozen) ==
    LET over == {n \in DOMAIN vs :
                    /\ vs[n].by = "source" /\ n <= frozen.event
                    /\ vs[n].at <= frozen.request.asOf
                    /\ vs[n].from <= r.slot /\ r.slot < vs[n].to}
    IN  IF r.table = "rollup" THEN r.quality
        ELSE IF over = {} THEN "available" ELSE vs[Newest(vs, over)].status

\* What the rows of a slot are ordered by: for the day a source candle comes
\* before a rollup, and the newest known first; otherwise by rank.
SortKey(r) ==
    CASE r.unit = "1d" -> <<IF r.table = "source" THEN 1 ELSE 0, r.known, r.id, 0>>
      [] r.unit # "1d" /\ r.table = "source" -> <<r.rank[1], r.rank[2], r.id, 0>>
      [] OTHER -> <<r.rank[1], r.rank[2], r.known, r.id>>

\* ORDER BY ... DESC of _stage_candles, _stage_daily_candles and
\* _stage_frozen_members: r is q or comes before it.
Preferred(r, q) ==
    LET a == SortKey(r)
        b == SortKey(q)
    IN  a = b \/ \E n \in 1..4 : a[n] > b[n] /\ \A k \in 1..(n - 1) : a[k] = b[k]

Candidates(rs, frozen) ==
    {r \in rs : /\ r.table \in TablesOf(frozen.request.unit)
                /\ r.unit = frozen.request.unit
                /\ r.id <= frozen.ceilings[r.table]
                /\ r.known <= frozen.request.asOf}

\* _canonical_member: what the content hash covers of a row, which is not its id.
Member(vs, r, frozen) ==
    [slot |-> r.slot, value |-> r.value, known |-> r.known, quality |-> QualityOf(vs, r, frozen)]

FirstOfEachSlot(rs) == {r \in rs : \A o \in rs : o.slot = r.slot => Preferred(r, o)}

\* Mutant: the publication reads what is known now, past the frozen ids.
StagedToday(rs, vs, frozen) ==
    {Member(vs, r, frozen) :
        r \in FirstOfEachSlot({q \in rs : /\ q.table \in TablesOf(frozen.request.unit)
                                          /\ q.unit = frozen.request.unit})}

\* _stage_frozen_members.
Staged(rs, vs, frozen) ==
    {Member(vs, r, frozen) : r \in FirstOfEachSlot(Candidates(rs, frozen))}

\* Mutant: coverage that says available is believed.
BlockedByStatus(frozen, members) ==
    \E c \in frozen.coverage : c.status \in {"missing", "unavailable", "unverified"}

\* missing_policy = fail: the frozen coverage against the members staged.
Blocked(frozen, members) ==
    \E c \in frozen.coverage :
        \/ c.status \in {"missing", "unavailable", "unverified"}
        \/ /\ c.status = "available"
           /\ Cardinality({m.slot : m \in {x \in members :
                  /\ c.from <= x.slot /\ x.slot < c.to
                  /\ x.quality \in {"available", "no_trade"}}}) < c.expected

\* heartbeat.start, the fenced read and the staging.
Stage(w) ==
    LET frozen == builds[worker[w].build]
        members == Staged(rows, verdicts, frozen)
    IN  /\ worker[w].pc = "claimed" /\ Holds(w)
        /\ worker' = IF frozen.request.policy = "fail" /\ Blocked(frozen, members)
                     THEN [worker EXCEPT ![w].pc = "blocked"]
                     ELSE [worker EXCEPT ![w].pc = "staged", ![w].members = members]
        /\ UNCHANGED <<store, client, builds, versions, nextVersion, reader, extras>>

\* _stream_publication_hashes: what a version's content hash is a hash of.
ContentOf(frozen, members) ==
    [asOf |-> frozen.request.asOf, unit |-> frozen.request.unit,
     policy |-> frozen.request.policy, members |-> members,
     statuses |-> frozen.statuses, coverage |-> frozen.coverage]
Content(w) == ContentOf(builds[worker[w].build], worker[w].members)

\* Mutant: every publication inserts a version of its own.
InsertAlways(w) ==
    /\ worker[w].pc = "staged" /\ Holds(w)
    /\ worker' = [worker EXCEPT ![w].pc = "inserted", ![w].version = nextVersion]
    /\ nextVersion' = nextVersion + 1
    /\ UNCHANGED <<store, client, builds, versions, reader, extras>>

\* INSERT INTO dataset_versions ... ON CONFLICT (content_hash) DO NOTHING: it
\* waits while another transaction holds the content, then reuses its version.
InsertVersion(w) ==
    LET same == {v \in versions : v.content = Content(w)}
    IN  /\ worker[w].pc = "staged" /\ Holds(w)
        /\ ~\E o \in Workers \ {w} : worker[o].pc = "inserted" /\ Content(o) = Content(w)
        /\ worker' = [worker EXCEPT ![w].pc = "inserted",
               ![w].version = IF same = {} THEN nextVersion
                              ELSE (CHOOSE v \in same : TRUE).id]
        /\ nextVersion' = nextVersion + 1
        /\ UNCHANGED <<store, client, builds, versions, reader, extras>>

\* _insert_version_contents: the version with its series, members, coverage.
\* A reused version keeps what its first build inserted, with that build's row
\* ids; here a version is its content, which both builds have in common.
SealedVersion(w) == [id |-> worker[w].version, content |-> Content(w)]

\* Contents, seal, heartbeat.stop and the fenced success, in one commit.
Publish(w) ==
    LET me == worker[w]
    IN  /\ me.pc = "inserted" /\ Holds(w)
        /\ versions' = versions \cup {SealedVersion(w)}
        /\ builds' = [builds EXCEPT ![me.build] =
               [@ EXCEPT !.status = "succeeded", !.owner = None, !.live = FALSE,
                         !.version = me.version, !.doneGen = me.gen]]
        /\ worker' = [worker EXCEPT ![w] = IdleWorker]
        /\ UNCHANGED <<store, client, nextVersion, reader, extras>>

\* _mark_build_failed, in a transaction of its own.
MarkFailed(w) ==
    LET me == worker[w]
    IN  /\ me.pc = "blocked"
        /\ builds' = IF ~Holds(w) THEN builds
                     ELSE [builds EXCEPT ![me.build] =
                              [@ EXCEPT !.status = "failed", !.owner = None, !.live = FALSE,
                                        !.doneGen = me.gen]]
        /\ worker' = [worker EXCEPT ![w] = IdleWorker]
        /\ UNCHANGED <<store, client, versions, nextVersion, reader, extras>>

\* A failing statement rolls the publication back.
Fault(w) ==
    /\ worker[w].pc \in {"claimed", "staged", "inserted"}
    /\ Spend
    /\ worker' = [worker EXCEPT ![w].pc = "retrying"]
    /\ UNCHANGED <<store, client, builds, versions, nextVersion, reader>>

\* _schedule_build_retry.
ScheduleRetry(w) ==
    LET me == worker[w]
        b == builds[me.build]
    IN  /\ me.pc = "retrying"
        /\ builds' = IF ~Holds(w) THEN builds
                     ELSE [builds EXCEPT ![me.build] =
                              IF b.attempts >= MaxAttempts THEN DeadLettered(b)
                              ELSE [b EXCEPT !.status = "retry_wait", !.owner = None,
                                             !.live = FALSE]]
        /\ worker' = [worker EXCEPT ![w] = IdleWorker]
        /\ UNCHANGED <<store, client, versions, nextVersion, reader, extras>>

\* DatasetBuildLeaseLostError, or a fenced write that matches no row: the
\* publication is rolled back and the build left to whoever claims it.
LeaseLost(w) ==
    /\ worker[w].pc \in {"claimed", "staged", "inserted"} /\ ~Holds(w)
    /\ worker' = [worker EXCEPT ![w] = IdleWorker]
    /\ UNCHANGED <<store, client, builds, versions, nextVersion, reader, extras>>

\* The 120 seconds pass without a renewal.
Lapse(b) ==
    /\ builds[b].live
    /\ IF \E w \in Workers : worker[w].pc # "idle" /\ worker[w].build = b /\ Holds(w)
       THEN Spend ELSE extras' = extras
    /\ builds' = [builds EXCEPT ![b].live = FALSE]
    /\ UNCHANGED <<store, client, versions, nextVersion, worker, reader>>

Crash(w) ==
    /\ worker[w].pc # "idle"
    /\ Spend
    /\ worker' = [worker EXCEPT ![w] = IdleWorker]
    /\ UNCHANGED <<store, client, builds, versions, nextVersion, reader>>

-----------------------------------------------------------------------------
(* list_versions, page by page.  Unsealed versions are invisible.          *)

Ids(vs) == {v.id : v \in vs}

\* id <= ceiling AND id < last, ORDER BY id DESC LIMIT.
Page(ceiling, last) ==
    LET ids == {i \in Ids(versions) : i <= ceiling /\ i < last}
        size == IF Cardinality(ids) < PageSize THEN Cardinality(ids) ELSE PageSize
    IN  [n \in 1..size |-> CHOOSE i \in ids : Cardinality({j \in ids : j >= i}) = n]
More(ceiling, page) ==
    \E i \in Ids(versions) : i <= ceiling /\ i < page[Len(page)]

Listed(first, ceiling, seen, page) ==
    LET more == page # <<>> /\ More(ceiling, page)
    IN  [pc |-> IF more THEN "paging" ELSE "listed", first |-> first,
         ceiling |-> ceiling,
         last |-> IF more THEN page[Len(page)] ELSE 0,
         seen |-> seen \o page]

FirstPage ==
    LET ceiling == MaxOr(Ids(versions), 0)
    IN  /\ reader.pc = "idle" /\ versions # {}
        /\ Spend
        /\ reader' = Listed(Ids(versions), ceiling, <<>>, Page(ceiling, ceiling + 1))
        /\ UNCHANGED <<store, client, builds, versions, nextVersion, worker>>

NextPage ==
    /\ reader.pc = "paging"
    /\ reader' = Listed(reader.first, reader.ceiling, reader.seen,
                        Page(reader.ceiling, reader.last))
    /\ UNCHANGED <<store, client, builds, versions, nextVersion, worker, extras>>

-----------------------------------------------------------------------------
Publication(w) ==
    \/ Claim(w) \/ SweepOnly(w) \/ Stage(w) \/ InsertVersion(w) \/ Publish(w)
    \/ MarkFailed(w) \/ ScheduleRetry(w) \/ LeaseLost(w)

Next ==
    \/ (\E w \in Writes : Insert(w)) \/ (\E r \in open : Commit(r))
    \/ (\E v \in Verdicts : Judge(v))
    \/ \E c \in Clients :
           \/ \E req \in Requests : BeginCreate(c, req)
           \/ ReturnExisting(c) \/ CreateBuild(c) \/ CreateRaced(c)
    \/ \E w \in Workers : Publication(w) \/ Fault(w) \/ Crash(w)
    \/ \E b \in DOMAIN builds : Lapse(b)
    \/ FirstPage \/ NextPage

Spec == Init /\ [][Next]_vars

-----------------------------------------------------------------------------
(* Properties.                                                             *)

\* The version with an id.
VersionOf(id) == CHOOSE v \in versions : v.id = id

\* A build that succeeded names a sealed version with the coverage it froze.
\* Every member of that version is what a committed row within the build's own
\* ceilings and asOf says, and no row of the accepted snapshot would have been
\* preferred to it; every slot that the accepted snapshot could fill is
\* filled.  This holds for a version shared with a build of other ceilings,
\* and although the rows are read again at publication.  (The ceilings bound
\* the ids, not the commits: a row with a smaller id that was committed after
\* the build was accepted may be a member.)
PublishedWithinFrontier ==
    \A b \in DOMAIN builds : builds[b].status = "succeeded" =>
        LET frozen == builds[b]
            content == VersionOf(frozen.version).content
            accepted == Candidates(frozen.accepted, frozen)
        IN  /\ frozen.version \in Ids(versions)
            /\ content.coverage = frozen.coverage
            /\ \A m \in content.members : \E r \in Candidates(rows, frozen) :
                   /\ m = Member(verdicts, r, frozen)
                   /\ \A o \in accepted : o.slot = r.slot => Preferred(r, o)
            /\ \A o \in accepted : \E m \in content.members : m.slot = o.slot

\* missing_policy = fail: every bucket of a published version has a usable
\* member or lies where the market is known not to have traded.
FailPolicyHonoured ==
    \A b \in DOMAIN builds :
        (builds[b].status = "succeeded" /\ builds[b].request.policy = "fail") =>
            LET content == VersionOf(builds[b].version).content
            IN  \A s \in Starts(builds[b].request.unit) :
                    \/ \E m \in content.members :
                           m.slot = s /\ m.quality \in {"available", "no_trade"}
                    \/ \E c \in content.coverage :
                           c.from <= s /\ s < c.to /\ c.status = "no_trade"

\* One version per content: two publications of the same content share one.
OneVersionPerContent ==
    \A v, u \in versions : (v.content = u.content \/ v.id = u.id) => v = u

\* An idempotency key stands for one build, and whoever was answered with a
\* build had asked for exactly that build.
AnswersMatchRequests ==
    /\ \A a, b \in DOMAIN builds : builds[a].request.key = builds[b].request.key => a = b
    /\ \A c \in Clients : client[c].pc = "answered" =>
           builds[client[c].answer].request = client[c].request

\* A listing shows every version that was sealed when it began, each once,
\* while others are published.
ListingIsComplete ==
    /\ \A i, j \in DOMAIN reader.seen : i < j => reader.seen[i] > reader.seen[j]
    /\ reader.pc = "listed" =>
           reader.first \subseteq {reader.seen[i] : i \in DOMAIN reader.seen}

\* What a client finds again stays what it was given: a key stands for one
\* build, a content for one version, and a listing shows each version once
\* (create_build, _insert_version_contents, list_versions).
IdentitiesHold == AnswersMatchRequests /\ OneVersionPerContent /\ ListingIsComplete

\* A build is a job of the abstract queue.
Phase(b) ==
    IF b \notin DOMAIN builds THEN "none"
    ELSE CASE builds[b].status \in {"pending", "retry_wait"} -> "waiting"
           [] builds[b].status = "running" -> "leased"
           [] builds[b].status \in {"succeeded", "failed"} -> "done"
           [] OTHER -> "buried"
Queue == INSTANCE LeaseQueue WITH
    Jobs <- 1..Cardinality(Clients),
    Budget <- MaxAttempts,
    phase <- [b \in 1..Cardinality(Clients) |-> Phase(b)],
    token <- [b \in 1..Cardinality(Clients) |-> IF b \in DOMAIN builds THEN builds[b].gen ELSE 0],
    tries <- [b \in 1..Cardinality(Clients) |-> IF b \in DOMAIN builds THEN builds[b].attempts ELSE 0],
    doneBy <- [b \in 1..Cardinality(Clients) |-> IF b \in DOMAIN builds THEN builds[b].doneGen ELSE 0]

\* Dataset builds implement the lease queue: only the current lease finishes a
\* build, a spent budget buries it, and an ended build never changes.
RefinesLeaseQueue == Queue!QSpec
=============================================================================
