------------------------------ MODULE Backfill ------------------------------
(***************************************************************************)
(* Backfill jobs: postgres_repository.py (create_backfill_plan to          *)
(* delete_backfill_job, _refresh_backfill_job_progress) and the worker     *)
(* that runs them, collector.py run_backfill_once.  DataFoundation adds    *)
(* the market catalog and the collection policies.                         *)
(*                                                                         *)
(* A market is a number (its instrument id), a slot a minute.  The range   *)
(* of a job is lo..(hi - 1).  A response is the set of slots it has rows   *)
(* for; one missing range is answered by one page.  Every transaction is   *)
(* one step; control_backfill_job is two, since it reads the job without a *)
(* lock and updates it afterwards.  A worker's id is new in every process: *)
(* the lease of a process that ended belongs to Gone.  The safety gate     *)
(* withholds claims and is not represented: a claim may always be late.    *)
(***************************************************************************)
EXTENDS Naturals, Sequences, FiniteSets, FiniteSetsExt

CONSTANTS
    Markets,        \* instrument ids, numbers
    Workers,        \* backfill worker slots
    MaxAttempts,    \* backfill_jobs.max_attempts
    MaxTime,        \* bound: observed instants
    Plans,          \* bound: the plans an operator may make, once each
    Replies(_),     \* bound: the sets of rows a page over a range may hold
    MaxExtras,      \* bound: listings of a market, operator commands and faults
    None, Gone

ASSUME BackfillAssumption ==
    /\ Markets \subseteq Nat /\ IsFiniteSet(Markets)
    /\ MaxAttempts \in Nat \ {0} /\ MaxTime \in Nat \ {0}
    /\ {None, Gone} \cap Workers = {}
    /\ \A p \in Plans : p.targets \subseteq Markets

Slots == 0..(MaxTime - 1)
Types == {"source_candle", "trade_event"}

VARIABLES
    market,     \* markets, status history, collection_target_specs, desires, legacy target
    clock,      \* the instant of the latest catalog sync
    jobs,       \* backfill_jobs with their backfill_job_targets, in id order
    candles,    \* per market: slots that have a source candle
    coverage,   \* per market and slot: coverage_intervals of the source_candle spec
    answered,   \* history: slots of stored responses, per market
    worker,     \* per worker: where run_backfill_once is
    console,    \* control_backfill_job between its read and its update
    extras      \* how many of the bounded steps were taken

rows == <<candles, coverage, answered>>
backfillVars == <<jobs, rows, worker, console, extras>>

Idle == [pc |-> "idle", job |-> 0, todo |-> <<>>, at |-> 0, ranges |-> {}]

BackfillInit ==
    /\ jobs = <<>>
    /\ candles = [m \in Markets |-> {}]
    /\ coverage = [m \in Markets |-> [s \in Slots |-> None]]
    /\ answered = [m \in Markets |-> {}]
    /\ worker = [w \in Workers |-> Idle]
    /\ console = None
    /\ extras = 0

-----------------------------------------------------------------------------
(* Jobs.                                                                   *)

Open == {"planned", "pending", "running", "retry_wait", "paused"}
OpenTarget == {"pending", "running", "paused"}
JobSlots(job) == {s \in Slots : job.lo <= s /\ s < job.hi}
OpenJobs(js) == {j \in DOMAIN js : js[j].status \in Open}

NewJob(plan, manual, key, lo, hi) ==
    [status |-> IF manual THEN "planned" ELSE "pending",
     manual |-> manual, plan |-> plan, key |-> key, lo |-> lo, hi |-> hi,
     targets |-> IF manual THEN <<>> ELSE [m \in plan |-> "pending"],
     tries |-> 0, owner |-> None, live |-> FALSE, due |-> FALSE, forced |-> FALSE]

Released(job, status) ==
    [job EXCEPT !.status = status, !.owner = None, !.live = FALSE, !.due = FALSE]
Retarget(job, from, to) ==
    [job EXCEPT !.targets =
        [m \in DOMAIN @ |-> IF @[m] \in from THEN to ELSE @[m]]]
TargetsIn(job, S) == {m \in DOMAIN job.targets : job.targets[m] \in S}
AllTargets == {"pending", "running", "paused", "stopped", "succeeded", "failed"}

\* _move_backfill_job_to_dead_letter: the job and its unfinished targets ...
Unfinished == AllTargets \ {"succeeded", "stopped", "paused"}
DeadLettered(job) == Retarget(Released(job, "dead_letter"), Unfinished, "failed")
\* ... and what is known of the slots they leave behind.
Exhausted(cov, dead) ==
    [m \in Markets |-> [s \in Slots |->
        IF /\ cov[m][s] \in {None, "unverified"}
           /\ \E job \in dead : ~job.manual /\ m \in TargetsIn(job, Unfinished)
                                 /\ s \in JobSlots(job)
        THEN "missing" ELSE cov[m][s]]]

\* Mutant: a paused target counts as done.
RefreshedPastPaused(job) ==
    IF TargetsIn(job, {"failed"}) # {}
    THEN IF job.tries < MaxAttempts
         THEN Retarget(Released(job, "retry_wait"), {"failed"}, "pending")
         ELSE DeadLettered(job)
    ELSE IF TargetsIn(job, {"pending", "running"}) # {} THEN job
    ELSE Released(job, "succeeded")

\* _refresh_backfill_job_progress, after a target of a running job changed.
Refreshed(job) ==
    IF TargetsIn(job, {"failed"}) # {}
    THEN IF job.tries < MaxAttempts
         THEN Retarget(Released(job, "retry_wait"), {"failed"}, "pending")
         ELSE DeadLettered(job)
    ELSE IF TargetsIn(job, {"pending", "running"}) # {} THEN job
    ELSE IF TargetsIn(job, {"paused"}) # {} THEN Released(job, "paused")
    ELSE Released(job, "succeeded")

-----------------------------------------------------------------------------
(* The operator.                                                           *)

Spend == extras < MaxExtras /\ extras' = extras + 1

\* The conflict query of create_backfill_plan and approve_backfill_job.
Conflict(m, others) ==
    \E j \in OpenJobs(jobs) \cap others : m \in jobs[j].plan

CreatePlan ==
    /\ Spend
    /\ \E p \in Plans :
           /\ p.lo < p.hi /\ p.hi <= clock
           /\ \A j \in DOMAIN jobs :
                  jobs[j].manual => <<jobs[j].plan, jobs[j].lo>> # <<p.targets, p.lo>>
           /\ \A m \in p.targets : ~Conflict(m, DOMAIN jobs)
           /\ jobs' = Append(jobs, NewJob(p.targets, TRUE, None, p.lo, p.hi))
    /\ UNCHANGED <<market, clock, rows, worker, console>>

ApprovePlan(j) ==
    /\ jobs[j].status = "planned"
    /\ \A m \in jobs[j].plan : ~Conflict(m, DOMAIN jobs \ {j}) /\ market[m].legacy
    /\ jobs' = [jobs EXCEPT ![j].status = "pending",
                            ![j].targets = [m \in jobs[j].plan |-> "pending"]]
    /\ UNCHANGED <<market, clock, rows, worker, console, extras>>

MayControl(status, action) ==
    /\ status \notin {"succeeded", "deleted"}
    /\ action = "pause" => status \in {"pending", "running", "retry_wait"}
    /\ action = "resume" => status \in {"paused", "failed"}
    /\ action = "safe-restart" =>
           status \in {"paused", "stopped", "failed", "dead_letter", "cancelled"}

\* control_backfill_job reads the job ...
ReadControl(j) ==
    /\ console = None
    /\ Spend
    /\ \E action \in {"pause", "stop", "resume", "safe-restart"} :
           /\ MayControl(jobs[j].status, action)
           /\ console' = [job |-> j, action |-> action]
    /\ UNCHANGED <<market, clock, jobs, rows, worker>>

\* A job that had ended by then is put back among the open ones.
Controlled(job, action) ==
    CASE action = "pause" ->
             [Retarget(Released(job, "paused"), {"pending", "running"}, "paused")
              EXCEPT !.forced = @ \/ job.status \notin Open]
      [] action = "stop" ->
             Retarget(Released(job, "stopped"), AllTargets \ {"succeeded", "failed"}, "stopped")
      [] OTHER ->
             [Retarget(Released(job, "pending"), AllTargets \ {"succeeded"}, "pending")
              EXCEPT !.tries = IF action = "safe-restart" THEN 0 ELSE @,
                     !.forced = TRUE]

\* ... and updates whatever the row has become by then.
CommitControl ==
    /\ console # None
    /\ jobs' = IF jobs[console.job].status = "deleted" THEN jobs
               ELSE [jobs EXCEPT ![console.job] = Controlled(@, console.action)]
    /\ console' = None
    /\ UNCHANGED <<market, clock, rows, worker, extras>>

DeleteJob(j) ==
    /\ jobs[j].status \notin {"running", "deleted"}
    /\ Spend
    /\ jobs' = [jobs EXCEPT ![j].status = "deleted"]
    /\ UNCHANGED <<market, clock, rows, worker, console>>

-----------------------------------------------------------------------------
(* The worker.                                                             *)

Expired(job) == job.status = "running" /\ ~job.live
SpentJobs == {j \in DOMAIN jobs :
    /\ jobs[j].tries >= MaxAttempts
    /\ jobs[j].status \in {"pending", "retry_wait"} \/ Expired(jobs[j])}
Claimable == {j \in DOMAIN jobs :
    /\ jobs[j].tries < MaxAttempts
    /\ \/ jobs[j].status = "pending"
       \/ jobs[j].status = "retry_wait" /\ jobs[j].due
       \/ Expired(jobs[j])}

ClaimNextJob(w) ==
    LET swept == [j \in DOMAIN jobs |->
                      IF j \in SpentJobs THEN DeadLettered(jobs[j]) ELSE jobs[j]]
        next == Min(Claimable)
    IN  /\ worker[w].pc = "idle"
        /\ SpentJobs \cup Claimable # {}
        /\ coverage' = Exhausted(coverage, {jobs[j] : j \in SpentJobs})
        /\ IF Claimable = {}
           THEN jobs' = swept /\ worker' = worker
           ELSE /\ jobs' = [swept EXCEPT
                               ![next].status = "running", ![next].owner = w,
                               ![next].live = TRUE, ![next].due = FALSE,
                               ![next].tries = @ + 1]
                /\ worker' = [worker EXCEPT ![w] =
                       [Idle EXCEPT !.pc = "targets", !.job = next,
                                    !.todo = jobs[next].targets]]
        /\ UNCHANGED <<market, clock, candles, answered, console, extras>>

\* _assert_backfill_write_lease: what a write of the target in hand meets.
WriteOutcome(w, m) ==
    LET job == jobs[worker[w].job]
    IN  IF job.status = "deleted" THEN "lost"
        ELSE IF job.targets[m] \notin {"pending", "running"} THEN "stopped"
        ELSE IF job.status = "running" /\ job.owner = w /\ job.live THEN "ok"
        ELSE "lost"

Without(todo, m) == [t \in DOMAIN todo \ {m} |-> todo[t]]

\* BackfillTargetNotWritableError: on to the next target.
NextTarget(w) ==
    worker' = [worker EXCEPT ![w].pc = "targets", ![w].ranges = {},
                             ![w].todo = Without(@, worker[w].at)]
Goto(w, pc) == worker' = [worker EXCEPT ![w].pc = pc]
Leave(w) == worker' = [worker EXCEPT ![w] = Idle]

\* An exception that leaves run_backfill_once ends the process; the next one
\* has another id.
Disowned(w) ==
    [j \in DOMAIN jobs |-> IF jobs[j].owner = w THEN [jobs[j] EXCEPT !.owner = Gone]
                           ELSE jobs[j]]
Exit(w) == Leave(w) /\ jobs' = Disowned(w)

Stopping == {"retry_wait", "paused", "stopped", "failed", "succeeded",
             "dead_letter", "cancelled", "deleted"}

\* The loop over the targets: read the job's status, take the next target and
\* mark it running.
TakeTarget(w) ==
    LET me == worker[w]
        m == Min(DOMAIN me.todo)
    IN  /\ me.pc = "targets"
        /\ UNCHANGED <<market, clock, rows, console, extras>>
        /\ IF DOMAIN me.todo = {} \/ jobs[me.job].status \in Stopping
           THEN Leave(w) /\ jobs' = jobs
           ELSE IF me.todo[m] \in {"paused", "succeeded", "stopped"}
           THEN /\ worker' = [worker EXCEPT ![w].todo = Without(@, m)]
                /\ jobs' = jobs
           ELSE LET outcome == IF me.todo[m] = "running" THEN "ok" ELSE WriteOutcome(w, m)
                IN  \/ /\ outcome = "ok"
                       /\ worker' = [worker EXCEPT ![w].pc = "ranges", ![w].at = m]
                       /\ jobs' = IF me.todo[m] = "running" THEN jobs
                                  ELSE [jobs EXCEPT ![me.job].targets[m] = "running"]
                    \/ /\ outcome = "stopped"
                       /\ worker' = [worker EXCEPT ![w].todo = Without(@, m)]
                       /\ jobs' = jobs
                    \/ outcome = "lost" /\ Exit(w)

\* _missing_source_candle_ranges: runs of adjacent slots without a candle.
MissingRanges(missing) ==
    {S \in SUBSET missing :
        /\ S # {}
        /\ \A s \in Min(S)..Max(S) : s \in S
        /\ Max(S) + 1 \notin missing
        /\ Min(S) = 0 \/ (Min(S) - 1) \notin missing}

\* Compute the missing ranges and record the progress so far.
FindRanges(w) ==
    LET me == worker[w]
        missing == JobSlots(jobs[me.job]) \ candles[me.at]
        outcome == WriteOutcome(w, me.at)
    IN  /\ me.pc = "ranges"
        /\ UNCHANGED <<market, clock, jobs, rows, console, extras>>
        /\ \/ missing = {} /\ Goto(w, "succeed")
           \/ /\ missing # {} /\ outcome = "ok"
              /\ worker' = [worker EXCEPT ![w].pc = "range",
                                          ![w].ranges = MissingRanges(missing)]
           \/ missing # {} /\ outcome = "stopped" /\ NextTarget(w)
           \/ missing # {} /\ outcome = "lost" /\ Goto(w, "fail")

\* Before each range the worker looks whether the job was interrupted.
CheckRange(w) ==
    LET me == worker[w]
    IN  /\ me.pc = "range"
        /\ UNCHANGED <<market, clock, jobs, rows, console, extras>>
        /\ IF jobs[me.job].status \in Stopping THEN Leave(w) ELSE Goto(w, "fetch")

First(ranges) == CHOOSE S \in ranges : \A T \in ranges : Min(S) <= Min(T)
FirstRange(w) == First(worker[w].ranges)

\* The rows of a page and the gaps between them.
InternalGaps(page) == {s \in Slots : \E a, b \in page : a < s /\ s < b} \ page

\* record_backfill_candles.
StorePage(w) ==
    LET me == worker[w]
        m == me.at
        outcome == WriteOutcome(w, m)
    IN  /\ me.pc = "fetch"
        /\ UNCHANGED <<market, clock, console, extras>>
        /\ \/ /\ outcome = "ok"
              /\ \E page \in Replies(FirstRange(w)) :
                     /\ candles' = [candles EXCEPT ![m] = @ \cup page]
                     /\ coverage' = [coverage EXCEPT ![m] = [s \in Slots |->
                            IF s \in page THEN "available"
                            ELSE IF s \in InternalGaps(page) THEN "no_trade" ELSE @[s]]]
              /\ answered' = [answered EXCEPT ![m] = @ \cup FirstRange(w)]
              /\ jobs' = [jobs EXCEPT ![me.job].targets[m] = "running"]
              /\ Goto(w, "progress")
           \/ outcome = "stopped" /\ NextTarget(w) /\ UNCHANGED <<jobs, rows>>
           \/ outcome = "lost" /\ Goto(w, "fail") /\ UNCHANGED <<jobs, rows>>

\* The page cannot be fetched.
FetchFails(w) ==
    /\ worker[w].pc = "fetch"
    /\ Spend
    /\ Goto(w, "fail")
    /\ UNCHANGED <<market, clock, jobs, rows, console>>

\* record_backfill_target_progress after a range.
RangeDone(w) ==
    LET me == worker[w]
        left == me.ranges \ {FirstRange(w)}
        outcome == WriteOutcome(w, me.at)
    IN  /\ me.pc = "progress"
        /\ UNCHANGED <<market, clock, jobs, rows, console, extras>>
        /\ \/ /\ outcome = "ok"
              /\ worker' = [worker EXCEPT ![w].ranges = left,
                                          ![w].pc = IF left = {} THEN "succeed" ELSE "range"]
           \/ outcome = "stopped" /\ NextTarget(w)
           \/ outcome = "lost" /\ Goto(w, "fail")

\* mark_backfill_target succeeded.
MarkSucceeded(w) ==
    LET me == worker[w]
        outcome == WriteOutcome(w, me.at)
    IN  /\ me.pc = "succeed"
        /\ UNCHANGED <<market, clock, rows, console, extras>>
        /\ \/ /\ outcome = "ok"
              /\ jobs' = [jobs EXCEPT ![me.job] =
                              Refreshed([jobs[me.job] EXCEPT !.targets[me.at] = "succeeded"])]
              /\ NextTarget(w)
           \/ outcome = "stopped" /\ NextTarget(w) /\ jobs' = jobs
           \/ outcome = "lost" /\ Goto(w, "fail") /\ jobs' = jobs

\* mark_backfill_target failed, in the handler of the exception: an exception
\* of its own ends the process.
MarkFailed(w) ==
    LET me == worker[w]
        failed == [jobs[me.job] EXCEPT !.targets[me.at] = "failed"]
    IN  /\ me.pc = "fail"
        /\ UNCHANGED <<market, clock, candles, answered, console, extras>>
        /\ \/ /\ WriteOutcome(w, me.at) = "ok"
              /\ jobs' = [jobs EXCEPT ![me.job] = Refreshed(failed)]
              /\ coverage' = IF Refreshed(failed).status = "dead_letter"
                             THEN Exhausted(coverage, {failed}) ELSE coverage
              /\ NextTarget(w)
           \/ WriteOutcome(w, me.at) # "ok" /\ Exit(w) /\ coverage' = coverage

WorkerStep(w) ==
    \/ TakeTarget(w) \/ FindRanges(w) \/ CheckRange(w) \/ StorePage(w)
    \/ RangeDone(w) \/ MarkSucceeded(w) \/ MarkFailed(w)

-----------------------------------------------------------------------------
(* Time and crashes.                                                       *)

ExpireLease(j) ==
    /\ jobs[j].status = "running" /\ jobs[j].live
    /\ \A w \in Workers : jobs[j].owner = w => worker[w].pc = "idle" \/ extras < MaxExtras
    /\ extras' = IF jobs[j].owner \in Workers /\ worker[jobs[j].owner].pc # "idle"
                 THEN extras + 1 ELSE extras
    /\ jobs' = [jobs EXCEPT ![j].live = FALSE]
    /\ UNCHANGED <<market, clock, rows, worker, console>>

RetryDue(j) ==
    /\ jobs[j].status = "retry_wait" /\ ~jobs[j].due
    /\ jobs' = [jobs EXCEPT ![j].due = TRUE]
    /\ UNCHANGED <<market, clock, rows, worker, console, extras>>

Crash(w) ==
    /\ worker[w].pc # "idle"
    /\ Spend
    /\ Exit(w)
    /\ UNCHANGED <<market, clock, rows, console>>

BackfillNext ==
    \/ CreatePlan \/ CommitControl
    \/ \E j \in DOMAIN jobs :
           \/ ApprovePlan(j) \/ ReadControl(j) \/ DeleteJob(j)
           \/ ExpireLease(j) \/ RetryDue(j)
    \/ \E w \in Workers :
           \/ ClaimNextJob(w) \/ WorkerStep(w) \/ FetchFails(w) \/ Crash(w)
=============================================================================
