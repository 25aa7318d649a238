--------------------------- MODULE DataFoundation ---------------------------
(***************************************************************************)
(* The market catalog and the collection policies that open, pause and     *)
(* cancel backfill work: data_foundation_repository.py                     *)
(* (sync_market_catalog, set_market_target_state and their helpers) and    *)
(* data_foundation_worker.py, composed with Backfill.                      *)
(*                                                                         *)
(* Only KRW markets are represented, with two of the four data types: the  *)
(* source candles that are backfilled and one realtime type.  Of a policy  *)
(* the start, the data types and the continuous flag are kept.  A sync is  *)
(* one transaction and its instants strictly grow; a command resent under  *)
(* its idempotency key changes nothing and is a stuttering step.           *)
(***************************************************************************)
EXTENDS Backfill

CONSTANTS
    Catalogs,       \* [Markets -> {"tradable", "halted", "absent"}] the exchange may list
    Policies        \* policy settings an operator may give

ASSUME DataFoundationAssumption == None # "policy_disabled"

vars == <<market, clock, backfillVars>>

OperatorReasons == {"operator_paused", "policy_disabled"}

NoMarket ==
    [trading |-> "unknown", auto |-> TRUE, start |-> 0, cont |-> TRUE,
     status |-> [d \in Types |-> "none"], reason |-> [d \in Types |-> None],
     desire |-> [d \in Types |-> FALSE], gen |-> [d \in Types |-> 0],
     legacy |-> FALSE]

Init ==
    /\ BackfillInit
    /\ market = [m \in Markets |-> NoMarket]
    /\ clock = 0

-----------------------------------------------------------------------------
(* Work for a market.                                                      *)

\* _ensure_backfill_job, with the end of what is already done for the
\* default work and with a key of its own for the work of a policy.
HoldsOpen(job, m) ==
    \/ m \in TargetsIn(job, OpenTarget)
    \/ DOMAIN job.targets = {} /\ m \in job.plan
\* Mutant: the end of a finished range is taken as its last minute.
DonePastEnd(js, m) ==
    Max({0} \cup {js[j].hi + 1 : j \in {k \in DOMAIN js :
        js[k].status = "succeeded" /\ ~js[k].manual /\ m \in DOMAIN js[k].targets}})
DoneUntil(js, m) ==
    Max({0} \cup {js[j].hi : j \in {k \in DOMAIN js :
        js[k].status = "succeeded" /\ ~js[k].manual /\ m \in DOMAIN js[k].targets}})
KeyTaken(js, key) == \E j \in DOMAIN js : js[j].status # "deleted" /\ js[j].key = key
\* Mutant: open work for the market is not looked for.
EnsuredAnyway(js, m, key, lo, hi) ==
    IF lo >= hi \/ KeyTaken(js, key) THEN js
    ELSE Append(js, NewJob({m}, FALSE, key, lo, hi))
Ensured(js, m, key, lo, hi) ==
    IF \/ lo >= hi
       \/ \E j \in OpenJobs(js) : HoldsOpen(js[j], m)
       \/ KeyTaken(js, key)
    THEN js
    ELSE Append(js, NewJob({m}, FALSE, key, lo, hi))
DefaultKey(m, lo, hi) == <<"default", m, lo, hi>>
EnsuredDefault(js, m, now) ==
    LET lo == DoneUntil(js, m)
    IN  Ensured(js, m, DefaultKey(m, lo, now), lo, now)

\* _transition_market_backfill_work: active resumes the paused targets whose
\* spec allows it ...
Runnable(job) == TargetsIn(job, {"pending", "running"}) # {}
Resumed(js, m, allowed) ==
    [j \in DOMAIN js |->
        LET job == js[j]
            next == [job EXCEPT !.targets[m] = "pending"]
        IN  IF /\ job.status \in Open
               /\ m \in TargetsIn(job, {"paused"})
               /\ job.manual \/ allowed
            THEN IF job.status = "paused" THEN Released(next, "pending") ELSE next
            ELSE job]

\* Mutant: a job that waits for its retry is not withdrawn.
WithdrawnUnlessWaiting(js, m, status) ==
    [j \in DOMAIN js |->
        LET job == js[j]
            next == [job EXCEPT !.targets[m] =
                        IF status = "paused" THEN "paused" ELSE "stopped"]
        IN  IF job.status \in Open \ {"retry_wait"} /\ m \in TargetsIn(job, OpenTarget)
            THEN IF Runnable(next) THEN next
                 ELSE Released(next, IF TargetsIn(next, {"paused"}) # {} \/ status = "paused"
                                     THEN "paused" ELSE "cancelled")
            ELSE job]

\* ... paused and excluded take the market's targets out of their jobs.
Withdrawn(js, m, status) ==
    [j \in DOMAIN js |->
        LET job == js[j]
            next == [job EXCEPT !.targets[m] =
                        IF status = "paused" THEN "paused" ELSE "stopped"]
        IN  IF job.status \in Open /\ m \in TargetsIn(job, OpenTarget)
            THEN IF Runnable(next) THEN next
                 ELSE Released(next, IF TargetsIn(next, {"paused"}) # {} \/ status = "paused"
                                     THEN "paused" ELSE "cancelled")
            ELSE job]

\* _cancel_superseded_source_backfill.
Superseded(js, m) ==
    [j \in DOMAIN js |->
        LET job == js[j]
            next == [job EXCEPT !.targets[m] = "stopped"]
        IN  IF job.status \in Open /\ m \in TargetsIn(job, OpenTarget)
            THEN IF Runnable(next) THEN next
                 ELSE Released(next, IF TargetsIn(next, {"paused"}) # {} THEN "paused"
                                     ELSE "cancelled")
            ELSE job]

-----------------------------------------------------------------------------
(* sync_market_catalog.                                                    *)

Kept(mk, d) == mk.status[d] = "excluded" \/ mk.reason[d] \in OperatorReasons

\* The specs, desires and legacy target of a market that was observed
\* tradable or halted, or that an active market's absence makes inactive.
Observed(mk, item) ==
    LET status == [d \in Types |-> IF Kept(mk, d) THEN mk.status[d]
                                   ELSE IF item = "tradable" THEN "active" ELSE "paused"]
        reason == [d \in Types |->
                      IF Kept(mk, d) THEN mk.reason[d]
                      ELSE CASE item = "tradable" -> None
                             [] item = "halted" -> "market_inactive"
                             [] item = "absent" -> "catalog_missing"]
        cont == IF mk.auto /\ item # "absent" THEN TRUE ELSE mk.cont
        desire == [d \in Types |-> item = "tradable" /\ status[d] = "active" /\ cont]
    IN  [mk EXCEPT !.trading = IF item = "tradable" THEN "active" ELSE "inactive",
                   !.cont = cont,
                   !.status = status, !.reason = reason, !.desire = desire,
                   !.gen = [d \in Types |->
                               IF mk.trading = "unknown" \/ mk.desire[d] # desire[d]
                               THEN @[d] + 1 ELSE @[d]],
                   !.legacy = item # "absent" /\ \E d \in Types : status[d] = "active"]

\* _mark_missing_markets_inactive takes only the markets that were active.
Touched(m, item) == item # "absent" \/ market[m].trading = "active"

\* _ensure_initial_coverage and _transition_market_availability_coverage.
ObservedCoverage(cov, item, now) ==
    LET first == \A s \in Slots : cov[s] = None
    IN  [s \in Slots |->
            IF s >= now
            THEN IF item # "tradable" THEN "unavailable"
                 ELSE IF cov[s] = "unavailable" THEN "unverified" ELSE cov[s]
            ELSE IF first /\ item # "absent" THEN "unverified" ELSE cov[s]]

\* The backfill work of one observed market.
SyncedJobs(js, m, item, mk, now) ==
    LET active == mk.status["source_candle"] = "active"
        more == IF item = "tradable" /\ active THEN EnsuredDefault(js, m, now) ELSE js
    IN  IF item = "tradable" THEN Resumed(more, m, active) ELSE Withdrawn(more, m, "paused")

\* One observed market after the other, in the order of their ids.
Nth(S, n) == CHOOSE m \in S : Cardinality({o \in S : o < m}) = n - 1
SyncedAll(touched, catalog) ==
    LET synced[n \in 0..Cardinality(touched)] ==
            IF n = 0 THEN jobs
            ELSE LET m == Nth(touched, n)
                 IN  SyncedJobs(synced[n - 1], m, catalog[m], market'[m], clock')
    IN  synced[Cardinality(touched)]

SyncMarketCatalog ==
    /\ clock < MaxTime
    /\ clock' = clock + 1
    /\ \E catalog \in Catalogs :
        LET touched == {m \in Markets : Touched(m, catalog[m])}
            new == {m \in touched : market[m].trading = "unknown"}
        IN  /\ extras + Cardinality(new) <= MaxExtras
            /\ extras' = extras + Cardinality(new)
            /\ market' = [m \in Markets |->
                   IF m \in touched THEN Observed(market[m], catalog[m]) ELSE market[m]]
            /\ coverage' = [m \in Markets |->
                   IF m \in touched THEN ObservedCoverage(coverage[m], catalog[m], clock')
                   ELSE coverage[m]]
            /\ jobs' = SyncedAll(touched, catalog)
    /\ UNCHANGED <<candles, answered, worker, console>>

-----------------------------------------------------------------------------
(* set_market_target_state.                                                *)

Selected(mk, policy, d) ==
    IF policy = None THEN mk.reason[d] # "policy_disabled" ELSE d \in policy.types

Configured(mk, policy, state) ==
    LET sel == [d \in Types |-> Selected(mk, policy, d)]
        start == IF policy = None THEN mk.start ELSE policy.start
        cont == IF policy = None THEN mk.cont ELSE policy.cont
        changed == [d \in Types |->
                       \/ (mk.reason[d] # "policy_disabled") # sel[d]
                       \/ sel[d] /\ <<mk.start, mk.cont>> # <<start, cont>>]
        desire == [d \in Types |-> sel[d] /\ state = "active" /\ cont]
    IN  [mk EXCEPT
            !.auto = FALSE, !.start = start, !.cont = cont,
            !.status = [d \in Types |-> IF sel[d] THEN state ELSE "paused"],
            !.reason = [d \in Types |->
                           IF ~sel[d] THEN "policy_disabled"
                           ELSE CASE state = "active" -> None
                                  [] state = "paused" -> "operator_paused"
                                  [] state = "excluded" -> "operator_excluded"],
            !.desire = desire,
            !.gen = [d \in Types |-> IF mk.desire[d] # desire[d] \/ changed[d]
                                     THEN @[d] + 1 ELSE @[d]],
            !.legacy = state = "active"]

PolicyChanged(mk, policy) ==
    LET next == Configured(mk, policy, "active")
        source == "source_candle"
    IN  \/ (mk.reason[source] # "policy_disabled") # Selected(mk, policy, source)
        \/ /\ Selected(mk, policy, source)
           /\ <<mk.start, mk.cont>> # <<next.start, next.cont>>

PolicyKey(m, mk) == <<"policy", m, mk.gen["source_candle"], mk.start, mk.cont>>

SetMarketTargetState(m) ==
    /\ market[m].trading # "unknown"
    /\ Spend
    /\ \E state \in {"active", "paused", "excluded"}, policy \in Policies \cup {None} :
        LET mk == market[m]
            next == Configured(mk, policy, state)
            cleared == IF policy # None /\ PolicyChanged(mk, policy)
                       THEN Superseded(jobs, m) ELSE jobs
            moved == IF state = "active"
                     THEN Resumed(cleared, m, next.status["source_candle"] = "active")
                     ELSE Withdrawn(cleared, m, state)
            reopen == /\ Selected(mk, policy, "source_candle")
                      /\ state = "active"
                      /\ policy # None \/ mk.status["source_candle"] = "excluded"
        IN  /\ state = "active" => mk.trading = "active"
            /\ policy # None => policy.start < clock
            /\ market' = [market EXCEPT ![m] = next]
            /\ jobs' = IF reopen THEN Ensured(moved, m, PolicyKey(m, next), next.start, clock)
                       ELSE moved
    /\ UNCHANGED <<clock, rows, worker, console>>

-----------------------------------------------------------------------------
Next ==
    \/ BackfillNext
    \/ SyncMarketCatalog
    \/ \E m \in Markets : SetMarketTargetState(m)

Spec == Init /\ [][Next]_vars

-----------------------------------------------------------------------------
(* Properties.                                                             *)

\* A job that reports success has, for every target that was not stopped, an
\* answer or a candle for every minute of its range, whatever leases were lost
\* and whatever was paused, resumed or retried on the way
\* (collector.py run_backfill_once, _refresh_backfill_job_progress).
SucceededIsAnswered ==
    \A j \in DOMAIN jobs : jobs[j].status = "succeeded" =>
        \A m \in DOMAIN jobs[j].targets :
            \/ jobs[j].targets[m] = "stopped"
            \/ /\ jobs[j].targets[m] = "succeeded"
               /\ JobSlots(jobs[j]) \subseteq answered[m] \cup candles[m]

\* Two open jobs never hold one market, unless an operator put one of them
\* back: create_backfill_plan, approve_backfill_job, _ensure_backfill_job, the
\* resumption of a market and the refresh of a job all respect the others.
OneOpenJobPerMarket ==
    \A j, k \in OpenJobs(jobs) : j # k =>
        \A m \in Markets :
            (HoldsOpen(jobs[j], m) /\ HoldsOpen(jobs[k], m)) =>
                jobs[j].forced \/ jobs[k].forced

\* A market whose source spec is not active is quiet: it is not subscribed and
\* none of its automatic jobs has anything to run, unless an operator put the
\* job back by hand.
OffMarketsAreQuiet ==
    \A m \in Markets : market[m].status["source_candle"] # "active" =>
        /\ ~market[m].desire["source_candle"]
        /\ \A j \in OpenJobs(jobs) :
               m \in TargetsIn(jobs[j], {"pending", "running"}) =>
                   jobs[j].manual \/ jobs[j].forced

\* After a sync no minute of an active market is forgotten: there is open work
\* for the market, or every minute since its policy's start was answered or
\* has a verdict, or an operator gave up the job that was to fetch it.
Explained(m, s) ==
    \/ s \in answered[m] \cup candles[m]
    \/ coverage[m][s] \notin {None, "unverified"}
    \/ \E j \in DOMAIN jobs :
           /\ jobs[j].status \in {"stopped", "deleted"} \/ jobs[j].forced
           /\ s \in JobSlots(jobs[j]) /\ m \in jobs[j].plan
NoSlotForgotten ==
    [][clock' # clock =>
        \A m \in Markets : market'[m].status["source_candle"] = "active" =>
            \/ \E j \in OpenJobs(jobs') : HoldsOpen(jobs'[j], m)
            \/ \A s \in Slots : (market'[m].start <= s /\ s < clock') => Explained(m, s)']_vars
=============================================================================
