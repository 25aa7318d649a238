--------------------------- MODULE PaperExecution ---------------------------
(***************************************************************************)
(* Order intents from risk evaluation to the paper fill, under the kill    *)
(* switches: portfolio_bot_store.py (evaluate_next_order_intent_risk,      *)
(* claim, complete and fail of paper_execution_jobs), the workers that     *)
(* call it, and the tables of the migrations 20260718000500 and            *)
(* 20260718000700.                                                         *)
(*                                                                         *)
(* An intent is a natural number, in the order of created_at.  Its job, if *)
(* risk evaluation creates one, has the same number.                       *)
(*                                                                         *)
(* Transactions are READ COMMITTED.  LOCK TABLE kill_switches IN SHARE     *)
(* MODE conflicts with the ROW EXCLUSIVE lock of an operator's INSERT and  *)
(* not with itself; both are held to the end of the transaction.  The      *)
(* database clock is abstracted to leaseDue and retryDue.                  *)
(***************************************************************************)
EXTENDS Integers, FiniteSets, FiniteSetsExt, Functions

CONSTANTS
    NumIntents,     \* bound: intents that bots ever create
    Workers,        \* paper execution workers
    Evaluators,     \* risk evaluation workers
    Scopes,         \* kill switch scopes: global, portfolios, bots
    Positions,      \* (portfolio, instrument) pairs
    ScopesOf,       \* [intent -> its global, portfolio and bot scope]
    BotOf,          \* [intent -> bot instance]
    ModeOf,         \* [bot -> execution_mode, "paper" or "shadow"]
    OrderOf,        \* [intent -> position, side and requested amounts; 0 is NULL]
    Limits,         \* risk_limits rows
    FillQuantities, \* quantities an executor may fill
    MaxAttempts,    \* paper_execution_jobs.max_attempts
    MaxSwitches,    \* bound: kill switch rows inserted in a behaviour
    MaxStages,      \* bound: stage changes of bots in a behaviour
    MaxCrashes,     \* bound: worker crashes in a behaviour
    None

Intents == 1..NumIntents
Bots == {BotOf[i] : i \in Intents}
Stage == {"paper", "shadow", "paused"}

IntentStatus == {"absent", "created", "approved", "risk_rejected", "paper_filled"}
JobStatus == {"absent", "pending", "running", "retry_wait", "succeeded", "dead_letter"}

Order == [position : Positions, side : {"buy", "sell"},
          quantity : Nat, price : Nat, notional : Nat]

Limit == [intents : SUBSET Intents,  \* the intents in the limit's scope
          key : STRING, type : STRING, version : Nat, value : Nat, active : BOOLEAN]

ASSUME PaperConstants ==
    /\ NumIntents \in Nat \ {0} /\ MaxAttempts \in Nat \ {0}
    /\ MaxSwitches \in Nat /\ MaxStages \in Nat /\ MaxCrashes \in Nat
    /\ ScopesOf \in [Intents -> SUBSET Scopes]
    /\ ModeOf \in [Bots -> {"paper", "shadow"}]
    /\ OrderOf \in [Intents -> Order]
    /\ FillQuantities \subseteq Nat \ {0}
    /\ None \notin Workers /\ None \notin {"armed", "released"}
    /\ Workers \cap Evaluators = {}

ASSUME LimitRows == \A l \in Limits : l \in Limit

VARIABLES
    intent,     \* order_intents.status; "absent": not created yet
    job,        \* paper_execution_jobs.status; "absent": no row
    born,       \* order of the jobs' created_at; 0: no row
    owner,      \* lease_owner
    gen,        \* lease_generation
    attempts,   \* attempt_count
    leaseDue,   \* lease_expires_at <= clock_timestamp()
    retryDue,   \* next_retry_at <= clock_timestamp()
    deferrals,  \* history: deferrals of each job by a kill switch
    fills,      \* committed paper fills, by generation and quantity
    position,   \* position_projections.quantity
    switch,     \* state of the latest kill_switches row of each scope
    inserted,   \* state an operator has inserted and not yet committed
    stage,      \* bot_instances.stage
    jobLock,    \* the worker whose transaction locks the job row
    posLock,    \* the worker holding the position's advisory lock
    proc,       \* what each worker and each evaluator remembers
    switches, stages, crashes

lease == <<job, owner, gen, attempts, leaseDue, retryDue, deferrals>>
ledger == <<fills, position>>
operators == <<switch, inserted, stage, switches, stages>>
locks == <<jobLock, posLock>>
vars == <<intent, born, lease, ledger, operators, locks, proc, crashes>>

-----------------------------------------------------------------------------
Procs == Workers \cup Evaluators

\* pc is the place in run_once; decision is a risk evaluation not yet
\* committed; seen is the quantity read under the position lock.
Memory == [pc : {"idle", "claiming", "executing", "locked", "cleared",
                 "filling", "failing", "picked", "deciding"},
           i : Intents \cup {0},
           gen : Nat,
           seen : Int,
           decision : {"none", "approved", "risk_rejected"}]

At(pc, i, g) == [pc |-> pc, i |-> i, gen |-> g, seen |-> 0, decision |-> "none"]
Idle == At("idle", 0, 0)
Decided(i, d) == [pc |-> "deciding", i |-> i, gen |-> 0, seen |-> 0, decision |-> d]
Filling(i, g, q) == [pc |-> "filling", i |-> i, gen |-> g, seen |-> q, decision |-> "none"]

Init ==
    /\ intent = [i \in Intents |-> "absent"]
    /\ job = [i \in Intents |-> "absent"]
    /\ born = [i \in Intents |-> 0]
    /\ owner = [i \in Intents |-> None]
    /\ gen = [i \in Intents |-> 0]
    /\ attempts = [i \in Intents |-> 0]
    /\ leaseDue = [i \in Intents |-> FALSE]
    /\ retryDue = [i \in Intents |-> FALSE]
    /\ deferrals = [i \in Intents |-> 0]
    /\ fills = [i \in Intents |-> {}]
    /\ position = [p \in Positions |-> 0]
    /\ switch = [s \in Scopes |-> "released"]
    /\ inserted = [s \in Scopes |-> None]
    /\ stage = [b \in Bots |-> ModeOf[b]]
    /\ jobLock = [i \in Intents |-> None]
    /\ posLock = [p \in Positions |-> None]
    /\ proc = [p \in Procs |-> Idle]
    /\ switches = 0 /\ stages = 0 /\ crashes = 0

\* A bot records its decision as an order intent; created_at orders them.
CreateIntent(i) ==
    /\ intent[i] = "absent"
    /\ \A k \in Intents : k < i => intent[k] # "absent"
    /\ intent' = [intent EXCEPT ![i] = "created"]
    /\ UNCHANGED <<born, lease, ledger, operators, locks, proc, crashes>>

-----------------------------------------------------------------------------
(* The kill switch table.                                                  *)

\* _active_kill_switch over the committed rows of _risk_scopes.
Armed(i) == \E s \in ScopesOf[i] : switch[s] = "armed"

\* A transaction past its LOCK TABLE ... IN SHARE MODE.
HoldsShare(p) == proc[p].pc \in {"claiming", "cleared", "filling", "deciding"}

\* Mutant: the kill switch table is read without a lock.
ShareLockNotTaken == TRUE

\* _lock_kill_switch_table waits while an operator's INSERT is uncommitted.
ShareLockFree == \A s \in Scopes : inserted[s] = None

\* An operator's INSERT INTO kill_switches waits for the SHARE lock holders.
InsertSwitch(s, state) ==
    /\ switches < MaxSwitches
    /\ inserted[s] = None
    /\ switch[s] # state
    /\ \A p \in Procs : ~HoldsShare(p)
    /\ inserted' = [inserted EXCEPT ![s] = state]
    /\ switches' = switches + 1
    /\ UNCHANGED <<intent, born, lease, ledger, switch, stage, stages, locks, proc, crashes>>

CommitSwitch(s) ==
    /\ inserted[s] # None
    /\ switch' = [switch EXCEPT ![s] = inserted[s]]
    /\ inserted' = [inserted EXCEPT ![s] = None]
    /\ UNCHANGED <<intent, born, lease, ledger, stage, switches, stages, locks, proc, crashes>>

\* The claim's FOR UPDATE has no OF list: it locks the bot's rows as well.
BotLocked(b) == \E w \in Workers : proc[w].pc = "claiming" /\ BotOf[proc[w].i] = b

\* An UPDATE of bot_instances.stage.
ChangeStage(b, s) ==
    /\ stages < MaxStages
    /\ stage[b] # s
    /\ ~BotLocked(b)
    /\ stage' = [stage EXCEPT ![b] = s]
    /\ stages' = stages + 1
    /\ UNCHANGED <<intent, born, lease, ledger, switch, inserted, switches, locks, proc, crashes>>

-----------------------------------------------------------------------------
(* Risk evaluation: evaluate_next_order_intent_risk.                       *)

\* Intents waiting for a decision whose row is not locked (SKIP LOCKED).
Undecided ==
    {i \in Intents :
        /\ intent[i] = "created"
        /\ stage[BotOf[i]] \in {"paper", "shadow"}
        /\ \A e \in Evaluators : proc[e].i # i}

\* _order_notional; 0 when it cannot be computed.
OrderNotional(o) ==
    LET computed == o.quantity * o.price IN
    IF computed = 0 THEN o.notional
    ELSE IF o.notional \in {0, computed} THEN computed ELSE 0

\* _active_risk_limits: the newest active version of each limit in scope.
ActiveLimits(i) ==
    LET active == {l \in Limits : l.active /\ i \in l.intents} IN
    {l \in active : \A k \in active : k.key = l.key => k.version <= l.version}

\* One turn of the loop over the limits in _risk_decision.
Passes(o, l) ==
    /\ l.type = "max_order_notional"
    /\ OrderNotional(o) > 0
    /\ OrderNotional(o) <= l.value

WithinLimits(i) == \A l \in ActiveLimits(i) : Passes(OrderOf[i], l)

\* _risk_decision: an armed switch first, then the limits.
RiskDecision(i) ==
    IF ~Armed(i) /\ WithinLimits(i) THEN "approved" ELSE "risk_rejected"

\* SELECT ... FOR UPDATE OF intent SKIP LOCKED; nothing to do without a row.
PickIntent(e) ==
    /\ proc[e].pc = "idle"
    /\ \E i \in Undecided :
        /\ \A k \in Undecided : i <= k
        /\ proc' = [proc EXCEPT ![e] = At("picked", i, 0)]
    /\ UNCHANGED <<intent, born, lease, ledger, operators, locks, crashes>>

\* The SHARE lock, then the advisory locks of the scopes: every intent has the
\* global scope, so one evaluation at a time.
Decide(e) ==
    /\ proc[e].pc = "picked"
    /\ ShareLockFree
    /\ \A f \in Evaluators : proc[f].pc # "deciding"
    /\ LET i == proc[e].i IN
       proc' = [proc EXCEPT ![e] = Decided(i, RiskDecision(i))]
    /\ UNCHANGED <<intent, born, lease, ledger, operators, locks, crashes>>

\* Approved for a paper bot: a job row is wanted (ON CONFLICT DO NOTHING).
WantsJob(e) ==
    LET i == proc[e].i IN
    proc[e].decision = "approved" /\ ModeOf[BotOf[i]] = "paper" /\ job[i] = "absent"

\* The decision, its risk event and the job commit together.
CommitEvaluate(e) ==
    /\ proc[e].pc = "deciding"
    /\ LET i == proc[e].i IN
       /\ intent' = [intent EXCEPT ![i] = proc[e].decision]
       /\ \/ /\ WantsJob(e)
             /\ job' = [job EXCEPT ![i] = "pending"]
             /\ born' = [born EXCEPT ![i] = 1 + Cardinality({k \in Intents : born[k] > 0})]
          \/ /\ ~WantsJob(e)
             /\ UNCHANGED <<job, born>>
    /\ proc' = [proc EXCEPT ![e] = Idle]
    /\ UNCHANGED <<owner, gen, attempts, leaseDue, retryDue, deferrals, ledger,
                   operators, locks, crashes>>

-----------------------------------------------------------------------------
(* claim_next_paper_execution_job.                                         *)

\* Work the claim's SELECT looks for.  It does not look at attempt_count.
Due(i) ==
    \/ job[i] = "pending"
    \/ job[i] = "retry_wait" /\ retryDue[i]
    \/ job[i] = "running" /\ leaseDue[i]

\* status='approved' and the bot's stage and mode, as in _paper_intent_row.
PaperReady(i) ==
    intent[i] = "approved" /\ stage[BotOf[i]] = "paper" /\ ModeOf[BotOf[i]] = "paper"

Candidates ==
    {i \in Intents : Due(i) /\ PaperReady(i) /\ ~Armed(i)
                     /\ jobLock[i] = None /\ ~BotLocked(BotOf[i])}

\* ORDER BY priority, created_at, id LIMIT 1; every job has the default priority.
First == {i \in Candidates : \A k \in Candidates : born[i] <= born[k]}

\* The SHARE lock and the SELECT ... FOR UPDATE SKIP LOCKED.
BeginClaim(w) ==
    /\ proc[w].pc = "idle"
    /\ ShareLockFree
    /\ \/ \E i \in First :
            /\ jobLock' = [jobLock EXCEPT ![i] = w]
            /\ proc' = [proc EXCEPT ![w] = At("claiming", i, 0)]
       \/ /\ First = {}
          /\ UNCHANGED <<jobLock, proc>>
    /\ UNCHANGED <<intent, born, lease, ledger, operators, posLock, crashes>>

\* attempt_count < max_attempts in the claim's UPDATE.
HasBudget(i) == attempts[i] < MaxAttempts

\* The UPDATE and the commit; without budget the UPDATE matches no row, and
\* the worker is told that there is no work.
CommitClaim(w) ==
    /\ proc[w].pc = "claiming"
    /\ LET i == proc[w].i IN
       /\ jobLock' = [jobLock EXCEPT ![i] = None]
       /\ \/ /\ HasBudget(i)
             /\ job' = [job EXCEPT ![i] = "running"]
             /\ owner' = [owner EXCEPT ![i] = w]
             /\ gen' = [gen EXCEPT ![i] = @ + 1]
             /\ attempts' = [attempts EXCEPT ![i] = @ + 1]
             /\ leaseDue' = [leaseDue EXCEPT ![i] = FALSE]
             /\ retryDue' = [retryDue EXCEPT ![i] = FALSE]
             /\ proc' = [proc EXCEPT ![w] = At("executing", i, gen[i] + 1)]
          \/ /\ ~HasBudget(i)
             /\ proc' = [proc EXCEPT ![w] = Idle]
             /\ UNCHANGED <<job, owner, gen, attempts, leaseDue, retryDue>>
    /\ UNCHANGED <<intent, born, deferrals, ledger, operators, posLock, crashes>>

-----------------------------------------------------------------------------
(* complete_claimed_paper_execution_job.                                   *)

\* Mutant: any live lease of the job will do.
HoldsAnyLease(w, i) == job[i] = "running" /\ ~leaseDue[i]

\* _locked_claimed_paper_job.
HoldsLease(w, i) ==
    job[i] = "running" /\ owner[i] = w /\ gen[i] = proc[w].gen /\ ~leaseDue[i]

\* The executor, or a check of its answer, raises: run_once's last except.
ExecutorRaises(w) ==
    /\ proc[w].pc = "executing"
    /\ proc' = [proc EXCEPT ![w] = At("failing", proc[w].i, proc[w].gen)]
    /\ UNCHANGED <<intent, born, lease, ledger, operators, locks, crashes>>

\* The job row and the intent row are locked.  A lost lease, a bot that left
\* the paper stage or an intent that is not approved raise
\* PaperExecutionLeaseLostError, which run_once swallows.
BeginComplete(w) ==
    /\ proc[w].pc = "executing"
    /\ LET i == proc[w].i IN
       /\ jobLock[i] = None
       /\ \/ /\ HoldsLease(w, i) /\ PaperReady(i)
             /\ jobLock' = [jobLock EXCEPT ![i] = w]
             /\ proc' = [proc EXCEPT ![w] = At("locked", i, proc[w].gen)]
          \/ /\ ~(HoldsLease(w, i) /\ PaperReady(i))
             /\ jobLock' = jobLock
             /\ proc' = [proc EXCEPT ![w] = Idle]
    /\ UNCHANGED <<intent, born, lease, ledger, operators, posLock, crashes>>

\* Mutant: a deferral does not give the attempt back.
NoRefund(n) == n

\* GREATEST(attempt_count - 1, 0) of _defer_paper_job_for_kill_switch.
Refund(n) == IF n > 0 THEN n - 1 ELSE 0

\* The SHARE lock, then an armed switch: the job is deferred.
Defer(w) ==
    /\ proc[w].pc = "locked"
    /\ ShareLockFree
    /\ LET i == proc[w].i IN
       /\ Armed(i)
       /\ job' = [job EXCEPT ![i] = "retry_wait"]
       /\ owner' = [owner EXCEPT ![i] = None]
       /\ leaseDue' = [leaseDue EXCEPT ![i] = FALSE]
       /\ retryDue' = [retryDue EXCEPT ![i] = FALSE]
       /\ attempts' = [attempts EXCEPT ![i] = Refund(@)]
       /\ deferrals' = [deferrals EXCEPT ![i] = @ + 1]
       /\ jobLock' = [jobLock EXCEPT ![i] = None]
    /\ proc' = [proc EXCEPT ![w] = Idle]
    /\ UNCHANGED <<intent, born, gen, ledger, operators, posLock, crashes>>

\* The SHARE lock, and no armed switch: the fill goes on.
ClearSwitch(w) ==
    /\ proc[w].pc = "locked"
    /\ ShareLockFree
    /\ ~Armed(proc[w].i)
    /\ proc' = [proc EXCEPT ![w] = At("cleared", proc[w].i, proc[w].gen)]
    /\ UNCHANGED <<intent, born, lease, ledger, operators, locks, crashes>>

\* Mutant: the projection is read without its advisory lock.
PositionUnlocked(p) == TRUE

\* _lock_position_projection_scope waits for the advisory lock.
PositionFree(p) == posLock[p] = None

\* The first half of _upsert_position_projection: lock and read.
LockPosition(w) ==
    /\ proc[w].pc = "cleared"
    /\ LET i == proc[w].i
           p == OrderOf[i].position IN
       /\ PositionFree(p)
       /\ posLock' = [posLock EXCEPT ![p] = w]
       /\ proc' = [proc EXCEPT ![w] = Filling(i, proc[w].gen, position[p])]
    /\ UNCHANGED <<intent, born, lease, ledger, operators, jobLock, crashes>>

\* A sale of more than the position raises ValueError.
Covered(i, q, seen) == OrderOf[i].side = "sell" => q <= seen

Signed(i, q) == IF OrderOf[i].side = "buy" THEN q ELSE -q

\* Order, fill, projection, intent and job commit together.  The lease is not
\* compared again: the job row has been locked since BeginComplete.
CommitFill(w, q) ==
    /\ proc[w].pc = "filling"
    /\ LET i == proc[w].i
           p == OrderOf[i].position IN
       /\ Covered(i, q, proc[w].seen)
       /\ fills' = [fills EXCEPT ![i] = @ \cup {[gen |-> proc[w].gen, quantity |-> q]}]
       /\ position' = [position EXCEPT ![p] = proc[w].seen + Signed(i, q)]
       /\ intent' = [intent EXCEPT ![i] = "paper_filled"]
       /\ job' = [job EXCEPT ![i] = "succeeded"]
       /\ owner' = [owner EXCEPT ![i] = None]
       /\ leaseDue' = [leaseDue EXCEPT ![i] = FALSE]
       /\ jobLock' = [jobLock EXCEPT ![i] = None]
       /\ posLock' = [posLock EXCEPT ![p] = None]
    /\ proc' = [proc EXCEPT ![w] = Idle]
    /\ UNCHANGED <<born, gen, attempts, retryDue, deferrals, operators, crashes>>

\* A quantity that is not positive, an uncovered sale or a database error:
\* the transaction rolls back and run_once reports the failure.
CompleteRaises(w) ==
    /\ proc[w].pc \in {"locked", "cleared", "filling"}
    /\ jobLock' = [jobLock EXCEPT ![proc[w].i] = None]
    /\ posLock' = [p \in Positions |-> IF posLock[p] = w THEN None ELSE posLock[p]]
    /\ proc' = [proc EXCEPT ![w] = At("failing", proc[w].i, proc[w].gen)]
    /\ UNCHANGED <<intent, born, lease, ledger, operators, crashes>>

\* Mutant: the comparison is off by one.
BudgetSpentLate(i) == attempts[i] > MaxAttempts

\* attempt_count >= max_attempts in the CASE expressions of
\* fail_claimed_paper_execution_job.
BudgetSpent(i) == attempts[i] >= MaxAttempts

\* fail_claimed_paper_execution_job; a lost lease is suppressed.
Fail(w) ==
    /\ proc[w].pc = "failing"
    /\ LET i == proc[w].i IN
       /\ jobLock[i] = None
       /\ \/ /\ HoldsLease(w, i)
             /\ job' = [job EXCEPT ![i] = IF BudgetSpent(i)
                                          THEN "dead_letter" ELSE "retry_wait"]
             /\ owner' = [owner EXCEPT ![i] = None]
             /\ retryDue' = [retryDue EXCEPT ![i] = FALSE]
             /\ UNCHANGED <<gen, attempts, leaseDue, deferrals>>
          \/ /\ ~HoldsLease(w, i)
             /\ UNCHANGED lease
    /\ proc' = [proc EXCEPT ![w] = Idle]
    /\ UNCHANGED <<intent, born, ledger, operators, locks, crashes>>

-----------------------------------------------------------------------------
(* The environment.                                                        *)

LeaseExpires(i) ==
    /\ job[i] = "running"
    /\ ~leaseDue[i]
    /\ leaseDue' = [leaseDue EXCEPT ![i] = TRUE]
    /\ UNCHANGED <<intent, born, job, owner, gen, attempts, retryDue, deferrals,
                   ledger, operators, locks, proc, crashes>>

RetryComesDue(i) ==
    /\ job[i] = "retry_wait"
    /\ ~retryDue[i]
    /\ retryDue' = [retryDue EXCEPT ![i] = TRUE]
    /\ UNCHANGED <<intent, born, job, owner, gen, attempts, leaseDue, deferrals,
                   ledger, operators, locks, proc, crashes>>

\* A process dies; its transaction rolls back and its locks are released.
Crash(p) ==
    /\ crashes < MaxCrashes
    /\ proc[p].pc # "idle"
    /\ crashes' = crashes + 1
    /\ proc' = [proc EXCEPT ![p] = Idle]
    /\ jobLock' = [i \in Intents |-> IF jobLock[i] = p THEN None ELSE jobLock[i]]
    /\ posLock' = [x \in Positions |-> IF posLock[x] = p THEN None ELSE posLock[x]]
    /\ UNCHANGED <<intent, born, lease, ledger, operators>>

Evaluate(e) == PickIntent(e) \/ Decide(e) \/ CommitEvaluate(e)

RunOnce(w) ==
    \/ BeginClaim(w)
    \/ CommitClaim(w)
    \/ ExecutorRaises(w)
    \/ BeginComplete(w)
    \/ Defer(w)
    \/ ClearSwitch(w)
    \/ LockPosition(w)
    \/ \E q \in FillQuantities : CommitFill(w, q)
    \/ CompleteRaises(w)
    \/ Fail(w)

Next ==
    \/ \E i \in Intents : CreateIntent(i) \/ LeaseExpires(i) \/ RetryComesDue(i)
    \/ \E s \in Scopes : \/ \E state \in {"armed", "released"} : InsertSwitch(s, state)
                         \/ CommitSwitch(s)
    \/ \E b \in Bots : \E s \in Stage : ChangeStage(b, s)
    \/ \E e \in Evaluators : Evaluate(e)
    \/ \E w \in Workers : RunOnce(w)
    \/ \E p \in Procs : Crash(p)

Spec == Init /\ [][Next]_vars

-----------------------------------------------------------------------------
(* Properties                                                              *)

\* The tables, the locks and the memory of every process have their types, and
\* attempt_count stays within max_attempts.
TypeOK ==
    /\ intent \in [Intents -> IntentStatus]
    /\ job \in [Intents -> JobStatus]
    /\ born \in [Intents -> Nat]
    /\ owner \in [Intents -> Workers \cup {None}]
    /\ gen \in [Intents -> Nat]
    /\ attempts \in [Intents -> 0..MaxAttempts]
    /\ leaseDue \in [Intents -> BOOLEAN] /\ retryDue \in [Intents -> BOOLEAN]
    /\ deferrals \in [Intents -> Nat]
    /\ fills \in [Intents -> SUBSET [gen : Nat, quantity : FillQuantities]]
    /\ position \in [Positions -> Int]
    /\ switch \in [Scopes -> {"armed", "released"}]
    /\ inserted \in [Scopes -> {"armed", "released", None}]
    /\ stage \in [Bots -> Stage]
    /\ jobLock \in [Intents -> Workers \cup {None}]
    /\ posLock \in [Positions -> Workers \cup {None}]
    /\ proc \in [Procs -> Memory]
    /\ switches \in 0..MaxSwitches /\ stages \in 0..MaxStages /\ crashes \in 0..MaxCrashes

\* An intent is filled at most once, by the last lease of its job, however
\* many workers held one; the fill, the intent's paper_filled and the job's
\* succeeded are committed together or not at all.
OneFillPerIntent ==
    \A i \in Intents :
        IF job[i] = "succeeded"
        THEN /\ intent[i] = "paper_filled"
             /\ \E q \in FillQuantities : fills[i] = {[gen |-> gen[i], quantity |-> q]}
        ELSE intent[i] # "paper_filled" /\ fills[i] = {}

\* While a kill switch of its global, portfolio or bot scope is armed, no
\* intent is approved, no job is leased and no fill is committed: once the
\* operator's INSERT has returned, nothing that began before it gets past.
KillSwitchBarrier ==
    [][\A i \in Intents : Armed(i) =>
         /\ intent'[i] = "approved" => intent[i] = "approved"
         /\ gen'[i] = gen[i]
         /\ fills'[i] = fills[i]]_vars

\* What the fills of an intent add up to, and the intents of a position.
Filled(i) == SumFunctionOnSet([f \in fills[i] |-> Signed(i, f.quantity)], fills[i])
On(p) == {i \in Intents : OrderOf[i].position = p}

\* position_projections is the signed sum of the committed fills, whatever
\* workers fill the same position at the same time.
PositionMatchesFills ==
    \A p \in Positions :
        position[p] = SumFunctionOnSet([i \in Intents |-> Filled(i)], On(p))

\* No sale is filled beyond the position, not even by concurrent workers.
NoShortPosition == \A p \in Positions : position[p] >= 0

\* Every lease is charged to the budget except the ones a kill switch
\* deferred, and a job is dead-lettered only when the budget is spent.
BudgetAccounting ==
    \A i \in Intents :
        /\ gen[i] = attempts[i] + deferrals[i]
        /\ attempts[i] <= MaxAttempts
        /\ job[i] = "dead_letter" => attempts[i] = MaxAttempts

\* A lock is held by a transaction that is open on that row or position.
LocksAreOpen ==
    /\ \A i \in Intents : jobLock[i] # None =>
         /\ proc[jobLock[i]].pc \in {"claiming", "locked", "cleared", "filling"}
         /\ proc[jobLock[i]].i = i
    /\ \A p \in Positions : posLock[p] # None =>
         /\ proc[posLock[p]].pc = "filling"
         /\ OrderOf[proc[posLock[p]].i].position = p

\* No step takes a job away from a worker whose lease has not expired.
LiveLeaseKept ==
    [][\A i \in Intents : job[i] = "running" /\ ~leaseDue[i] => gen'[i] = gen[i]]_vars

\* Every change of a position is one new fill, and by that fill's quantity.
PositionMovesWithFills ==
    [][\/ UNCHANGED <<fills, position>>
       \/ \E i \in Intents : \E q \in FillQuantities :
            LET p == OrderOf[i].position IN
            /\ fills' = [fills EXCEPT ![i] = @ \cup {[gen |-> gen[i], quantity |-> q]}]
            /\ position' = [position EXCEPT ![p] = @ + Signed(i, q)]]_vars

\* The inductive strengthening behind the safety properties.  The kill
\* switch: a holder of the SHARE lock excludes uncommitted switch rows, and
\* what it decided to let through is still not under an armed switch.
Barrier ==
    \A p \in Procs : HoldsShare(p) =>
        /\ ShareLockFree
        /\ proc[p].decision # "risk_rejected" => ~Armed(proc[p].i)

\* An intent with a job was approved, and a leased job has been charged.
IntentStages ==
    \A i \in Intents :
        /\ job[i] # "absent" => intent[i] \in {"approved", "paper_filled"}
        /\ job[i] = "running" => attempts[i] > 0

\* An open evaluation locks an undecided intent of its own.
EvaluatorMemory ==
    \A e \in Evaluators :
        /\ proc[e].pc \in {"idle", "picked", "deciding"}
        /\ proc[e].pc = "idle" <=> proc[e].i = 0
        /\ proc[e].pc # "idle" => intent[proc[e].i] = "created"
        /\ proc[e].pc = "deciding" => proc[e].decision # "none"
        /\ \A f \in Evaluators \ {e} : proc[e].i # 0 => proc[f].i # proc[e].i

\* Places of run_once where a worker's transaction locks its job row.
Locking == {"claiming", "locked", "cleared", "filling"}

\* An open claim locks a job that is still due; an open completion locks a
\* job that is still leased to it, and a filling one the position it read.
Remembers(w) ==
    /\ proc[w].pc \notin {"picked", "deciding"} /\ proc[w].decision = "none"
    /\ proc[w].pc = "idle" <=> proc[w].i = 0
    /\ proc[w].pc \in Locking => jobLock[proc[w].i] = w
    /\ proc[w].pc = "claiming" => Due(proc[w].i)
    /\ proc[w].pc \in Locking \ {"claiming"} =>
         job[proc[w].i] = "running" /\ gen[proc[w].i] = proc[w].gen
    /\ proc[w].pc = "filling" =>
         LET p == OrderOf[proc[w].i].position IN
         posLock[p] = w /\ proc[w].seen = position[p]

WorkerMemory == \A w \in Workers : Remembers(w)

IInv == /\ TypeOK
        /\ Barrier
        /\ IntentStages
        /\ EvaluatorMemory
        /\ WorkerMemory
        /\ OneFillPerIntent
        /\ BudgetAccounting
        /\ LocksAreOpen
        /\ NoShortPosition

\* The queue of paper_execution_jobs implements the abstract leased queue.
PhaseOf(st) ==
    CASE st = "absent" -> "none"
      [] st \in {"pending", "retry_wait"} -> "waiting"
      [] st = "running" -> "leased"
      [] st = "succeeded" -> "done"
      [] st = "dead_letter" -> "buried"

Abstract == INSTANCE LeaseQueue WITH
    Jobs <- Intents,
    Budget <- MaxAttempts,
    phase <- [i \in Intents |-> PhaseOf(job[i])],
    token <- gen,
    tries <- attempts,
    doneBy <- [i \in Intents |-> IF job[i] = "succeeded" THEN gen[i] ELSE 0]

\* Every step is a step of LeaseQueue, with a deferral as a refunded
\* GiveBack, or changes none of its state.
RefinesLeaseQueue == Abstract!QSpec

\* A job whose worker lost its last lease: claims find it and cannot take it.
Stranded(i) == job[i] = "running" /\ leaseDue[i] /\ ~HasBudget(i)

\* A job that has not ended can be finished: its intent is still an approved
\* intent of a paper bot, and while it waits there is an attempt left for the
\* claim that selects it, over any number of failures, deferrals and crashes.
\* So the claim, whose SELECT does not look at attempt_count, can be refused
\* by its own UPDATE only for a stranded job; the code does strand those, and
\* with LIMIT 1 each of them stays ahead of every later job.
OnlyLostLeasesStrand ==
    \A i \in Intents : job[i] \in {"pending", "retry_wait", "running"} =>
        /\ intent[i] = "approved" /\ ModeOf[BotOf[i]] = "paper"
        /\ HasBudget(i) \/ (job[i] = "running" /\ ~leaseDue[i]) \/ Stranded(i)
=============================================================================
