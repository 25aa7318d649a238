--------------------------- MODULE BacktestQueue ---------------------------
(***************************************************************************)
(* The durable queue of backtest runs and the workers that drain it:       *)
(* backtest_store.py (claim_next_run, complete_claimed_run,                *)
(* fail_claimed_run) and backtest_worker.py (run_once), over the table     *)
(* backtest_runs of the migrations 20260718000200 and 20260718000300.      *)
(*                                                                         *)
(* A run is a natural number; the numbers are in the order of the claim's  *)
(* ORDER BY requested_at, id.  requested_at comes from the caller, so runs *)
(* may be submitted in any order.                                          *)
(*                                                                         *)
(* Transactions are READ COMMITTED.  A transaction that holds a row lock   *)
(* over several statements takes several actions; its writes become        *)
(* visible with the action that commits it.  The database clock is         *)
(* abstracted to two facts per run: leaseDue (lease_expires_at has passed) *)
(* and retryDue (next_retry_at has passed).                                *)
(***************************************************************************)
EXTENDS Naturals, FiniteSets

CONSTANTS
    NumRuns,      \* bound: runs that may ever be submitted
    Workers,      \* backtest worker processes
    MaxAttempts,  \* backtest_runs.max_attempts
    MaxCrashes,   \* bound: worker crashes in a behaviour
    None          \* SQL NULL: no lease owner, no row lock

ASSUME NumRunsAssumption == NumRuns \in Nat \ {0}
ASSUME MaxAttemptsAssumption == MaxAttempts \in Nat \ {0}
ASSUME MaxCrashesAssumption == MaxCrashes \in Nat
ASSUME NoneAssumption == None \notin Workers

Runs == 1..NumRuns

Status == {"absent", "queued", "running", "retry_wait",
           "succeeded", "failed", "dead_letter"}

\* What a finished engine execution reports (BacktestResult.status).
Outcome == {"succeeded", "failed"}

Terminal == Outcome \cup {"dead_letter"}

VARIABLES
    status,    \* backtest_runs.status; "absent": no row yet
    owner,     \* lease_owner
    gen,       \* lease_generation
    attempts,  \* attempt_count
    leaseDue,  \* lease_expires_at <= clock_timestamp()
    retryDue,  \* next_retry_at <= clock_timestamp()
    results,   \* generations that committed trades, equity points and metrics
    rowLock,   \* the worker whose open transaction locks the row
    worker,    \* what each worker process remembers
    crashes    \* crashes so far

row == <<status, owner, gen, attempts, leaseDue, retryDue, results>>
vars == <<row, rowLock, worker, crashes>>

-----------------------------------------------------------------------------
(* Worker memory: the position in run_once, the claimed run and lease      *)
(* generation, and the rows the open claim transaction has dead-lettered.  *)

WorkerState == [pc : {"idle", "claiming", "executing", "completing", "failing"},
                run : Runs \cup {0},
                gen : Nat,
                swept : SUBSET Runs]

Idle == [pc |-> "idle", run |-> 0, gen |-> 0, swept |-> {}]
Claiming(swept) == [pc |-> "claiming", run |-> 0, gen |-> 0, swept |-> swept]
Executing(r, g) == [pc |-> "executing", run |-> r, gen |-> g, swept |-> {}]

Init ==
    /\ status = [r \in Runs |-> "absent"]
    /\ owner = [r \in Runs |-> None]
    /\ gen = [r \in Runs |-> 0]
    /\ attempts = [r \in Runs |-> 0]
    /\ leaseDue = [r \in Runs |-> FALSE]
    /\ retryDue = [r \in Runs |-> FALSE]
    /\ results = [r \in Runs |-> {}]
    /\ rowLock = [r \in Runs |-> None]
    /\ worker = [w \in Workers |-> Idle]
    /\ crashes = 0

\* The INSERT ... 'queued' that ends create_run.
Submit(r) ==
    /\ status[r] = "absent"
    /\ status' = [status EXCEPT ![r] = "queued"]
    /\ UNCHANGED <<owner, gen, attempts, leaseDue, retryDue, results,
                   rowLock, worker, crashes>>

-----------------------------------------------------------------------------
(* claim_next_run: one transaction, two statements.                        *)

\* Mutant: no dead-letter sweep.
NothingExhausted == {}

\* The rows the sweep matches: an expired lease with no attempt left.
Exhausted ==
    {r \in Runs : status[r] = "running" /\ leaseDue[r] /\ attempts[r] >= MaxAttempts}

\* The first UPDATE of claim_next_run.  It waits for matching rows that
\* another transaction has locked, and locks what it updates until commit.
Sweep(w) ==
    /\ worker[w].pc = "idle"
    /\ \A r \in Exhausted : rowLock[r] = None
    /\ rowLock' = [r \in Runs |-> IF r \in Exhausted THEN w ELSE rowLock[r]]
    /\ worker' = [worker EXCEPT ![w] = Claiming(Exhausted)]
    /\ UNCHANGED <<row, crashes>>

\* The WHERE clause of the claim's SELECT.
Claimable(r) ==
    /\ attempts[r] < MaxAttempts
    /\ \/ status[r] = "queued"
       \/ status[r] = "retry_wait" /\ retryDue[r]
       \/ status[r] = "running" /\ leaseDue[r]

\* FOR UPDATE SKIP LOCKED: rows locked by any open transaction are passed over.
Candidates == {r \in Runs : Claimable(r) /\ rowLock[r] = None}

\* ORDER BY requested_at, id ... LIMIT 1: at most one row.
First == {r \in Candidates : \A c \in Candidates : r <= c}

\* The generation of the new lease.
NextGeneration(r) == gen[r] + 1

\* Commit of the swept rows, together with the claim of the first candidate
\* when there is one.
Claim(w) ==
    /\ worker[w].pc = "claiming"
    /\ LET swept == worker[w].swept IN
       /\ status' = [r \in Runs |-> IF r \in swept THEN "dead_letter"
                                    ELSE IF r \in First THEN "running"
                                    ELSE status[r]]
       /\ owner' = [r \in Runs |-> IF r \in swept THEN None
                                   ELSE IF r \in First THEN w ELSE owner[r]]
       /\ gen' = [r \in Runs |-> IF r \in First THEN NextGeneration(r) ELSE gen[r]]
       /\ attempts' = [r \in Runs |-> IF r \in First THEN attempts[r] + 1
                                      ELSE attempts[r]]
       /\ leaseDue' = [r \in Runs |-> IF r \in swept \cup First THEN FALSE
                                      ELSE leaseDue[r]]
       /\ retryDue' = [r \in Runs |-> IF r \in First THEN FALSE ELSE retryDue[r]]
       /\ rowLock' = [r \in Runs |-> IF r \in swept THEN None ELSE rowLock[r]]
       /\ \/ /\ First = {}
             /\ worker' = [worker EXCEPT ![w] = Idle]
          \/ \E r \in First : worker' = [worker EXCEPT ![w] = Executing(r, NextGeneration(r))]
    /\ UNCHANGED <<results, crashes>>

-----------------------------------------------------------------------------
(* The rest of run_once: executor, completion, failure.                    *)

\* Mutant: only the status and the expiry of the lease are checked.
HoldsAnyLease(w, r) == status[r] = "running" /\ ~leaseDue[r]

\* The WHERE clause of complete_claimed_run and fail_claimed_run.
HoldsLease(w, r) ==
    status[r] = "running" /\ owner[r] = w /\ gen[r] = worker[w].gen /\ ~leaseDue[r]

\* The executor raises; run_once goes to its except branch.
ExecutorRaises(w) ==
    /\ worker[w].pc = "executing"
    /\ worker' = [worker EXCEPT ![w].pc = "failing"]
    /\ UNCHANGED <<row, rowLock, crashes>>

\* The executor returned: SELECT ... FOR UPDATE of complete_claimed_run, which
\* waits for the row.  Without the lease it raises BacktestLeaseLostError and
\* run_once returns 0.
BeginComplete(w) ==
    /\ worker[w].pc = "executing"
    /\ LET r == worker[w].run IN
       /\ rowLock[r] = None
       /\ \/ /\ HoldsLease(w, r)
             /\ rowLock' = [rowLock EXCEPT ![r] = w]
             /\ worker' = [worker EXCEPT ![w].pc = "completing"]
          \/ /\ ~HoldsLease(w, r)
             /\ rowLock' = rowLock
             /\ worker' = [worker EXCEPT ![w] = Idle]
    /\ UNCHANGED <<row, crashes>>

\* A result with another input hash, or a child row a constraint refuses: the
\* transaction rolls back and run_once goes to its except branch.
CompleteRaises(w) ==
    /\ worker[w].pc = "completing"
    /\ rowLock' = [rowLock EXCEPT ![worker[w].run] = None]
    /\ worker' = [worker EXCEPT ![w].pc = "failing"]
    /\ UNCHANGED <<row, crashes>>

\* The children are inserted and the final UPDATE, which checks the lease
\* again, commits with the result's status; a lease that expired meanwhile
\* rolls everything back.
Complete(w, outcome) ==
    /\ worker[w].pc = "completing"
    /\ LET r == worker[w].run IN
       /\ \/ /\ HoldsLease(w, r)
             /\ status' = [status EXCEPT ![r] = outcome]
             /\ owner' = [owner EXCEPT ![r] = None]
             /\ results' = [results EXCEPT ![r] = @ \cup {worker[w].gen}]
             /\ UNCHANGED <<gen, attempts, leaseDue, retryDue>>
          \/ /\ ~HoldsLease(w, r)
             /\ UNCHANGED row
       /\ rowLock' = [rowLock EXCEPT ![r] = None]
    /\ worker' = [worker EXCEPT ![w] = Idle]
    /\ UNCHANGED crashes

\* Mutant: the budget comparison is off by one.
BudgetSpentEarly(r) == attempts[r] + 1 >= MaxAttempts

\* attempt_count >= max_attempts in the CASE expressions of fail_claimed_run.
BudgetSpent(r) == attempts[r] >= MaxAttempts

\* fail_claimed_run, one UPDATE; BacktestLeaseLostError is suppressed.
Fail(w) ==
    /\ worker[w].pc = "failing"
    /\ LET r == worker[w].run IN
       /\ rowLock[r] = None
       /\ \/ /\ HoldsLease(w, r)
             /\ status' = [status EXCEPT ![r] = IF BudgetSpent(r) THEN "dead_letter"
                                                ELSE "retry_wait"]
             /\ owner' = [owner EXCEPT ![r] = None]
             /\ retryDue' = [retryDue EXCEPT ![r] = FALSE]
             /\ UNCHANGED <<gen, attempts, leaseDue, results>>
          \/ /\ ~HoldsLease(w, r)
             /\ UNCHANGED row
    /\ worker' = [worker EXCEPT ![w] = Idle]
    /\ UNCHANGED <<rowLock, crashes>>

-----------------------------------------------------------------------------
(* The environment.                                                        *)

LeaseExpires(r) ==
    /\ status[r] = "running"
    /\ ~leaseDue[r]
    /\ leaseDue' = [leaseDue EXCEPT ![r] = TRUE]
    /\ UNCHANGED <<status, owner, gen, attempts, retryDue, results,
                   rowLock, worker, crashes>>

RetryComesDue(r) ==
    /\ status[r] = "retry_wait"
    /\ ~retryDue[r]
    /\ retryDue' = [retryDue EXCEPT ![r] = TRUE]
    /\ UNCHANGED <<status, owner, gen, attempts, leaseDue, results,
                   rowLock, worker, crashes>>

\* The process dies: its transaction rolls back, its locks are released and
\* the process that replaces it remembers nothing.
Crash(w) ==
    /\ crashes < MaxCrashes
    /\ worker[w].pc # "idle"
    /\ crashes' = crashes + 1
    /\ worker' = [worker EXCEPT ![w] = Idle]
    /\ rowLock' = [r \in Runs |-> IF rowLock[r] = w THEN None ELSE rowLock[r]]
    /\ UNCHANGED row

RunOnce(w) ==
    \/ Sweep(w)
    \/ Claim(w)
    \/ ExecutorRaises(w)
    \/ BeginComplete(w)
    \/ CompleteRaises(w)
    \/ \E outcome \in Outcome : Complete(w, outcome)
    \/ Fail(w)

Next ==
    \/ \E r \in Runs : Submit(r) \/ LeaseExpires(r) \/ RetryComesDue(r)
    \/ \E w \in Workers : RunOnce(w) \/ Crash(w)

Spec == Init /\ [][Next]_vars

-----------------------------------------------------------------------------
(* Properties                                                              *)

\* The rows, the locks and the workers' memory have their types, and
\* attempt_count stays within max_attempts.
TypeOK ==
    /\ status \in [Runs -> Status]
    /\ owner \in [Runs -> Workers \cup {None}]
    /\ gen \in [Runs -> Nat]
    /\ attempts \in [Runs -> 0..MaxAttempts]
    /\ leaseDue \in [Runs -> BOOLEAN]
    /\ retryDue \in [Runs -> BOOLEAN]
    /\ results \in [Runs -> SUBSET Nat]
    /\ rowLock \in [Runs -> Workers \cup {None}]
    /\ worker \in [Workers -> WorkerState]
    /\ crashes \in 0..MaxCrashes

\* Fencing: the trades, equity points and metrics of a run are written by one
\* lease only, the last one granted, and exactly when the run is sealed with
\* the result's status; a worker whose lease was taken over leaves nothing.
ResultOfLastLease ==
    \A r \in Runs : results[r] = IF status[r] \in Outcome THEN {gen[r]} ELSE {}

\* The attempt budget: no run is executed more than max_attempts times, each
\* execution has its own generation, and a run is dead-lettered only when the
\* whole budget is spent.
AttemptBudget ==
    \A r \in Runs :
        /\ gen[r] = attempts[r] /\ attempts[r] <= MaxAttempts
        /\ status[r] = "dead_letter" => attempts[r] = MaxAttempts

\* Two workers that still hold a claim of the same run hold different
\* generations, so at most one of them can pass the lease check.
ClaimsAreDistinct ==
    \A v, w \in Workers :
        /\ v # w
        /\ worker[v].run # 0
        /\ worker[v].run = worker[w].run
        => worker[v].gen # worker[w].gen

\* No step takes a run away from a worker whose lease has not expired.
LiveLeaseKept ==
    [][\A r \in Runs :
         status[r] = "running" /\ ~leaseDue[r] => gen'[r] = gen[r]]_vars

\* The trigger enforce_backtest_run_terminal_seal is never hit: a run that is
\* succeeded, failed or dead-lettered keeps its status, generation, attempts
\* and results for ever.
TerminalSealed ==
    [][\A r \in Runs :
         status[r] \in Terminal =>
             /\ status'[r] = status[r] /\ gen'[r] = gen[r]
             /\ attempts'[r] = attempts[r] /\ results'[r] = results[r]]_vars

\* No run is lost between the three statements that look at the budget, the
\* claim's sweep, the claim's SELECT and fail_claimed_run: whatever workers
\* crashed or failed, a run that has not ended is leased to a worker whose
\* lease still lives, waits for a retry it has an attempt for, or is one that
\* the next poll takes up or dead-letters.  (Nothing in the repository starts
\* a loop of polls, so that a run ends is not claimed.)
NoRunStranded ==
    \A r \in Runs : status[r] \notin Terminal \cup {"absent"} =>
        \/ status[r] = "running" /\ ~leaseDue[r]
        \/ status[r] = "retry_wait" /\ ~retryDue[r] /\ attempts[r] < MaxAttempts
        \/ Claimable(r)
        \/ r \in Exhausted

\* The inductive strengthening behind the safety properties.  Rows: the lease
\* columns agree with the status (the CHECK of migration 20260718000300).
LeaseColumns ==
    \A r \in Runs : /\ status[r] = "running" <=> owner[r] # None
                    /\ leaseDue[r] => status[r] = "running"
                    /\ status[r] = "running" => gen[r] > 0

\* A worker in the middle of run_once knows a generation that was granted, and
\* an open claim transaction holds exactly the exhausted rows it swept.
WorkerMemory ==
    \A w \in Workers :
        /\ worker[w].pc \in {"idle", "claiming"} <=> worker[w].run = 0
        /\ worker[w].run # 0 => worker[w].gen <= gen[worker[w].run]
        /\ worker[w].pc # "claiming" => worker[w].swept = {}
        /\ \A r \in worker[w].swept : r \in Exhausted /\ rowLock[r] = w
        /\ worker[w].pc = "completing" =>
               /\ rowLock[worker[w].run] = w
               /\ status[worker[w].run] = "running"
               /\ owner[worker[w].run] = w
               /\ gen[worker[w].run] = worker[w].gen

\* A locked row is locked by a transaction that really is open on it, so no
\* row stays locked after its worker is gone.
LocksAreOpen ==
    \A r \in Runs : rowLock[r] # None =>
        LET w == worker[rowLock[r]] IN
        r \in w.swept \/ (w.pc = "completing" /\ w.run = r)

IInv == /\ TypeOK
        /\ ResultOfLastLease
        /\ AttemptBudget
        /\ ClaimsAreDistinct
        /\ LeaseColumns
        /\ WorkerMemory
        /\ LocksAreOpen

\* The queue implements the abstract leased queue.
PhaseOf(st) ==
    CASE st = "absent" -> "none"
      [] st \in {"queued", "retry_wait"} -> "waiting"
      [] st = "running" -> "leased"
      [] st \in Outcome -> "done"
      [] st = "dead_letter" -> "buried"

Abstract == INSTANCE LeaseQueue WITH
    Jobs <- Runs,
    Budget <- MaxAttempts,
    phase <- [r \in Runs |-> PhaseOf(status[r])],
    token <- gen,
    tries <- attempts,
    doneBy <- [r \in Runs |-> IF status[r] \in Outcome THEN gen[r] ELSE 0]

\* Every step of the queue is a step of LeaseQueue or changes none of its state.
RefinesLeaseQueue == Abstract!QSpec
=============================================================================
