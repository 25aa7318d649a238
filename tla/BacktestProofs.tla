--------------------------- MODULE BacktestProofs ---------------------------
(***************************************************************************)
(* Proofs about the backtests, in two parts that share no state.  First    *)
(* BacktestQueue, for every number of runs and of workers and every        *)
(* attempt budget; then BacktestSubmission, for every number of threads,   *)
(* every list of requests, every page size, every tape and every cost.     *)
(***************************************************************************)
EXTENDS BacktestQueue, BacktestSubmission, FiniteSums

(***************************************************************************)
(* The queue (BacktestQueue)                                               *)
(***************************************************************************)

\* The claim's LIMIT 1: the first candidate is unique.
LEMMA FirstIsUnique ==
    ASSUME NEW S \in SUBSET Runs,
           NEW a \in S, NEW b \in S,
           \A c \in S : a <= c, \A c \in S : b <= c
    PROVE  a = b
  BY DEF Runs

\* The empty table and idle workers satisfy the inductive invariant.
LEMMA InitIInv == Init => IInv
  <1> SUFFICES ASSUME Init PROVE IInv
    OBVIOUS
  <1> USE NumRunsAssumption, MaxAttemptsAssumption, MaxCrashesAssumption, NoneAssumption
  <1>1. TypeOK
    BY DEF Init, TypeOK, Idle, WorkerState, Status, Runs
  <1>2. ResultOfLastLease /\ AttemptBudget /\ ClaimsAreDistinct /\ LeaseColumns
    BY DEF Init, ResultOfLastLease, AttemptBudget, ClaimsAreDistinct, LeaseColumns,
           Idle, Outcome, Runs
  <1>3. WorkerMemory /\ LocksAreOpen
    BY DEF Init, WorkerMemory, LocksAreOpen, Idle
  <1> QED
    BY <1>1, <1>2, <1>3 DEF IInv

\* Moving the program counter keeps a worker's memory well formed.
LEMMA PcUpdate ==
    ASSUME TypeOK, NEW w \in Workers,
           NEW p \in {"executing", "completing", "failing"}
    PROVE  [worker EXCEPT ![w].pc = p] \in [Workers -> WorkerState]
  BY DEF TypeOK, WorkerState

\* Type correctness is preserved by every step.
LEMMA NextTypeOK ==
    ASSUME IInv, [Next]_vars
    PROVE  TypeOK'
  <1> USE NumRunsAssumption, MaxAttemptsAssumption, MaxCrashesAssumption, NoneAssumption
  <1> USE DEF IInv, TypeOK, Idle, WorkerState, Status, Outcome
  <1>1. ASSUME NEW r \in Runs, Submit(r) PROVE TypeOK'
    BY <1>1 DEF Submit
  <1>2. ASSUME NEW r \in Runs, LeaseExpires(r) PROVE TypeOK'
    BY <1>2 DEF LeaseExpires
  <1>3. ASSUME NEW r \in Runs, RetryComesDue(r) PROVE TypeOK'
    BY <1>3 DEF RetryComesDue
  <1>4. ASSUME NEW w \in Workers, Sweep(w) PROVE TypeOK'
    BY <1>4 DEF Sweep, Claiming, Exhausted, row
  <1>5. ASSUME NEW w \in Workers, Claim(w) PROVE TypeOK'
    <2> First \subseteq Runs /\ \A r \in First : attempts[r] < MaxAttempts
      BY DEF First, Candidates, Claimable
    <2>1. /\ status' \in [Runs -> Status]
          /\ owner' \in [Runs -> Workers \cup {None}]
          /\ gen' \in [Runs -> Nat]
          /\ rowLock' \in [Runs -> Workers \cup {None}]
      BY <1>5 DEF Claim, NextGeneration
    <2>2. attempts' \in [Runs -> 0..MaxAttempts]
      BY <1>5 DEF Claim, NextGeneration
    <2>3. leaseDue' \in [Runs -> BOOLEAN] /\ retryDue' \in [Runs -> BOOLEAN]
      BY <1>5 DEF Claim, NextGeneration
    <2>4. worker' \in [Workers -> WorkerState]
      <3>1. CASE First = {} /\ worker' = [worker EXCEPT ![w] = Idle]
        BY <3>1
      <3>2. ASSUME NEW r \in First,
                   worker' = [worker EXCEPT ![w] = Executing(r, NextGeneration(r))]
            PROVE  worker' \in [Workers -> WorkerState]
        BY <3>2 DEF Executing, NextGeneration
      <3> QED
        BY <1>5, <3>1, <3>2 DEF Claim
    <2> QED
      BY <1>5, <2>1, <2>2, <2>3, <2>4 DEF Claim, NextGeneration
  <1>6. ASSUME NEW w \in Workers, ExecutorRaises(w) PROVE TypeOK'
    <2>1. worker' \in [Workers -> WorkerState]
      BY <1>6, PcUpdate DEF ExecutorRaises
    <2> QED
      BY <1>6, <2>1 DEF ExecutorRaises, row
  <1>7. ASSUME NEW w \in Workers, BeginComplete(w) PROVE TypeOK'
    <2>1. CASE HoldsLease(w, worker[w].run)
      <3>1. /\ UNCHANGED <<row, crashes>>
            /\ rowLock' = [rowLock EXCEPT ![worker[w].run] = w]
            /\ worker' = [worker EXCEPT ![w].pc = "completing"]
        BY <1>7, <2>1 DEF BeginComplete
      <3>2. worker' \in [Workers -> WorkerState]
        BY <3>1, PcUpdate
      <3>3. rowLock' \in [Runs -> Workers \cup {None}]
        BY <3>1
      <3> QED
        BY <3>1, <3>2, <3>3 DEF row
    <2>2. CASE ~HoldsLease(w, worker[w].run)
      BY <1>7, <2>2 DEF BeginComplete, row
    <2> QED
      BY <2>1, <2>2
  <1>8. ASSUME NEW w \in Workers, CompleteRaises(w) PROVE TypeOK'
    <2>1. worker' \in [Workers -> WorkerState]
      BY <1>8, PcUpdate DEF CompleteRaises
    <2>2. rowLock' \in [Runs -> Workers \cup {None}]
      BY <1>8 DEF CompleteRaises
    <2> QED
      BY <1>8, <2>1, <2>2 DEF CompleteRaises, row
  <1>9. ASSUME NEW w \in Workers, NEW o \in Outcome, Complete(w, o) PROVE TypeOK'
    <2>1. CASE HoldsLease(w, worker[w].run)
      <3>1. /\ status' = [status EXCEPT ![worker[w].run] = o]
            /\ owner' = [owner EXCEPT ![worker[w].run] = None]
            /\ results' = [results EXCEPT ![worker[w].run] = @ \cup {worker[w].gen}]
            /\ rowLock' = [rowLock EXCEPT ![worker[w].run] = None]
            /\ worker' = [worker EXCEPT ![w] = Idle]
            /\ UNCHANGED <<gen, attempts, leaseDue, retryDue, crashes>>
        BY <1>9, <2>1 DEF Complete
      <3>2. /\ worker' \in [Workers -> WorkerState]
            /\ rowLock' \in [Runs -> Workers \cup {None}]
            /\ status' \in [Runs -> Status]
            /\ owner' \in [Runs -> Workers \cup {None}]
        BY <3>1
      <3>3. worker[w].gen \in Nat
        OBVIOUS
      <3>4. results' \in [Runs -> SUBSET Nat]
        BY <3>1, <3>3
      <3> QED
        BY <3>1, <3>2, <3>4
    <2>2. CASE ~HoldsLease(w, worker[w].run)
      BY <1>9, <2>2 DEF Complete, row
    <2> QED
      BY <2>1, <2>2
  <1>10. ASSUME NEW w \in Workers, Fail(w) PROVE TypeOK'
    BY <1>10 DEF Fail, row
  <1>11. ASSUME NEW w \in Workers, Crash(w) PROVE TypeOK'
    BY <1>11 DEF Crash, row
  <1>12. CASE UNCHANGED vars
    BY <1>12 DEF vars, row
  <1> QED
    BY <1>1, <1>2, <1>3, <1>4, <1>5, <1>6, <1>7, <1>8, <1>9, <1>10, <1>11, <1>12
       DEF Next, RunOnce
-----------------------------------------------------------------------------
(* Preservation of the inductive invariant, one lemma per group of actions. *)

Safety == /\ ResultOfLastLease
          /\ AttemptBudget
          /\ ClaimsAreDistinct
          /\ LeaseColumns
          /\ WorkerMemory
          /\ LocksAreOpen

\* Submission and the passing of time touch one row and no worker.
LEMMA EnvironmentSafety ==
    ASSUME IInv, TypeOK', NEW q \in Runs,
           Submit(q) \/ LeaseExpires(q) \/ RetryComesDue(q)
    PROVE  Safety'
  <1> USE NoneAssumption, MaxAttemptsAssumption DEF IInv
  <1>1. CASE Submit(q)
    <2>1. status[q] = "absent" /\ owner[q] = None /\ ~leaseDue[q]
      BY <1>1 DEF Submit, LeaseColumns, TypeOK
    <2>2. ResultOfLastLease' /\ AttemptBudget' /\ ClaimsAreDistinct' /\ LeaseColumns'
      BY <1>1, <2>1 DEF Submit, ResultOfLastLease, AttemptBudget, ClaimsAreDistinct,
                        LeaseColumns, TypeOK, Outcome
    <2>3. WorkerMemory'
      BY <1>1, <2>1 DEF Submit, WorkerMemory, Exhausted, TypeOK, WorkerState
    <2>4. LocksAreOpen'
      BY <1>1 DEF Submit, LocksAreOpen
    <2> QED
      BY <2>2, <2>3, <2>4 DEF Safety
  <1>2. CASE LeaseExpires(q)
    <2>1. ResultOfLastLease' /\ AttemptBudget' /\ ClaimsAreDistinct' /\ LeaseColumns'
      BY <1>2 DEF LeaseExpires, ResultOfLastLease, AttemptBudget, ClaimsAreDistinct,
                  LeaseColumns, TypeOK
    <2>2. WorkerMemory'
      BY <1>2 DEF LeaseExpires, WorkerMemory, Exhausted, TypeOK, WorkerState
    <2>3. LocksAreOpen'
      BY <1>2 DEF LeaseExpires, LocksAreOpen
    <2> QED
      BY <2>1, <2>2, <2>3 DEF Safety
  <1>3. CASE RetryComesDue(q)
    BY <1>3 DEF RetryComesDue, Safety, ResultOfLastLease, AttemptBudget, ClaimsAreDistinct,
                LeaseColumns, WorkerMemory, LocksAreOpen, Exhausted
  <1> QED
    BY <1>1, <1>2, <1>3

\* The sweep locks the exhausted rows and writes nothing yet.
LEMMA SweepSafety ==
    ASSUME IInv, TypeOK', NEW w \in Workers, Sweep(w)
    PROVE  Safety'
  <1> USE NoneAssumption DEF IInv
  <1>1. /\ worker[w].pc = "idle" /\ worker[w].run = 0 /\ worker[w].swept = {}
        /\ \A r \in Exhausted : rowLock[r] = None
        /\ rowLock' = [r \in Runs |-> IF r \in Exhausted THEN w ELSE rowLock[r]]
        /\ worker' = [worker EXCEPT ![w] = Claiming(Exhausted)]
        /\ UNCHANGED <<status, owner, gen, attempts, leaseDue, retryDue, results>>
    BY DEF Sweep, row, WorkerMemory
  <1>2. ResultOfLastLease' /\ AttemptBudget' /\ LeaseColumns'
    BY <1>1 DEF ResultOfLastLease, AttemptBudget, LeaseColumns
  <1>3. /\ worker'[w] = Claiming(Exhausted)
        /\ \A v \in Workers : v # w => worker'[v] = worker[v]
    BY <1>1 DEF TypeOK
  <1>4. ClaimsAreDistinct'
    BY <1>1, <1>3 DEF ClaimsAreDistinct, Claiming
  <1>5. WorkerMemory'
    BY <1>1, <1>3 DEF WorkerMemory, Claiming, Exhausted, TypeOK, WorkerState
  <1>6. LocksAreOpen'
    BY <1>1, <1>3 DEF LocksAreOpen, Claiming, TypeOK, WorkerState
  <1> QED
    BY <1>2, <1>4, <1>5, <1>6 DEF Safety

\* The claim buries the swept rows and leases the first candidate.
LEMMA ClaimSafety ==
    ASSUME IInv, TypeOK', NEW w \in Workers, Claim(w)
    PROVE  Safety'
  <1> USE NoneAssumption, MaxAttemptsAssumption DEF IInv
  <1> DEFINE S == worker[w].swept
  <1>1. /\ S \subseteq Runs
        /\ \A r \in S : /\ r \in Exhausted /\ rowLock[r] = w
                        /\ status[r] = "running" /\ attempts[r] = MaxAttempts
    <2>1. S \in SUBSET Runs
      BY DEF TypeOK, WorkerState
    <2> SUFFICES ASSUME NEW r \in S
                 PROVE  /\ r \in Exhausted /\ rowLock[r] = w
                        /\ status[r] = "running" /\ attempts[r] = MaxAttempts
      BY <2>1
    <2>2. r \in Exhausted /\ rowLock[r] = w
      BY DEF WorkerMemory
    <2>3. attempts[r] \in 0..MaxAttempts
      BY <2>1 DEF TypeOK
    <2> QED
      BY <2>2, <2>3 DEF Exhausted
  <1>2. /\ First \subseteq Runs
        /\ \A r \in First : /\ rowLock[r] = None /\ attempts[r] < MaxAttempts
                            /\ status[r] \in {"queued", "retry_wait", "running"}
    BY DEF First, Candidates, Claimable
  <1>3. \A r \in S : r \notin First
    BY <1>1, <1>2
  <1>4. \A a, b \in First : a = b
    BY FirstIsUnique DEF First, Candidates
  <1>5. \A r \in Runs :
          /\ status'[r] = IF r \in S THEN "dead_letter"
                          ELSE IF r \in First THEN "running" ELSE status[r]
          /\ owner'[r] = IF r \in S THEN None ELSE IF r \in First THEN w ELSE owner[r]
          /\ rowLock'[r] = IF r \in S THEN None ELSE rowLock[r]
          /\ results'[r] = results[r]
    BY DEF Claim, NextGeneration
  <1>5b. \A r \in Runs :
          /\ r \in S \cup First => leaseDue'[r] = FALSE
          /\ r \notin S \cup First => leaseDue'[r] = leaseDue[r]
    BY DEF Claim, NextGeneration
  <1>5c. \A r \in Runs :
          /\ gen[r] \in Nat /\ attempts[r] \in Nat
          /\ r \in First => gen'[r] = gen[r] + 1 /\ attempts'[r] = attempts[r] + 1
          /\ r \notin First => gen'[r] = gen[r] /\ attempts'[r] = attempts[r]
    BY DEF Claim, NextGeneration, TypeOK
  <1>6. /\ worker[w].pc = "claiming"
        /\ \A v \in Workers : v # w => worker'[v] = worker[v]
        /\ \/ First = {} /\ worker'[w] = Idle
           \/ \E r \in First : worker'[w] = Executing(r, gen[r] + 1)
    BY DEF Claim, NextGeneration, TypeOK
  <1>7. ResultOfLastLease'
    BY <1>1, <1>2, <1>3, <1>5, <1>5c DEF ResultOfLastLease, Outcome, TypeOK
  <1>8. AttemptBudget'
    <2> SUFFICES ASSUME NEW r \in Runs
                 PROVE  /\ gen'[r] = attempts'[r] /\ attempts'[r] <= MaxAttempts
                        /\ status'[r] = "dead_letter" => attempts'[r] = MaxAttempts
      BY DEF AttemptBudget
    <2>1. /\ gen[r] = attempts[r] /\ attempts[r] \in 0..MaxAttempts
          /\ status[r] = "dead_letter" => attempts[r] = MaxAttempts
      BY DEF AttemptBudget, TypeOK
    <2> QED
      BY <2>1, <1>1, <1>2, <1>3, <1>5, <1>5c
  <1>9. LeaseColumns'
    <2> SUFFICES ASSUME NEW r \in Runs
                 PROVE  /\ status'[r] = "running" <=> owner'[r] # None
                        /\ leaseDue'[r] => status'[r] = "running"
                        /\ status'[r] = "running" => gen'[r] > 0
      BY DEF LeaseColumns
    <2>1. /\ status[r] = "running" <=> owner[r] # None
          /\ leaseDue[r] => status[r] = "running"
          /\ status[r] = "running" => gen[r] > 0
          /\ gen[r] \in Nat /\ w # None
      BY DEF LeaseColumns, TypeOK
    <2>2. CASE r \in S
      BY <2>2, <1>3, <1>5, <1>5b
    <2>3. CASE r \in First
      BY <2>1, <2>3, <1>3, <1>5, <1>5b, <1>5c
    <2>4. CASE r \notin S /\ r \notin First
      BY <2>1, <2>4, <1>5, <1>5b, <1>5c
    <2> QED
      BY <2>2, <2>3, <2>4
  <1>10. \A v \in Workers : worker[v].run # 0 =>
             worker[v].run \in Runs /\ worker[v].gen <= gen[worker[v].run]
    BY DEF WorkerMemory, TypeOK, WorkerState
  <1>11. ClaimsAreDistinct'
    <2> SUFFICES ASSUME NEW u \in Workers, NEW v \in Workers, u # v,
                        worker'[u].run # 0, worker'[u].run = worker'[v].run,
                        worker'[u].gen = worker'[v].gen
                 PROVE  FALSE
      BY DEF ClaimsAreDistinct
    <2>1. CASE u # w /\ v # w
      BY <2>1, <1>6 DEF ClaimsAreDistinct
    <2>2. CASE u = w
      BY <2>2, <1>2, <1>6, <1>10 DEF Idle, Executing, TypeOK, WorkerState
    <2>3. CASE v = w
      BY <2>3, <1>2, <1>6, <1>10 DEF Idle, Executing, TypeOK, WorkerState
    <2> QED
      BY <2>1, <2>2, <2>3
  <1>12. WorkerMemory'
    <2> SUFFICES ASSUME NEW v \in Workers
                 PROVE  /\ worker'[v].pc \in {"idle", "claiming"} <=> worker'[v].run = 0
                        /\ worker'[v].run # 0 => worker'[v].gen <= gen'[worker'[v].run]
                        /\ worker'[v].pc # "claiming" => worker'[v].swept = {}
                        /\ \A r \in worker'[v].swept : r \in Exhausted' /\ rowLock'[r] = v
                        /\ worker'[v].pc = "completing" =>
                              /\ rowLock'[worker'[v].run] = v
                              /\ status'[worker'[v].run] = "running"
                              /\ owner'[worker'[v].run] = v
                              /\ gen'[worker'[v].run] = worker'[v].gen
      BY DEF WorkerMemory
    <2>1. CASE v = w /\ First = {}
      BY <2>1, <1>6 DEF Idle
    <2>2. CASE v = w /\ First # {}
      <3>1. PICK r \in First : worker'[w] = Executing(r, gen[r] + 1)
        BY <2>2, <1>6
      <3>2. r \in Runs /\ r # 0 /\ gen'[r] = gen[r] + 1 /\ gen[r] \in Nat
        BY <1>2, <1>5c DEF Runs
      <3> QED
        BY <2>2, <3>1, <3>2 DEF Executing
    <2>3. CASE v # w
      <3>1. worker'[v] = worker[v]
        BY <2>3, <1>6
      <3>2. worker[v].run # 0 => worker[v].gen <= gen'[worker[v].run]
        <4> SUFFICES ASSUME worker[v].run # 0
                     PROVE  worker[v].gen <= gen'[worker[v].run]
          OBVIOUS
        <4>1. /\ worker[v].run \in Runs /\ worker[v].gen <= gen[worker[v].run]
              /\ worker[v].gen \in Nat /\ gen[worker[v].run] \in Nat
          BY <1>10 DEF TypeOK, WorkerState
        <4> QED
          BY <4>1, <1>5c
      <3>3. \A r \in worker[v].swept : r \in Exhausted' /\ rowLock'[r] = v
        <4> SUFFICES ASSUME NEW r \in worker[v].swept
                     PROVE  r \in Exhausted' /\ rowLock'[r] = v
          OBVIOUS
        <4>1. r \in Runs /\ r \in Exhausted /\ rowLock[r] = v
          BY DEF WorkerMemory, TypeOK, WorkerState
        <4>2. r \notin S /\ r \notin First
          BY <4>1, <2>3, <1>1, <1>2
        <4> QED
          BY <4>1, <4>2, <1>5, <1>5b, <1>5c DEF Exhausted
      <3>4. ASSUME worker[v].pc = "completing"
            PROVE  /\ rowLock'[worker[v].run] = v
                   /\ status'[worker[v].run] = "running"
                   /\ owner'[worker[v].run] = v
                   /\ gen'[worker[v].run] = worker[v].gen
        <4>1. worker[v].run \in Runs /\ rowLock[worker[v].run] = v
          BY <3>4 DEF WorkerMemory, TypeOK, WorkerState
        <4>2. worker[v].run \notin S /\ worker[v].run \notin First
          BY <4>1, <2>3, <1>1, <1>2
        <4>3. /\ status[worker[v].run] = "running" /\ owner[worker[v].run] = v
              /\ gen[worker[v].run] = worker[v].gen
          BY <3>4 DEF WorkerMemory
        <4> QED
          BY <3>4, <4>1, <4>2, <4>3, <1>5, <1>5c
      <3> QED
        BY <3>1, <3>2, <3>3, <3>4 DEF WorkerMemory
    <2> QED
      BY <2>1, <2>2, <2>3
  <1>13. LocksAreOpen'
    <2> SUFFICES ASSUME NEW r \in Runs, rowLock'[r] # None
                 PROVE  \/ r \in worker'[rowLock'[r]].swept
                        \/ /\ worker'[rowLock'[r]].pc = "completing"
                           /\ worker'[rowLock'[r]].run = r
      BY DEF LocksAreOpen
    <2>1. r \notin S /\ rowLock'[r] = rowLock[r] /\ rowLock[r] \in Workers
      BY <1>5 DEF TypeOK
    <2>2. \/ r \in worker[rowLock[r]].swept
          \/ worker[rowLock[r]].pc = "completing" /\ worker[rowLock[r]].run = r
      BY <2>1 DEF LocksAreOpen
    <2>3. rowLock[r] # w
      BY <2>1, <2>2, <1>6
    <2> QED
      BY <2>1, <2>2, <2>3, <1>6
  <1> QED
    BY <1>7, <1>8, <1>9, <1>11, <1>12, <1>13 DEF Safety

\* A worker that keeps its claim or drops it creates no second holder.
LEMMA KeepOrDropClaim ==
    ASSUME IInv, NEW w \in Workers,
           \A v \in Workers : v # w => worker'[v] = worker[v],
           \/ worker'[w].run = 0
           \/ worker'[w].run = worker[w].run /\ worker'[w].gen = worker[w].gen
    PROVE  ClaimsAreDistinct'
  BY DEF IInv, ClaimsAreDistinct

\* What a worker past its claim knows.
LEMMA ClaimedRun ==
    ASSUME IInv, NEW w \in Workers,
           worker[w].pc \in {"executing", "completing", "failing"}
    PROVE  /\ worker[w].run \in Runs /\ worker[w].run # 0
           /\ worker[w].swept = {}
           /\ worker[w].gen \in Nat
           /\ worker[w].gen <= gen[worker[w].run]
           /\ worker[w].pc = "completing" => rowLock[worker[w].run] = w
           /\ \A r \in Runs : rowLock[r] = w =>
                 worker[w].pc = "completing" /\ r = worker[w].run
  <1>1. /\ worker[w].run \in Runs /\ worker[w].run # 0 /\ worker[w].swept = {}
        /\ worker[w].gen \in Nat /\ worker[w].gen <= gen[worker[w].run]
        /\ worker[w].pc = "completing" => rowLock[worker[w].run] = w
    BY DEF IInv, WorkerMemory, TypeOK, WorkerState
  <1>2. \A r \in Runs : rowLock[r] = w =>
            worker[w].pc = "completing" /\ r = worker[w].run
    BY <1>1, NoneAssumption DEF IInv, LocksAreOpen
  <1> QED
    BY <1>1, <1>2

\* The executor raises: only the worker's memory changes.
LEMMA ExecutorRaisesSafety ==
    ASSUME IInv, TypeOK', NEW w \in Workers, ExecutorRaises(w)
    PROVE  Safety'
  <1> USE NoneAssumption DEF IInv
  <1>1. /\ worker[w].pc = "executing"
        /\ UNCHANGED <<status, owner, gen, attempts, leaseDue, results, rowLock>>
        /\ \A v \in Workers : v # w => worker'[v] = worker[v]
        /\ worker'[w].pc = "failing" /\ worker'[w].run = worker[w].run
        /\ worker'[w].gen = worker[w].gen /\ worker'[w].swept = worker[w].swept
    BY DEF ExecutorRaises, row, TypeOK, WorkerState
  <1>2. ResultOfLastLease' /\ AttemptBudget' /\ LeaseColumns'
    BY <1>1 DEF ResultOfLastLease, AttemptBudget, LeaseColumns
  <1>3. ClaimsAreDistinct'
    BY <1>1, KeepOrDropClaim
  <1>4. WorkerMemory'
    BY <1>1, ClaimedRun DEF WorkerMemory, Exhausted
  <1>5. LocksAreOpen'
    BY <1>1, ClaimedRun DEF LocksAreOpen, TypeOK
  <1> QED
    BY <1>2, <1>3, <1>4, <1>5 DEF Safety

\* complete_claimed_run checks the lease and locks the row, or gives up.
LEMMA BeginCompleteSafety ==
    ASSUME IInv, TypeOK', NEW w \in Workers, BeginComplete(w)
    PROVE  Safety'
  <1> USE NoneAssumption DEF IInv
  <1> DEFINE q == worker[w].run
  <1>1. /\ worker[w].pc = "executing" /\ rowLock[q] = None
        /\ UNCHANGED <<status, owner, gen, attempts, leaseDue, results>>
        /\ \A v \in Workers : v # w => worker'[v] = worker[v]
    BY DEF BeginComplete, row, TypeOK
  <1>2. ResultOfLastLease' /\ AttemptBudget' /\ LeaseColumns'
    BY <1>1 DEF ResultOfLastLease, AttemptBudget, LeaseColumns
  <1>3. CASE HoldsLease(w, q)
    <2>1. /\ worker'[w].pc = "completing" /\ worker'[w].run = q
          /\ worker'[w].gen = worker[w].gen /\ worker'[w].swept = worker[w].swept
          /\ q \in Runs /\ rowLock'[q] = w
          /\ \A r \in Runs : r # q => rowLock'[r] = rowLock[r]
      BY <1>1, <1>3, ClaimedRun DEF BeginComplete, TypeOK, WorkerState
    <2>2. ClaimsAreDistinct'
      BY <1>1, <2>1, KeepOrDropClaim
    <2>3. WorkerMemory'
      <3>1. /\ worker[w].swept = {} /\ q # 0 /\ worker[w].gen <= gen[q]
        BY <1>1, ClaimedRun
      <3>2. \A v \in Workers : v # w => \A r \in worker[v].swept : r # q /\ r \in Runs
        BY <1>1 DEF WorkerMemory, TypeOK, WorkerState
      <3>3. \A v \in Workers : v # w /\ worker[v].pc = "completing" =>
                worker[v].run # q /\ worker[v].run \in Runs
        BY <1>1, ClaimedRun
      <3> QED
        BY <1>1, <1>3, <2>1, <3>1, <3>2, <3>3 DEF WorkerMemory, Exhausted, HoldsLease
    <2>4. LocksAreOpen'
      BY <1>1, <2>1, ClaimedRun DEF LocksAreOpen, TypeOK
    <2> QED
      BY <1>2, <2>2, <2>3, <2>4 DEF Safety
  <1>4. CASE ~HoldsLease(w, q)
    <2>1. worker'[w] = Idle /\ rowLock' = rowLock
      BY <1>4 DEF BeginComplete, TypeOK
    <2>2. ClaimsAreDistinct'
      BY <1>1, <2>1, KeepOrDropClaim DEF Idle
    <2>3. WorkerMemory'
      BY <1>1, <2>1 DEF WorkerMemory, Exhausted, Idle
    <2>4. LocksAreOpen'
      BY <1>1, <2>1, ClaimedRun DEF LocksAreOpen, TypeOK
    <2> QED
      BY <1>2, <2>2, <2>3, <2>4 DEF Safety
  <1> QED
    BY <1>3, <1>4

\* Rows another worker's transaction depends on are not q, when q is unlocked
\* or locked by w.
LEMMA OthersElsewhere ==
    ASSUME IInv, NEW w \in Workers, NEW q \in Runs, rowLock[q] \in {None, w},
           NEW v \in Workers, v # w
    PROVE  /\ \A r \in worker[v].swept : r \in Runs /\ r # q
           /\ worker[v].pc = "completing" => worker[v].run \in Runs /\ worker[v].run # q
  <1>1. \A r \in worker[v].swept : r \in Runs /\ r # q
    BY NoneAssumption DEF IInv, WorkerMemory, TypeOK, WorkerState
  <1>2. worker[v].pc = "completing" => worker[v].run \in Runs /\ worker[v].run # q
    BY ClaimedRun, NoneAssumption
  <1> QED
    BY <1>1, <1>2

\* A completion that raises rolls back and releases the row.
LEMMA CompleteRaisesSafety ==
    ASSUME IInv, TypeOK', NEW w \in Workers, CompleteRaises(w)
    PROVE  Safety'
  <1> USE NoneAssumption DEF IInv
  <1> DEFINE q == worker[w].run
  <1>1. /\ worker[w].pc = "completing" /\ q \in Runs /\ rowLock[q] = w
        /\ UNCHANGED <<status, owner, gen, attempts, leaseDue, results>>
        /\ \A v \in Workers : v # w => worker'[v] = worker[v]
        /\ worker'[w].pc = "failing" /\ worker'[w].run = q
        /\ worker'[w].gen = worker[w].gen /\ worker'[w].swept = worker[w].swept
        /\ rowLock'[q] = None
        /\ \A r \in Runs : r # q => rowLock'[r] = rowLock[r]
    BY ClaimedRun DEF CompleteRaises, row, TypeOK, WorkerState
  <1>2. ResultOfLastLease' /\ AttemptBudget' /\ LeaseColumns'
    BY <1>1 DEF ResultOfLastLease, AttemptBudget, LeaseColumns
  <1>3. ClaimsAreDistinct'
    BY <1>1, KeepOrDropClaim
  <1>4. WorkerMemory'
    <2>1. worker[w].swept = {} /\ q # 0 /\ worker[w].gen <= gen[q]
      BY <1>1, ClaimedRun
    <2> QED
      BY <1>1, <2>1, OthersElsewhere DEF WorkerMemory, Exhausted
  <1>5. LocksAreOpen'
    BY <1>1, ClaimedRun DEF LocksAreOpen, TypeOK
  <1> QED
    BY <1>2, <1>3, <1>4, <1>5 DEF Safety

\* The results are committed under the lease that was checked again.
LEMMA CompleteSafety ==
    ASSUME IInv, TypeOK', NEW w \in Workers, NEW o \in Outcome, Complete(w, o)
    PROVE  Safety'
  <1> USE NoneAssumption DEF IInv
  <1> DEFINE q == worker[w].run
  <1>1. /\ worker[w].pc = "completing" /\ q \in Runs /\ rowLock[q] = w
        /\ UNCHANGED <<gen, attempts, leaseDue>>
        /\ \A v \in Workers : v # w => worker'[v] = worker[v]
        /\ worker'[w] = Idle
        /\ rowLock'[q] = None
        /\ \A r \in Runs : r # q => rowLock'[r] = rowLock[r]
    BY ClaimedRun DEF Complete, row, TypeOK
  <1>2. ClaimsAreDistinct'
    BY <1>1, KeepOrDropClaim DEF Idle
  <1>3. LocksAreOpen'
    BY <1>1, ClaimedRun DEF LocksAreOpen, TypeOK
  <1>4. CASE HoldsLease(w, q)
    <2>1. /\ status'[q] = o /\ owner'[q] = None /\ results'[q] = results[q] \cup {gen[q]}
          /\ \A r \in Runs : r # q => /\ status'[r] = status[r] /\ owner'[r] = owner[r]
                                      /\ results'[r] = results[r]
      BY <1>1, <1>4 DEF Complete, HoldsLease, TypeOK
    <2>2. status[q] = "running" /\ results[q] = {} /\ ~leaseDue[q]
      BY <1>1, <1>4 DEF HoldsLease, ResultOfLastLease, Outcome
    <2>3. ResultOfLastLease' /\ AttemptBudget'
      BY <1>1, <2>1, <2>2 DEF ResultOfLastLease, AttemptBudget, Outcome
    <2>4. LeaseColumns'
      BY <1>1, <2>1, <2>2 DEF LeaseColumns, Outcome
    <2>5. WorkerMemory'
      BY <1>1, <2>1, OthersElsewhere DEF WorkerMemory, Exhausted, Idle
    <2> QED
      BY <1>2, <1>3, <2>3, <2>4, <2>5 DEF Safety
  <1>5. CASE ~HoldsLease(w, q)
    <2>1. UNCHANGED <<status, owner, results>>
      BY <1>5 DEF Complete, row
    <2>2. ResultOfLastLease' /\ AttemptBudget' /\ LeaseColumns'
      BY <1>1, <2>1 DEF ResultOfLastLease, AttemptBudget, LeaseColumns
    <2>3. WorkerMemory'
      BY <1>1, <2>1, OthersElsewhere DEF WorkerMemory, Exhausted, Idle
    <2> QED
      BY <1>2, <1>3, <2>2, <2>3 DEF Safety
  <1> QED
    BY <1>4, <1>5

\* fail_claimed_run: the run waits for a retry or is dead-lettered.
LEMMA FailSafety ==
    ASSUME IInv, TypeOK', NEW w \in Workers, Fail(w)
    PROVE  Safety'
  <1> USE NoneAssumption, MaxAttemptsAssumption DEF IInv
  <1> DEFINE q == worker[w].run
  <1>1. /\ worker[w].pc = "failing" /\ q \in Runs /\ rowLock[q] = None
        /\ UNCHANGED <<gen, attempts, leaseDue, results, rowLock>>
        /\ \A v \in Workers : v # w => worker'[v] = worker[v]
        /\ worker'[w] = Idle
    BY ClaimedRun DEF Fail, row, TypeOK
  <1>2. ClaimsAreDistinct'
    BY <1>1, KeepOrDropClaim DEF Idle
  <1>3. LocksAreOpen'
    BY <1>1, ClaimedRun DEF LocksAreOpen, TypeOK
  <1>4. CASE HoldsLease(w, q)
    <2>1. /\ status'[q] \in {"dead_letter", "retry_wait"}
          /\ status'[q] = "dead_letter" => attempts[q] >= MaxAttempts
          /\ owner'[q] = None
          /\ \A r \in Runs : r # q => status'[r] = status[r] /\ owner'[r] = owner[r]
      BY <1>1, <1>4 DEF Fail, BudgetSpent, TypeOK
    <2>2. status[q] = "running" /\ ~leaseDue[q] /\ attempts[q] \in 0..MaxAttempts
      BY <1>1, <1>4 DEF HoldsLease, TypeOK
    <2>3. ResultOfLastLease'
      BY <1>1, <2>1, <2>2 DEF ResultOfLastLease, Outcome
    <2>4. AttemptBudget'
      BY <1>1, <2>1, <2>2 DEF AttemptBudget
    <2>5. LeaseColumns'
      BY <1>1, <2>1, <2>2 DEF LeaseColumns
    <2>6. WorkerMemory'
      BY <1>1, <2>1, OthersElsewhere DEF WorkerMemory, Exhausted, Idle
    <2> QED
      BY <1>2, <1>3, <2>3, <2>4, <2>5, <2>6 DEF Safety
  <1>5. CASE ~HoldsLease(w, q)
    <2>1. UNCHANGED <<status, owner>>
      BY <1>5 DEF Fail, row
    <2>2. ResultOfLastLease' /\ AttemptBudget' /\ LeaseColumns'
      BY <1>1, <2>1 DEF ResultOfLastLease, AttemptBudget, LeaseColumns
    <2>3. WorkerMemory'
      BY <1>1, <2>1 DEF WorkerMemory, Exhausted, Idle
    <2> QED
      BY <1>2, <1>3, <2>2, <2>3 DEF Safety
  <1> QED
    BY <1>4, <1>5

\* A crash rolls back: locks are released and nothing else happened.
LEMMA CrashSafety ==
    ASSUME IInv, TypeOK', NEW w \in Workers, Crash(w)
    PROVE  Safety'
  <1> USE NoneAssumption DEF IInv
  <1>1. /\ UNCHANGED <<status, owner, gen, attempts, leaseDue, results>>
        /\ \A v \in Workers : v # w => worker'[v] = worker[v]
        /\ worker'[w] = Idle
        /\ \A r \in Runs : rowLock'[r] = IF rowLock[r] = w THEN None ELSE rowLock[r]
    BY DEF Crash, row, TypeOK
  <1>2. ResultOfLastLease' /\ AttemptBudget' /\ LeaseColumns'
    BY <1>1 DEF ResultOfLastLease, AttemptBudget, LeaseColumns
  <1>3. ClaimsAreDistinct'
    BY <1>1, KeepOrDropClaim DEF Idle
  <1>4. WorkerMemory'
    <2>1. \A v \in Workers : v # w =>
            \A r \in worker[v].swept : r \in Runs /\ rowLock'[r] = v
      BY <1>1 DEF WorkerMemory, TypeOK, WorkerState
    <2>2. \A v \in Workers : v # w /\ worker[v].pc = "completing" =>
            rowLock'[worker[v].run] = v
      BY <1>1, ClaimedRun
    <2> QED
      BY <1>1, <2>1, <2>2 DEF WorkerMemory, Exhausted, Idle
  <1>5. LocksAreOpen'
    BY <1>1 DEF LocksAreOpen, TypeOK
  <1> QED
    BY <1>2, <1>3, <1>4, <1>5 DEF Safety

\* Every step preserves the inductive invariant.
LEMMA NextIInv ==
    ASSUME IInv, [Next]_vars
    PROVE  IInv'
  <1>1. TypeOK'
    BY NextTypeOK
  <1>2. Safety'
    <2>1. CASE \E r \in Runs : Submit(r) \/ LeaseExpires(r) \/ RetryComesDue(r)
      BY <2>1, <1>1, EnvironmentSafety
    <2>2. ASSUME NEW w \in Workers, RunOnce(w)
          PROVE  Safety'
      BY <2>2, <1>1, SweepSafety, ClaimSafety, ExecutorRaisesSafety, BeginCompleteSafety,
         CompleteRaisesSafety, CompleteSafety, FailSafety DEF RunOnce
    <2>3. ASSUME NEW w \in Workers, Crash(w)
          PROVE  Safety'
      BY <2>3, <1>1, CrashSafety
    <2>4. CASE UNCHANGED vars
      <3> USE <2>4 DEF vars, row, IInv
      <3>1. ResultOfLastLease' /\ AttemptBudget' /\ ClaimsAreDistinct'
        BY DEF ResultOfLastLease, AttemptBudget, ClaimsAreDistinct
      <3>2. LeaseColumns' /\ LocksAreOpen'
        BY DEF LeaseColumns, LocksAreOpen
      <3>3. WorkerMemory'
        BY DEF WorkerMemory, Exhausted
      <3> QED
        BY <3>1, <3>2, <3>3 DEF Safety
    <2> QED
      BY <2>1, <2>2, <2>3, <2>4 DEF Next
  <1> QED
    BY <1>1, <1>2 DEF IInv, Safety

-----------------------------------------------------------------------------
(* The theorems.                                                           *)

\* IInv is an invariant of the queue: everything below rests on it.
THEOREM Inductive == Spec => []IInv
  BY InitIInv, NextIInv, PTL DEF Spec

\* Type correctness of the rows, the locks and the workers' memory.
THEOREM TypeCorrect == Spec => []TypeOK
  <1>1. IInv => TypeOK
    BY DEF IInv
  <1> QED
    BY Inductive, <1>1, PTL

\* Fencing holds for any number of workers and runs: the results of a run
\* (complete_claimed_run) are those of the last lease granted, and of no other.
THEOREM Fencing == Spec => []ResultOfLastLease
  <1>1. IInv => ResultOfLastLease
    BY DEF IInv
  <1> QED
    BY Inductive, <1>1, PTL

\* The attempt budget of claim_next_run and fail_claimed_run is never exceeded,
\* and only a spent budget leads to dead_letter.
THEOREM Budget == Spec => []AttemptBudget
  <1>1. IInv => AttemptBudget
    BY DEF IInv
  <1> QED
    BY Inductive, <1>1, PTL

\* What the CHECKs of the table do not say: a run that waits has an attempt left.
BudgetLeft ==
    \A r \in Runs : /\ status[r] = "absent" => attempts[r] = 0
                    /\ status[r] \in {"queued", "retry_wait"} => attempts[r] < MaxAttempts

\* Only a claim spends an attempt, and it leaves the run running; only a
\* failure makes a run wait again, and it looks at the budget.
LEMMA BudgetLeftStep ==
    ASSUME IInv, BudgetLeft, [Next]_vars
    PROVE  BudgetLeft'
  <1> USE MaxAttemptsAssumption
  <1>1. ASSUME NEW r \in Runs, Submit(r) \/ LeaseExpires(r) \/ RetryComesDue(r)
        PROVE  BudgetLeft'
    BY <1>1 DEF BudgetLeft, Submit, LeaseExpires, RetryComesDue, IInv, TypeOK
  <1>2. ASSUME NEW w \in Workers, Claim(w)
        PROVE  BudgetLeft'
    <2>1. \A r \in First : Claimable(r) /\ status[r] # "absent"
      BY DEF First, Candidates, Claimable
    <2>2. \A r \in worker[w].swept : status[r] = "running"
      BY DEF IInv, WorkerMemory, Exhausted
    <2>3. \A r \in Runs : /\ status'[r] = IF r \in worker[w].swept THEN "dead_letter"
                                       ELSE IF r \in First THEN "running" ELSE status[r]
                         /\ attempts'[r] = IF r \in First THEN attempts[r] + 1 ELSE attempts[r]
      BY <1>2 DEF Claim
    <2> QED
      BY <2>1, <2>2, <2>3 DEF BudgetLeft
  <1>3. ASSUME NEW w \in Workers, Fail(w)
        PROVE  BudgetLeft'
    BY <1>3 DEF Fail, BudgetLeft, BudgetSpent, HoldsLease, row, IInv, TypeOK
  <1>4. ASSUME NEW w \in Workers, NEW outcome \in Outcome, Complete(w, outcome)
        PROVE  BudgetLeft'
    BY <1>4 DEF Complete, BudgetLeft, HoldsLease, row, IInv, TypeOK, Outcome
  <1>5. ASSUME NEW w \in Workers,
               Sweep(w) \/ ExecutorRaises(w) \/ BeginComplete(w) \/ CompleteRaises(w) \/ Crash(w)
        PROVE  BudgetLeft'
    BY <1>5 DEF Sweep, ExecutorRaises, BeginComplete, CompleteRaises, Crash, BudgetLeft, row
  <1>6. CASE UNCHANGED vars
    BY <1>6 DEF vars, row, BudgetLeft
  <1> QED
    BY <1>1, <1>2, <1>3, <1>4, <1>5, <1>6 DEF Next, RunOnce

\* For any number of runs and workers, a run that has not ended is leased, or
\* waits with an attempt left, or is one the next claim_next_run takes up or
\* dead-letters.
THEOREM NeverStranded == Spec => []NoRunStranded
  <1>1. Init => BudgetLeft
    BY MaxAttemptsAssumption DEF Init, BudgetLeft
  <1>2. IInv /\ BudgetLeft => NoRunStranded
    <2> SUFFICES ASSUME IInv, BudgetLeft, NEW r \in Runs,
                        status[r] \notin Terminal \cup {"absent"}
                 PROVE  \/ status[r] = "running" /\ ~leaseDue[r]
                        \/ status[r] = "retry_wait" /\ ~retryDue[r] /\ attempts[r] < MaxAttempts
                        \/ Claimable(r)
                        \/ r \in Exhausted
      BY DEF NoRunStranded
    <2>1. status[r] \in {"queued", "running", "retry_wait"} /\ attempts[r] \in Nat
      BY MaxAttemptsAssumption DEF IInv, TypeOK, Status, Terminal, Outcome
    <2>2. leaseDue[r] \in BOOLEAN /\ retryDue[r] \in BOOLEAN
      BY DEF IInv, TypeOK
    <2>3. status[r] \in {"queued", "retry_wait"} => attempts[r] < MaxAttempts
      BY DEF BudgetLeft
    <2>4. attempts[r] < MaxAttempts \/ attempts[r] >= MaxAttempts
      BY <2>1, MaxAttemptsAssumption
    <2> QED
      BY <2>1, <2>2, <2>3, <2>4 DEF Claimable, Exhausted
  <1> QED
    BY <1>1, <1>2, Inductive, BudgetLeftStep, PTL DEF Spec

\* No two workers hold the same generation of the same run.
THEOREM DistinctClaims == Spec => []ClaimsAreDistinct
  <1>1. IInv => ClaimsAreDistinct
    BY DEF IInv
  <1> QED
    BY Inductive, <1>1, PTL

\* A sealed or dead-lettered run never changes again.
THEOREM Sealed == Spec => TerminalSealed
  <1>1. ASSUME IInv, [Next]_vars, NEW q \in Runs, status[q] \in Terminal
        PROVE  /\ status'[q] = status[q] /\ gen'[q] = gen[q]
               /\ attempts'[q] = attempts[q] /\ results'[q] = results[q]
    <2> USE <1>1 DEF IInv
    <2>1. status[q] \notin {"absent", "queued", "retry_wait", "running"}
      BY DEF Terminal, Outcome
    <2>2. CASE \E r \in Runs : Submit(r) \/ LeaseExpires(r) \/ RetryComesDue(r)
      BY <2>1, <2>2 DEF Submit, LeaseExpires, RetryComesDue, TypeOK
    <2>3. ASSUME NEW w \in Workers, Claim(w)
          PROVE  /\ status'[q] = status[q] /\ gen'[q] = gen[q]
                 /\ attempts'[q] = attempts[q] /\ results'[q] = results[q]
      <3>1. q \notin First
        BY <2>1 DEF First, Candidates, Claimable
      <3>2. q \notin worker[w].swept
        BY <2>1 DEF WorkerMemory, Exhausted
      <3> QED
        BY <2>3, <3>1, <3>2 DEF Claim, NextGeneration
    <2>4. ASSUME NEW w \in Workers, NEW o \in Outcome, Complete(w, o)
          PROVE  /\ status'[q] = status[q] /\ gen'[q] = gen[q]
                 /\ attempts'[q] = attempts[q] /\ results'[q] = results[q]
      BY <2>1, <2>4 DEF Complete, HoldsLease, row, TypeOK
    <2>5. ASSUME NEW w \in Workers, Fail(w)
          PROVE  /\ status'[q] = status[q] /\ gen'[q] = gen[q]
                 /\ attempts'[q] = attempts[q] /\ results'[q] = results[q]
      BY <2>1, <2>5 DEF Fail, HoldsLease, row, TypeOK
    <2>6. ASSUME NEW w \in Workers,
                 Sweep(w) \/ ExecutorRaises(w) \/ BeginComplete(w)
                   \/ CompleteRaises(w) \/ Crash(w)
          PROVE  UNCHANGED row
      BY <2>6 DEF Sweep, ExecutorRaises, BeginComplete, CompleteRaises, Crash
    <2> QED
      BY <2>2, <2>3, <2>4, <2>5, <2>6 DEF Next, RunOnce, vars, row
  <1>2. IInv /\ [Next]_vars =>
          [\A r \in Runs : status[r] \in Terminal =>
             /\ status'[r] = status[r] /\ gen'[r] = gen[r]
             /\ attempts'[r] = attempts[r] /\ results'[r] = results[r]]_vars
    BY <1>1
  <1> QED
    BY Inductive, <1>2, PTL DEF Spec, TerminalSealed

\* An unexpired lease is never taken over.
THEOREM LeaseRespected == Spec => LiveLeaseKept
  <1>1. ASSUME IInv, [Next]_vars, NEW q \in Runs, status[q] = "running", ~leaseDue[q]
        PROVE  gen'[q] = gen[q]
    <2> USE <1>1 DEF IInv
    <2>1. ASSUME NEW w \in Workers, Claim(w) PROVE gen'[q] = gen[q]
      <3>1. q \notin First
        BY DEF First, Candidates, Claimable
      <3> QED
        BY <2>1, <3>1 DEF Claim, NextGeneration
    <2>2. gen' = gen \/ \E v \in Workers : Claim(v)
      BY DEF Next, RunOnce, Submit, LeaseExpires, RetryComesDue, Sweep, ExecutorRaises,
             BeginComplete, CompleteRaises, Complete, Fail, Crash, row, vars
    <2> QED
      BY <2>1, <2>2
  <1>2. IInv /\ [Next]_vars =>
          [\A r \in Runs : status[r] = "running" /\ ~leaseDue[r] => gen'[r] = gen[r]]_vars
    BY <1>1
  <1> QED
    BY Inductive, <1>2, PTL DEF Spec, LiveLeaseKept

-----------------------------------------------------------------------------
(* The queue implements LeaseQueue.                                        *)

\* The abstract phase of each run status.
LEMMA PhaseValues ==
    /\ PhaseOf("absent") = "none"
    /\ PhaseOf("queued") = "waiting"
    /\ PhaseOf("retry_wait") = "waiting"
    /\ PhaseOf("running") = "leased"
    /\ PhaseOf("succeeded") = "done"
    /\ PhaseOf("failed") = "done"
    /\ PhaseOf("dead_letter") = "buried"
  BY DEF PhaseOf, Outcome

\* The abstract view of a step that leaves status, generation and attempts of
\* every run alone.
LEMMA SameView ==
    ASSUME UNCHANGED <<status, gen, attempts>>
    PROVE  UNCHANGED Abstract!qvars
  BY DEF Abstract!qvars

\* The empty table is an initial state of LeaseQueue.
LEMMA InitImplements == Init => Abstract!QInit
  BY PhaseValues DEF Init, Abstract!QInit, Outcome

\* A submission adds a job.
LEMMA SubmitImplements ==
    ASSUME IInv, NEW q \in Runs, Submit(q)
    PROVE  Abstract!Add(q)
  <1> USE DEF IInv
  <1>1. /\ status[q] = "absent" /\ UNCHANGED <<gen, attempts>>
        /\ status' = [status EXCEPT ![q] = "queued"]
    BY DEF Submit
  <1>2. [r \in Runs |-> PhaseOf(status'[r])]
          = [[r \in Runs |-> PhaseOf(status[r])] EXCEPT ![q] = "waiting"]
    BY <1>1, PhaseValues DEF TypeOK
  <1>3. [r \in Runs |-> IF status'[r] \in Outcome THEN gen'[r] ELSE 0]
          = [r \in Runs |-> IF status[r] \in Outcome THEN gen[r] ELSE 0]
    BY <1>1 DEF TypeOK, Outcome
  <1> QED
    BY <1>1, <1>2, <1>3, PhaseValues DEF Abstract!Add

\* A completion finishes its job under the current token, or changes nothing.
LEMMA CompleteImplements ==
    ASSUME IInv, NEW w \in Workers, NEW o \in Outcome, Complete(w, o)
    PROVE  (\E q \in Runs : Abstract!Finish(q)) \/ UNCHANGED Abstract!qvars
  <1> USE DEF IInv
  <1> DEFINE q == worker[w].run
  <1>1. q \in Runs
    BY ClaimedRun DEF Complete
  <1>2. CASE HoldsLease(w, q)
    <2>1. /\ status[q] = "running" /\ UNCHANGED <<gen, attempts>>
          /\ status' = [status EXCEPT ![q] = o]
      BY <1>2 DEF Complete, HoldsLease
    <2>2. [r \in Runs |-> PhaseOf(status'[r])]
            = [[r \in Runs |-> PhaseOf(status[r])] EXCEPT ![q] = "done"]
      BY <1>1, <2>1, PhaseValues DEF TypeOK, Outcome
    <2>3. [r \in Runs |-> IF status'[r] \in Outcome THEN gen'[r] ELSE 0]
            = [[r \in Runs |-> IF status[r] \in Outcome THEN gen[r] ELSE 0]
                 EXCEPT ![q] = gen[q]]
      BY <1>1, <2>1 DEF TypeOK
    <2>4. \E j \in Runs : Abstract!Finish(j)
      BY <1>1, <2>1, <2>2, <2>3, PhaseValues DEF Abstract!Finish
    <2> QED
      BY <2>4
  <1>3. CASE ~HoldsLease(w, q)
    BY <1>3, SameView DEF Complete, row
  <1> QED
    BY <1>2, <1>3

\* A failure gives the job back, or buries it when its budget is spent.
LEMMA FailImplements ==
    ASSUME IInv, NEW w \in Workers, Fail(w)
    PROVE  \/ \E q \in Runs : Abstract!GiveBack(q) \/ Abstract!BuryAndLease({q}, {})
           \/ UNCHANGED Abstract!qvars
  <1> USE DEF IInv
  <1> DEFINE q == worker[w].run
  <1>1. q \in Runs
    BY ClaimedRun DEF Fail
  <1>2. CASE HoldsLease(w, q)
    <2>1. /\ status[q] = "running" /\ UNCHANGED <<gen, attempts>>
          /\ status' = [status EXCEPT ![q] = IF attempts[q] >= MaxAttempts
                                             THEN "dead_letter" ELSE "retry_wait"]
      BY <1>2 DEF Fail, BudgetSpent, HoldsLease
    <2>2. [r \in Runs |-> IF status'[r] \in Outcome THEN gen'[r] ELSE 0]
            = [r \in Runs |-> IF status[r] \in Outcome THEN gen[r] ELSE 0]
      BY <1>1, <2>1 DEF TypeOK, Outcome
    <2>3. CASE attempts[q] >= MaxAttempts
      <3>1. [r \in Runs |-> PhaseOf(status'[r])]
              = [r \in Runs |-> IF r \in {q} THEN "buried"
                                ELSE IF r \in {} THEN "leased" ELSE PhaseOf(status[r])]
        BY <2>1, <2>3, PhaseValues DEF TypeOK
      <3>2. Abstract!BuryAndLease({q}, {})
        BY <1>1, <2>1, <2>2, <2>3, <3>1, PhaseValues
           DEF Abstract!BuryAndLease, Abstract!Buriable, TypeOK
      <3> QED
        BY <1>1, <3>2
    <2>4. CASE ~(attempts[q] >= MaxAttempts)
      <3>1. [r \in Runs |-> PhaseOf(status'[r])]
              = [[r \in Runs |-> PhaseOf(status[r])] EXCEPT ![q] = "waiting"]
        BY <1>1, <2>1, <2>4, PhaseValues DEF TypeOK
      <3>2. Abstract!GiveBack(q)
        BY <1>1, <2>1, <2>2, <3>1, PhaseValues DEF Abstract!GiveBack
      <3> QED
        BY <1>1, <3>2
    <2> QED
      BY <2>3, <2>4
  <1>3. CASE ~HoldsLease(w, q)
    BY <1>3, SameView DEF Fail, row
  <1> QED
    BY <1>2, <1>3

\* The claim transaction buries what it swept and leases at most one run.
LEMMA ClaimImplements ==
    ASSUME IInv, NEW w \in Workers, Claim(w)
    PROVE  \E js \in SUBSET Runs :
             \E ls \in {{}} \cup {{j} : j \in Runs} : Abstract!BuryAndLease(js, ls)
  <1> USE MaxAttemptsAssumption, NoneAssumption DEF IInv
  <1> DEFINE S == worker[w].swept
  <1>1. S \in SUBSET Runs
    BY DEF TypeOK, WorkerState
  <1>2. \A r \in S : /\ status[r] = "running" /\ attempts[r] >= MaxAttempts
                     /\ rowLock[r] = w
    BY DEF WorkerMemory, Exhausted
  <1>3. \A r \in First : /\ r \in Runs /\ attempts[r] < MaxAttempts /\ rowLock[r] = None
                         /\ status[r] \in {"queued", "retry_wait", "running"}
    BY DEF First, Candidates, Claimable
  <1>4. First \in {{}} \cup {{j} : j \in Runs}
    <2>1. \A a, b \in First : a = b
      BY FirstIsUnique DEF First, Candidates
    <2>2. CASE First = {}
      BY <2>2
    <2>3. ASSUME NEW a \in First PROVE First = {a} /\ a \in Runs
      BY <2>1, <1>3
    <2> QED
      BY <2>2, <2>3
  <1>5. \A r \in S : r \notin First
    BY <1>2, <1>3
  <1>6. /\ status' = [r \in Runs |-> IF r \in S THEN "dead_letter"
                                     ELSE IF r \in First THEN "running" ELSE status[r]]
        /\ gen' = [r \in Runs |-> IF r \in First THEN gen[r] + 1 ELSE gen[r]]
        /\ attempts' = [r \in Runs |-> IF r \in First THEN attempts[r] + 1 ELSE attempts[r]]
    BY DEF Claim, NextGeneration
  <1>7. [r \in Runs |-> PhaseOf(status'[r])]
          = [r \in Runs |-> IF r \in S THEN "buried"
                            ELSE IF r \in First THEN "leased" ELSE PhaseOf(status[r])]
    BY <1>6, PhaseValues
  <1>8. [r \in Runs |-> IF status'[r] \in Outcome THEN gen'[r] ELSE 0]
          = [r \in Runs |-> IF status[r] \in Outcome THEN gen[r] ELSE 0]
    <2> SUFFICES ASSUME NEW r \in Runs
                 PROVE  (IF status'[r] \in Outcome THEN gen'[r] ELSE 0)
                          = (IF status[r] \in Outcome THEN gen[r] ELSE 0)
      OBVIOUS
    <2> QED
      BY <1>2, <1>3, <1>6 DEF Outcome
  <1>9. Abstract!BuryAndLease(S, First)
    BY <1>1, <1>2, <1>3, <1>6, <1>7, <1>8, PhaseValues
       DEF Abstract!BuryAndLease, Abstract!Buriable
  <1> QED
    BY <1>1, <1>4, <1>9

\* The promises of LeaseQueue (fencing tokens, one finish, burial only on a
\* spent budget, no change after the end) hold of the real queue.
THEOREM Refinement == Spec => RefinesLeaseQueue
  <1>1. ASSUME IInv, [Next]_vars
        PROVE  [Abstract!QNext]_(Abstract!qvars)
    <2> USE <1>1
    <2>1. CASE \E r \in Runs : Submit(r)
      BY <2>1, SubmitImplements DEF Abstract!QNext
    <2>2. CASE \E r \in Runs : LeaseExpires(r) \/ RetryComesDue(r)
      BY <2>2, SameView DEF LeaseExpires, RetryComesDue
    <2>3. CASE \E w \in Workers : Claim(w)
      BY <2>3, ClaimImplements DEF Abstract!QNext
    <2>4. CASE \E w \in Workers : \E o \in Outcome : Complete(w, o)
      BY <2>4, CompleteImplements DEF Abstract!QNext
    <2>5. CASE \E w \in Workers : Fail(w)
      BY <2>5, FailImplements DEF Abstract!QNext
    <2>6. ASSUME NEW w \in Workers,
                 Sweep(w) \/ ExecutorRaises(w) \/ BeginComplete(w)
                   \/ CompleteRaises(w) \/ Crash(w)
          PROVE  UNCHANGED Abstract!qvars
      BY <2>6, SameView DEF Sweep, ExecutorRaises, BeginComplete, CompleteRaises, Crash, row
    <2>7. CASE UNCHANGED vars
      BY <2>7, SameView DEF vars, row
    <2> QED
      BY <2>1, <2>2, <2>3, <2>4, <2>5, <2>6, <2>7 DEF Next, RunOnce
  <1> QED
    BY Inductive, InitImplements, <1>1, PTL DEF Spec, RefinesLeaseQueue, Abstract!QSpec

(***************************************************************************)
(* Publishing, submitting, listing and replaying (BacktestSubmission)      *)
(***************************************************************************)

-----------------------------------------------------------------------------
(* Orders *)

LEMMA GreatestId ==
    ASSUME NEW t \in SUBSET Int, IsFiniteSet(t), t # {}
    PROVE  Max(t) \in t /\ \A y \in t : Max(t) >= y
BY GreatestInt DEF Max

\* d lists a set of ids, each once, in an order.
Lists(d, ids, R) ==
    /\ d \in Seq(ids) /\ Len(d) = Cardinality(ids)
    /\ \A i \in ids : \E k \in 1..Len(d) : d[k] = i
    /\ \A k, l \in 1..Len(d) : k < l => <<d[k], d[l]>> \in R

Greater(ids) == {p \in ids \X ids : p[1] > p[2]}
Smaller(ids) == {p \in ids \X ids : p[1] < p[2]}

\* d has at every place the element of that place.
Ranks(d, D, R) ==
    /\ d = [k \in 1..Cardinality(D) |-> d[k]]
    /\ \A k \in 1..Cardinality(D) : d[k] \in D /\ Place(D, R, d[k]) = k

LEMMA RankedLists ==
    ASSUME NEW D, IsFiniteSet(D), NEW R, StrictOrder(R, D), NEW d, Ranks(d, D, R)
    PROVE  Lists(d, D, R)
<1> DEFINE n == Cardinality(D)
<1>1. /\ n \in Nat
      /\ \A i \in D : Place(D, R, i) \in 1..n
      /\ \A i, j \in D : <<i, j>> \in R => Place(D, R, i) < Place(D, R, j)
      /\ \A i, j \in D : Place(D, R, i) = Place(D, R, j) => i = j
  BY PlacesTaken DEF Placed
<1>2. d = [k \in 1..n |-> d[k]] /\ \A k \in 1..n : d[k] \in D /\ Place(D, R, d[k]) = k
  BY DEF Ranks
<1> HIDE DEF n
<1>3. d \in Seq(D) /\ Len(d) = n
  BY <1>1, <1>2
<1>4. \A i \in D : \E k \in 1..n : d[k] = i
  BY <1>1, <1>2
<1>5. \A k, l \in 1..n : k < l => <<d[k], d[l]>> \in R
  <2> SUFFICES ASSUME NEW k \in 1..n, NEW l \in 1..n, k < l PROVE <<d[k], d[l]>> \in R
    OBVIOUS
  <2>1. PICK i, j : i = d[k] /\ j = d[l]
    OBVIOUS
  <2>2. i \in D /\ j \in D /\ Place(D, R, i) = k /\ Place(D, R, j) = l
    BY <2>1, <1>2
  <2>3. i # j
    BY <2>2, <1>1
  <2>4. ~(<<j, i>> \in R)
    BY <2>2, <1>1
  <2> QED BY <2>1, <2>2, <2>3, <2>4 DEF StrictOrder
<1> QED BY <1>3, <1>4, <1>5 DEF Lists, n

LEMMA DescendingLists ==
    ASSUME NEW ids \in SUBSET Nat, IsFiniteSet(ids)
    PROVE  Lists(Descending(ids), ids, Greater(ids))
<1> DEFINE past(i) == {j \in ids : j > i}
           pick(k) == CHOOSE i \in ids : Cardinality(past(i)) = k - 1
<1>1. PICK R : R = Greater(ids)
  OBVIOUS
<1>2. StrictOrder(R, ids)
  BY <1>1 DEF StrictOrder, Greater
<1>3. \A m \in 1..Cardinality(ids) : \E i \in ids : Place(ids, R, i) = m
  <2>1. Placed(ids, R)
    BY <1>2, PlacesTaken
  <2> QED BY <2>1 DEF Placed
<1>4. \A i \in ids : {j \in ids : <<j, i>> \in R} = past(i)
  BY <1>1 DEF Greater
<1>5. \A i \in ids : Cardinality(past(i)) \in Nat
  <2>1. \A i \in ids : IsFiniteSet(past(i))
    BY FS_Subset
  <2> QED BY <2>1, FS_CardinalityType
<1>6. \A i \in ids, k \in 1..Cardinality(ids) :
        Cardinality(past(i)) = k - 1 <=> Place(ids, R, i) = k
  <2> TAKE i \in ids, k \in 1..Cardinality(ids)
  <2>1. PICK c : c = Cardinality(past(i))
    OBVIOUS
  <2>2. Place(ids, R, i) = c + 1 /\ c \in Nat
    BY <2>1, <1>4, <1>5 DEF Place
  <2>3. Cardinality(ids) \in Nat
    BY FS_CardinalityType
  <2> QED BY <2>1, <2>2, <2>3
<1> HIDE DEF past
<1>7. \A k \in 1..Cardinality(ids) : pick(k) \in ids /\ Place(ids, R, pick(k)) = k
  BY <1>3, <1>6
<1>8. Descending(ids) = [k \in 1..Cardinality(ids) |-> pick(k)]
  BY DEF Descending, past
<1> HIDE DEF pick
<1>9. Ranks(Descending(ids), ids, R)
  BY <1>7, <1>8 DEF Ranks
<1> QED BY <1>1, <1>2, <1>9, RankedLists

LEMMA AscendingLists ==
    ASSUME NEW ids \in SUBSET Nat, IsFiniteSet(ids)
    PROVE  Lists(Ascending(ids), ids, Smaller(ids))
<1> DEFINE past(i) == {j \in ids : j < i}
           pick(k) == CHOOSE i \in ids : Cardinality(past(i)) = k - 1
<1>1. PICK R : R = Smaller(ids)
  OBVIOUS
<1>2. StrictOrder(R, ids)
  BY <1>1 DEF StrictOrder, Smaller
<1>3. \A m \in 1..Cardinality(ids) : \E i \in ids : Place(ids, R, i) = m
  <2>1. Placed(ids, R)
    BY <1>2, PlacesTaken
  <2> QED BY <2>1 DEF Placed
<1>4. \A i \in ids : {j \in ids : <<j, i>> \in R} = past(i)
  BY <1>1 DEF Smaller
<1>5. \A i \in ids : Cardinality(past(i)) \in Nat
  <2>1. \A i \in ids : IsFiniteSet(past(i))
    BY FS_Subset
  <2> QED BY <2>1, FS_CardinalityType
<1>6. \A i \in ids, k \in 1..Cardinality(ids) :
        Cardinality(past(i)) = k - 1 <=> Place(ids, R, i) = k
  <2> TAKE i \in ids, k \in 1..Cardinality(ids)
  <2>1. PICK c : c = Cardinality(past(i))
    OBVIOUS
  <2>2. Place(ids, R, i) = c + 1 /\ c \in Nat
    BY <2>1, <1>4, <1>5 DEF Place
  <2>3. Cardinality(ids) \in Nat
    BY FS_CardinalityType
  <2> QED BY <2>1, <2>2, <2>3
<1> HIDE DEF past
<1>7. \A k \in 1..Cardinality(ids) : pick(k) \in ids /\ Place(ids, R, pick(k)) = k
  BY <1>3, <1>6
<1>8. Ascending(ids) = [k \in 1..Cardinality(ids) |-> pick(k)]
  BY DEF Ascending, past
<1> HIDE DEF pick
<1>9. Ranks(Ascending(ids), ids, R)
  BY <1>7, <1>8 DEF Ranks
<1> QED BY <1>1, <1>2, <1>9, RankedLists

-----------------------------------------------------------------------------
(* Keys, locks and answers *)

\* The variables that are arrays over the threads.
PerThread ==
    /\ pc = [t \in Threads |-> pc[t]] /\ todo = [t \in Threads |-> todo[t]]
    /\ locks = [t \in Threads |-> locks[t]] /\ inserted = [t \in Threads |-> inserted[t]]
    /\ page = [t \in Threads |-> page[t]]

\* pg_advisory_xact_lock: no two transactions have the same lock.
Exclusive == \A t, u \in Threads : t # u => locks[t] \cap locks[u] = {}

\* A table of the store, as its constraints keep it.
TableOK(rows) ==
    /\ IsFiniteSet(rows)
    /\ \A r \in rows : r.id \in Nat \ {0}
    /\ \A r, q \in rows : r.key = q.key => r = q

TablesOK ==
    /\ TableOK(strategies) /\ TableOK(versions) /\ TableOK(runs)
    /\ nextId = [strategies |-> nextId.strategies, versions |-> nextId.versions,
                 runs |-> nextId.runs]
    /\ nextId.strategies \in Nat \ {0} /\ nextId.versions \in Nat \ {0} /\ nextId.runs \in Nat \ {0}
    /\ \A v \in versions : v.version \in Nat \ {0} /\ v.id < nextId.versions
    /\ InOrder(versions)

\* The thread has the lock of its request's key, and nobody has used the key.
Reserved(t, name, rows) ==
    /\ <<name, Job(t).key>> \in locks[t]
    /\ \A r \in rows : r.key # Job(t).key

\* The requests that store a run.
StoresRun == {"run", "persist"}

\* The row it has inserted is the one its request asks for.
Pending(t, table, ops, name, rows) ==
    /\ inserted[t].table = table /\ inserted[t].id \in Nat \ {0}
    /\ inserted[t].key = Job(t).key /\ inserted[t].hash = RequestHash(Job(t))
    /\ Job(t).op \in ops
    /\ Reserved(t, name, rows)

\* v comes after every version of its strategy.
NextVersion(v, rows) ==
    /\ v.version \in Nat \ {0}
    /\ \A w \in rows : w.strategy = v.strategy => w.version < v.version /\ w.id < v.id
    /\ \A n \in 1..(v.version - 1) : \E w \in rows : w.strategy = v.strategy /\ w.version = n

PendingVersion(t) ==
    /\ Pending(t, "versions", {"publish"}, "strategy-version", versions)
    /\ <<"strategy-version-sequence", inserted[t].strategy>> \in locks[t]
    /\ NextVersion(inserted[t], versions)
    /\ inserted[t].id < nextId.versions

\* Where a thread may be, and what it has there.
Thread(t) ==
    /\ pc[t] \in {"idle", "key", "sequence", "input", "commit", "page"}
    /\ pc[t] \in {"idle", "key", "page"} => locks[t] = {}
    /\ pc[t] # "commit" => inserted[t] = NoRow
    /\ pc[t] = "key" => Job(t).op = "publish"
    /\ pc[t] = "sequence" => Job(t).op = "publish" /\ Reserved(t, "strategy-version", versions)
    /\ pc[t] = "input" => Job(t).op = "run" /\ Reserved(t, "backtest-run", runs)
    /\ pc[t] = "commit" =>
         \/ Pending(t, "strategies", {"create"}, "strategy-definition", strategies)
         \/ PendingVersion(t)
         \/ Pending(t, "runs", StoresRun, "backtest-run", runs)

\* An answer tells of a row that is there, of the key and for the request.
Stored(a, rows) ==
    \E r \in rows : r.key = a.job.key /\ r.id = a.id /\ r.hash = RequestHash(a.job)
Told(a) ==
    \/ a.job.op = "create" /\ Stored(a, strategies)
    \/ a.job.op = "publish" /\ Stored(a, versions)
    \/ a.job.op \in StoresRun /\ Stored(a, runs)

StoreInv ==
    /\ PerThread /\ Exclusive /\ TablesOK
    /\ \A t \in Threads : Thread(t)
    /\ \A a \in answers : Told(a)

LEMMA StoreInvAnswers == StoreInv => AnswersMatchRequests
<1> SUFFICES ASSUME StoreInv, NEW a \in answers, NEW b \in answers,
                    a.job.op = b.job.op, a.job.key = b.job.key
             PROVE  a.id = b.id /\ RequestHash(a.job) = RequestHash(b.job)
  BY DEF AnswersMatchRequests
<1>1. Told(a) /\ Told(b)
  BY DEF StoreInv
<1>2. PICK rows : TableOK(rows) /\ Stored(a, rows) /\ Stored(b, rows)
  BY <1>1 DEF Told, StoreInv, TablesOK, StoresRun
<1> QED BY <1>2 DEF Stored, TableOK

LEMMA StoreInvOrder == StoreInv => VersionsInOrder
BY DEF StoreInv, TablesOK, VersionsInOrder

-----------------------------------------------------------------------------
(* What a step leaves alone *)

\* The tables grow, by rows whose locks the thread does not have.
GrowBeside(u) ==
    /\ versions \subseteq versions' /\ nextId'.versions \in Nat
    /\ nextId.versions <= nextId'.versions
    /\ \A r \in strategies' \ strategies : <<"strategy-definition", r.key>> \notin locks[u]
    /\ \A r \in versions' \ versions :
          /\ <<"strategy-version", r.key>> \notin locks[u]
          /\ <<"strategy-version-sequence", r.strategy>> \notin locks[u]
    /\ \A r \in runs' \ runs : <<"backtest-run", r.key>> \notin locks[u]

LEMMA ThreadKept ==
    ASSUME NEW u \in Threads, Thread(u), TablesOK, GrowBeside(u),
           pc'[u] = pc[u], todo'[u] = todo[u], locks'[u] = locks[u], inserted'[u] = inserted[u]
    PROVE  Thread(u)'
<1>1. Job(u)' = Job(u)
  BY DEF Job
<1>2. Reserved(u, "strategy-version", versions) => Reserved(u, "strategy-version", versions)'
  BY <1>1 DEF Reserved, GrowBeside
<1>3. Reserved(u, "backtest-run", runs) => Reserved(u, "backtest-run", runs)'
  BY <1>1 DEF Reserved, GrowBeside
<1>4. Reserved(u, "strategy-definition", strategies) => Reserved(u, "strategy-definition", strategies)'
  BY <1>1 DEF Reserved, GrowBeside
<1>5. Pending(u, "strategies", {"create"}, "strategy-definition", strategies)
        => Pending(u, "strategies", {"create"}, "strategy-definition", strategies)'
  BY <1>1, <1>4 DEF Pending
<1>6. Pending(u, "runs", StoresRun, "backtest-run", runs) => Pending(u, "runs", StoresRun, "backtest-run", runs)'
  BY <1>1, <1>3 DEF Pending
<1>7. ASSUME PendingVersion(u) PROVE PendingVersion(u)'
  <2>1. PICK v : v = inserted[u]
    OBVIOUS
  <2>2. NextVersion(v, versions) /\ <<"strategy-version-sequence", v.strategy>> \in locks[u]
        /\ v.id \in Nat /\ v.id < nextId.versions
    BY <1>7, <2>1 DEF PendingVersion, Pending
  <2>3. PICK V : V = versions'
    OBVIOUS
  <2>4. versions \subseteq V /\ \A w \in V \ versions : w.strategy # v.strategy
    BY <2>2, <2>3 DEF GrowBeside
  <2>5. NextVersion(v, V)
    BY <2>2, <2>4 DEF NextVersion
  <2>6. v.id < nextId'.versions
    BY <2>2 DEF GrowBeside, TablesOK
  <2>7. Pending(u, "versions", {"publish"}, "strategy-version", versions)'
    BY <1>1, <1>2, <1>7 DEF PendingVersion, Pending
  <2> QED BY <2>1, <2>2, <2>3, <2>5, <2>6, <2>7 DEF PendingVersion
<1> QED BY <1>1, <1>2, <1>3, <1>5, <1>6, <1>7 DEF Thread

LEMMA NothingGrows ==
    ASSUME TablesOK, UNCHANGED <<strategies, versions, runs>>,
           nextId'.versions \in Nat, nextId.versions <= nextId'.versions, NEW u \in Threads
    PROVE  GrowBeside(u)
BY DEF GrowBeside

\* Only the thread t changes what is its own.
OnlyThread(t) ==
    /\ pc' = [u \in Threads |-> pc'[u]] /\ todo' = [u \in Threads |-> todo'[u]]
    /\ locks' = [u \in Threads |-> locks'[u]] /\ inserted' = [u \in Threads |-> inserted'[u]]
    /\ page' = [u \in Threads |-> page'[u]]
    /\ \A u \in Threads \ {t} :
          pc'[u] = pc[u] /\ todo'[u] = todo[u] /\ locks'[u] = locks[u] /\ inserted'[u] = inserted[u]

(* What a step has to show: the thread it is of, and the tables. *)
LEMMA StoreInvKept ==
    ASSUME StoreInv, NEW t \in Threads, OnlyThread(t), Thread(t)',
           \A u \in Threads \ {t} : GrowBeside(u) /\ locks'[t] \cap locks[u] = {},
           TablesOK', \A a \in answers' : Told(a)'
    PROVE  StoreInv'
<1>1. \A u \in Threads : Thread(u)'
  <2> TAKE u \in Threads
  <2>1. CASE u = t
    BY <2>1
  <2>2. CASE u # t
    BY <2>2, ThreadKept DEF StoreInv, OnlyThread
  <2> QED BY <2>1, <2>2
<1>2. Exclusive'
  <2> SUFFICES ASSUME NEW u \in Threads, NEW v \in Threads, u # v
               PROVE  locks'[u] \cap locks'[v] = {}
    BY DEF Exclusive
  <2>1. CASE u = t
    BY <2>1 DEF OnlyThread
  <2>2. CASE v = t
    BY <2>2 DEF OnlyThread
  <2>3. CASE u # t /\ v # t
    BY <2>3 DEF OnlyThread, StoreInv, Exclusive
  <2> QED BY <2>1, <2>2, <2>3
<1>3. PerThread'
  BY DEF PerThread, OnlyThread
<1> QED BY <1>1, <1>2, <1>3 DEF StoreInv

-----------------------------------------------------------------------------
(* The steps of the store *)

LEMMA EndIsOnlyThread ==
    ASSUME PerThread, NEW t \in Threads, EndTransaction(t), page' = [u \in Threads |-> page'[u]]
    PROVE  /\ OnlyThread(t)
           /\ pc'[t] = "idle" /\ locks'[t] = {} /\ inserted'[t] = NoRow /\ Thread(t)'
<1>1. /\ todo' = [todo EXCEPT ![t] = Tail(todo[t])] /\ pc' = [pc EXCEPT ![t] = "idle"]
      /\ locks' = [locks EXCEPT ![t] = {}] /\ inserted' = [inserted EXCEPT ![t] = NoRow]
  BY DEF EndTransaction
<1>2. /\ todo' = [u \in Threads |-> todo'[u]] /\ \A u \in Threads \ {t} : todo'[u] = todo[u]
      /\ pc' = [u \in Threads |-> pc'[u]] /\ \A u \in Threads \ {t} : pc'[u] = pc[u]
  BY <1>1 DEF PerThread
<1>3. /\ locks' = [u \in Threads |-> locks'[u]] /\ \A u \in Threads \ {t} : locks'[u] = locks[u]
      /\ inserted' = [u \in Threads |-> inserted'[u]]
      /\ \A u \in Threads \ {t} : inserted'[u] = inserted[u]
  BY <1>1 DEF PerThread
<1>4. pc'[t] = "idle" /\ locks'[t] = {} /\ inserted'[t] = NoRow
  BY <1>1 DEF PerThread
<1>5. Thread(t)'
  BY <1>4 DEF Thread
<1> QED BY <1>2, <1>3, <1>4, <1>5 DEF OnlyThread

LEMMA TablesSame ==
    ASSUME TablesOK, UNCHANGED <<strategies, versions, runs, nextId>>
    PROVE  TablesOK' /\ \A u \in Threads : GrowBeside(u)
<1>1. TablesOK'
  BY DEF TablesOK
<1>2. \A u \in Threads : GrowBeside(u)
  BY DEF GrowBeside, TablesOK
<1> QED BY <1>1, <1>2

\* Only identity columns move.
Numbered ==
    /\ UNCHANGED <<strategies, versions, runs>>
    /\ nextId' = [strategies |-> nextId'.strategies, versions |-> nextId'.versions,
                  runs |-> nextId'.runs]
    /\ nextId'.strategies \in Nat \ {0} /\ nextId'.versions \in Nat \ {0}
    /\ nextId'.runs \in Nat \ {0} /\ nextId.versions <= nextId'.versions

LEMMA NumberedTables ==
    ASSUME TablesOK, Numbered
    PROVE  TablesOK' /\ \A u \in Threads : GrowBeside(u)
<1>1. \A v \in versions : v.id < nextId'.versions
  <2> SUFFICES ASSUME NEW v \in versions PROVE v.id < nextId'.versions
    OBVIOUS
  <2>1. v.id \in Nat /\ v.id < nextId.versions /\ nextId.versions \in Nat
    BY DEF TablesOK, TableOK
  <2>2. nextId'.versions \in Nat /\ nextId.versions <= nextId'.versions
    BY DEF Numbered
  <2> QED BY <2>1, <2>2
<1>2. TablesOK'
  BY <1>1 DEF TablesOK, Numbered
<1>3. \A u \in Threads : GrowBeside(u)
  BY DEF GrowBeside, Numbered
<1> QED BY <1>2, <1>3

\* The transaction ends without a trace in the tables.
LEMMA EndKeeps ==
    ASSUME StoreInv, NEW t \in Threads, EndTransaction(t),
           page' = [u \in Threads |-> page'[u]], Numbered, \A a \in answers' : Told(a)
    PROVE  StoreInv'
<1>1. /\ OnlyThread(t) /\ Thread(t)' /\ locks'[t] = {}
  BY EndIsOnlyThread DEF StoreInv
<1>2. TablesOK' /\ \A u \in Threads : GrowBeside(u)
  BY NumberedTables DEF StoreInv
<1>3. \A a \in answers' : Told(a)'
  BY DEF Told, Numbered
<1> QED BY <1>1, <1>2, <1>3, StoreInvKept

LEMMA SameNumbers ==
    ASSUME StoreInv, UNCHANGED <<strategies, versions, runs, nextId>>
    PROVE  Numbered
BY DEF StoreInv, TablesOK, Numbered

\* An answer given again is one of a row that is there.
LEMMA AgainIsTold ==
    ASSUME \A a \in answers : Told(a), NEW t \in Threads, NEW r, AnswerAgain(t, r),
           r.key = Job(t).key,
           \/ Job(t).op = "create" /\ r \in strategies
           \/ Job(t).op = "publish" /\ r \in versions
           \/ Job(t).op \in StoresRun /\ r \in runs
    PROVE  EndTransaction(t) /\ \A a \in answers' : Told(a)
<1>1. EndTransaction(t)
  BY DEF AnswerAgain
<1>2. CASE r.hash = RequestHash(Job(t))
  <2>1. PICK b : b = [job |-> Job(t), id |-> r.id]
    OBVIOUS
  <2>2. answers' = answers \cup {b}
    BY <1>2, <2>1 DEF AnswerAgain, Answer
  <2>3. b.job = Job(t) /\ b.id = r.id
    BY <2>1
  <2>4. Told(b)
    BY <1>2, <2>3 DEF Told, Stored
  <2> QED BY <1>1, <2>2, <2>4
<1>3. CASE r.hash # RequestHash(Job(t))
  BY <1>1, <1>3 DEF AnswerAgain
<1> QED BY <1>2, <1>3

\* A thread goes on: it gets locks nobody else has, and a row or none.
GoesOn(t, q, L, entry) ==
    /\ pc' = [pc EXCEPT ![t] = q] /\ locks' = [locks EXCEPT ![t] = L]
    /\ inserted' = [inserted EXCEPT ![t] = entry]
    /\ UNCHANGED <<todo, page>>
    /\ \A u \in Threads \ {t} : L \cap locks[u] = {}

LEMMA GoneOn ==
    ASSUME PerThread, NEW t \in Threads, NEW q, NEW L, NEW entry, GoesOn(t, q, L, entry)
    PROVE  /\ OnlyThread(t)
           /\ pc'[t] = q /\ locks'[t] = L /\ inserted'[t] = entry /\ Job(t)' = Job(t)
           /\ \A u \in Threads \ {t} : locks'[t] \cap locks[u] = {}
<1>1. /\ pc' = [pc EXCEPT ![t] = q] /\ locks' = [locks EXCEPT ![t] = L]
      /\ inserted' = [inserted EXCEPT ![t] = entry] /\ todo' = todo /\ page' = page
      /\ \A u \in Threads \ {t} : L \cap locks[u] = {}
  BY DEF GoesOn
<1>2. pc' = [u \in Threads |-> pc'[u]] /\ pc'[t] = q /\ \A u \in Threads \ {t} : pc'[u] = pc[u]
  BY <1>1 DEF PerThread
<1>3. locks' = [u \in Threads |-> locks'[u]] /\ locks'[t] = L
      /\ \A u \in Threads \ {t} : locks'[u] = locks[u]
  BY <1>1 DEF PerThread
<1>4. inserted' = [u \in Threads |-> inserted'[u]] /\ inserted'[t] = entry
      /\ \A u \in Threads \ {t} : inserted'[u] = inserted[u]
  BY <1>1 DEF PerThread
<1>5. Job(t)' = Job(t)
  BY <1>1 DEF Job
<1>6. todo' = [u \in Threads |-> todo'[u]] /\ page' = [u \in Threads |-> page'[u]]
      /\ \A u \in Threads \ {t} : todo'[u] = todo[u]
  BY <1>1 DEF PerThread
<1> QED BY <1>1, <1>2, <1>3, <1>4, <1>5, <1>6 DEF OnlyThread

\* A thread goes on, and only an identity column moves.
LEMMA GoOnKeeps ==
    ASSUME StoreInv, NEW t \in Threads, NEW q, NEW L, NEW entry, GoesOn(t, q, L, entry),
           Numbered, UNCHANGED answers, Thread(t)'
    PROVE  StoreInv'
<1>1. OnlyThread(t) /\ \A u \in Threads \ {t} : locks'[t] \cap locks[u] = {}
  BY GoneOn DEF StoreInv
<1>2. TablesOK' /\ \A u \in Threads : GrowBeside(u)
  BY NumberedTables DEF StoreInv
<1>3. \A a \in answers' : Told(a)'
  BY DEF Told, Numbered, StoreInv
<1> QED BY <1>1, <1>2, <1>3, StoreInvKept

LEMMA CreateStrategyKeeps ==
    ASSUME StoreInv, NEW t \in Threads, CreateStrategy(t), UNCHANGED runs
    PROVE  StoreInv'
<1> DEFINE job == Job(t)
           old == WithKey(strategies, job.key)
<1>1. UNCHANGED <<strategies, versions, page>> /\ pc[t] = "idle" /\ job.op = "create"
  BY DEF CreateStrategy
<1>2. PerThread /\ TablesOK /\ Thread(t) /\ \A a \in answers : Told(a)
  BY DEF StoreInv
<1>3. CASE \E r \in old : AnswerAgain(t, r) /\ UNCHANGED nextId
  <2>1. PICK r \in old : AnswerAgain(t, r) /\ UNCHANGED nextId
    BY <1>3
  <2>2. r \in strategies /\ r.key = Job(t).key
    BY DEF WithKey
  <2>3. EndTransaction(t) /\ \A a \in answers' : Told(a)
    BY <1>1, <1>2, <2>1, <2>2, AgainIsTold DEF StoresRun
  <2>4. page' = [u \in Threads |-> page'[u]]
    BY <1>1, <1>2 DEF PerThread
  <2> QED BY <1>1, <2>1, <2>3, <2>4, EndKeeps, SameNumbers
<1>4. CASE /\ old = {}
           /\ locks' = [locks EXCEPT ![t] = {<<"strategy-definition", job.key>>}]
           /\ inserted' = [inserted EXCEPT ![t] =
                 [table |-> "strategies", id |-> nextId.strategies, key |-> job.key,
                  hash |-> RequestHash(job)]]
           /\ nextId' = [nextId EXCEPT !.strategies = @ + 1]
           /\ pc' = [pc EXCEPT ![t] = "commit"]
           /\ UNCHANGED <<todo, answers>>
           /\ \A u \in Threads \ {t} : <<"strategy-definition", job.key>> \notin locks[u]
  <2>1. PICK L, entry : /\ L = {<<"strategy-definition", job.key>>}
                      /\ entry = [table |-> "strategies", id |-> nextId.strategies,
                                key |-> job.key, hash |-> RequestHash(job)]
    OBVIOUS
  <2>2. GoesOn(t, "commit", L, entry)
    BY <1>1, <1>4, <2>1 DEF GoesOn
  <2>3. /\ pc'[t] = "commit" /\ locks'[t] = L /\ inserted'[t] = entry /\ Job(t)' = job
    BY <1>2, <2>2, GoneOn
  <2>4. /\ entry.table = "strategies" /\ entry.id = nextId.strategies /\ entry.key = job.key
        /\ entry.hash = RequestHash(job)
    BY <2>1
  <2>5. \A r \in strategies : r.key # job.key
    BY <1>4 DEF WithKey
  <2>6. RequestHash(Job(t))' = RequestHash(job)
    BY <2>3 DEF RequestHash
  <2>7. Pending(t, "strategies", {"create"}, "strategy-definition", strategies)'
    BY <1>1, <1>2, <2>1, <2>3, <2>4, <2>5, <2>6 DEF Pending, Reserved, TablesOK
  <2>8. Thread(t)'
    BY <2>3, <2>7 DEF Thread
  <2>9. Numbered
    BY <1>1, <1>2, <1>4 DEF Numbered, TablesOK
  <2> QED BY <1>4, <2>2, <2>8, <2>9, GoOnKeeps
<1> QED BY <1>3, <1>4 DEF CreateStrategy

LEMMA ValidateKeeps ==
    ASSUME StoreInv, NEW t \in Threads, Validate(t), UNCHANGED runs
    PROVE  StoreInv'
<1>1. UNCHANGED <<strategies, versions, nextId, answers, page>> /\ pc[t] = "idle"
      /\ Job(t).op = "publish"
  BY DEF Validate
<1>2. PerThread /\ Thread(t) /\ \A a \in answers : Told(a)
  BY DEF StoreInv
<1>3. CASE EndTransaction(t)
  <2>1. page' = [u \in Threads |-> page'[u]] /\ \A a \in answers' : Told(a)
    BY <1>1, <1>2 DEF PerThread
  <2> QED BY <1>1, <1>3, <2>1, EndKeeps, SameNumbers
<1>4. CASE pc' = [pc EXCEPT ![t] = "key"] /\ UNCHANGED <<todo, locks, inserted>>
  <2>1. PICK L, entry : L = locks[t] /\ entry = inserted[t]
    OBVIOUS
  <2>2. L = {} /\ entry = NoRow
    BY <1>1, <1>2, <2>1 DEF Thread
  <2>3. GoesOn(t, "key", L, entry)
    BY <1>1, <1>2, <1>4, <2>1, <2>2 DEF GoesOn, PerThread
  <2>4. pc'[t] = "key" /\ locks'[t] = L /\ inserted'[t] = entry /\ Job(t)' = Job(t)
    BY <1>2, <2>3, GoneOn
  <2>5. Thread(t)'
    BY <1>1, <2>2, <2>4 DEF Thread
  <2>6. Numbered
    BY <1>1, SameNumbers
  <2> QED BY <1>1, <2>3, <2>5, <2>6, GoOnKeeps
<1> QED BY <1>3, <1>4 DEF Validate

LEMMA PublishKeyKeeps ==
    ASSUME StoreInv, NEW t \in Threads, PublishKey(t), UNCHANGED runs
    PROVE  StoreInv'
<1> DEFINE job == Job(t)
           old == WithKey(versions, job.key)
<1>1. UNCHANGED <<strategies, versions, nextId, page>> /\ pc[t] = "key"
  BY DEF PublishKey
<1>2. PerThread /\ Thread(t) /\ \A a \in answers : Told(a)
  BY DEF StoreInv
<1>3. job.op = "publish" /\ locks[t] = {} /\ inserted[t] = NoRow
  BY <1>1, <1>2 DEF Thread
<1>4. page' = [u \in Threads |-> page'[u]]
  BY <1>1, <1>2 DEF PerThread
<1>5. CASE \E r \in old : AnswerAgain(t, r)
  <2>1. PICK r \in old : AnswerAgain(t, r)
    BY <1>5
  <2>2. r \in versions /\ r.key = Job(t).key
    BY DEF WithKey
  <2>3. EndTransaction(t) /\ \A a \in answers' : Told(a)
    BY <1>2, <1>3, <2>1, <2>2, AgainIsTold
  <2> QED BY <1>1, <1>4, <2>3, EndKeeps, SameNumbers
<1>6. CASE EndTransaction(t) /\ UNCHANGED answers
  BY <1>1, <1>2, <1>4, <1>6, EndKeeps, SameNumbers
<1>7. CASE /\ old = {} /\ Grab(t, <<"strategy-version", job.key>>)
           /\ pc' = [pc EXCEPT ![t] = "sequence"] /\ UNCHANGED <<todo, inserted, answers>>
  <2>1. PICK L : L = {<<"strategy-version", job.key>>}
    OBVIOUS
  <2>2. locks' = [locks EXCEPT ![t] = L] /\ \A u \in Threads \ {t} : L \cap locks[u] = {}
    BY <1>3, <1>7, <2>1 DEF Grab
  <2>3. inserted' = [inserted EXCEPT ![t] = NoRow]
    BY <1>2, <1>3, <1>7 DEF PerThread
  <2>4. GoesOn(t, "sequence", L, NoRow)
    BY <1>1, <1>7, <2>2, <2>3 DEF GoesOn
  <2>5. pc'[t] = "sequence" /\ locks'[t] = L /\ inserted'[t] = NoRow /\ Job(t)' = job
    BY <1>2, <2>4, GoneOn
  <2>6. Reserved(t, "strategy-version", versions)'
    BY <1>1, <1>7, <2>1, <2>5 DEF Reserved, WithKey
  <2>7. Thread(t)'
    BY <1>3, <2>5, <2>6 DEF Thread
  <2>8. Numbered
    BY <1>1, SameNumbers
  <2> QED BY <1>7, <2>4, <2>7, <2>8, GoOnKeeps
<1> QED BY <1>5, <1>6, <1>7 DEF PublishKey

(* The number read under the sequence lock is the next one. *)
LEMMA MaxVersionIsLast ==
    ASSUME TablesOK, NEW s
    PROVE  /\ MaxVersion(s) \in Nat
           /\ \A w \in versions : w.strategy = s => w.version <= MaxVersion(s)
           /\ \A n \in 1..MaxVersion(s) : \E w \in versions : w.strategy = s /\ w.version = n
<1>1. CASE Siblings(s) = {}
  <2>1. MaxVersion(s) = 0
    BY <1>1 DEF MaxVersion
  <2> QED BY <1>1, <2>1 DEF Siblings
<1>2. CASE Siblings(s) # {}
  <2>1. PICK f : f = [v \in versions |-> v.version]
    OBVIOUS
  <2>2. PICK S : S = Siblings(s)
    OBVIOUS
  <2>3. S \subseteq versions /\ S # {} /\ S = {v \in versions : v.strategy = s}
    BY <1>2, <2>2 DEF Siblings
  <2>4. IsFiniteSet(S)
    BY <2>3, FS_Subset DEF TablesOK, TableOK
  <2>5. PICK N : N = {f[v] : v \in S}
    OBVIOUS
  <2>6. IsFiniteSet(N)
    BY <2>4, <2>5, ImageFinite
  <2>7. \A v \in S : f[v] = v.version /\ f[v] \in Nat \ {0}
    BY <2>1, <2>3 DEF TablesOK
  <2>8. N = {v.version : v \in S}
    BY <2>5, <2>7
  <2>9. N \in SUBSET Int /\ N # {}
    BY <2>3, <2>5, <2>7
  <2>10. Max(N) \in N /\ \A y \in N : Max(N) >= y
    BY <2>6, <2>9, GreatestId
  <2>11. MaxVersion(s) = Max(N)
    BY <1>2, <2>2, <2>8 DEF MaxVersion
  <2>12. PICK m : m = Max(N)
    OBVIOUS
  <2>13. PICK v \in S : m = v.version /\ m \in Nat \ {0}
    BY <2>5, <2>7, <2>10, <2>12
  <2>14. \A w \in versions : w.strategy = s => w.version <= m
    <3> SUFFICES ASSUME NEW w \in versions, w.strategy = s PROVE w.version <= m
      OBVIOUS
    <3>1. w \in S
      BY <2>3
    <3>2. f[w] \in N /\ f[w] = w.version /\ w.version \in Nat
      BY <3>1, <2>5, <2>7
    <3> QED BY <3>2, <2>10, <2>12, <2>13
  <2>15. \A n \in 1..m : \E w \in versions : w.strategy = s /\ w.version = n
    <3>1. v \in versions /\ v.strategy = s
      BY <2>3
    <3> QED BY <3>1, <2>13 DEF TablesOK, InOrder
  <2> QED BY <2>11, <2>12, <2>13, <2>14, <2>15
<1> QED BY <1>1, <1>2

LEMMA PublishNumberKeeps ==
    ASSUME StoreInv, NEW t \in Threads, PublishNumber(t), UNCHANGED runs
    PROVE  StoreInv'
<1> DEFINE job == Job(t)
<1>1. UNCHANGED <<strategies, versions, answers, page>> /\ pc[t] = "sequence"
  BY DEF PublishNumber
<1>2. PerThread /\ TablesOK /\ Thread(t) /\ \A a \in answers : Told(a)
  BY DEF StoreInv
<1>3. job.op = "publish" /\ Reserved(t, "strategy-version", versions)
  BY <1>1, <1>2 DEF Thread
<1>6. Numbered
  <2>1. nextId' = [nextId EXCEPT !.versions = @ + 1]
    BY DEF PublishNumber
  <2> QED BY <1>1, <1>2, <2>1 DEF Numbered, TablesOK
<1>4. CASE EndTransaction(t)
  <2>1. page' = [u \in Threads |-> page'[u]] /\ \A a \in answers' : Told(a)
    BY <1>1, <1>2 DEF PerThread
  <2> QED BY <1>4, <1>6, <2>1, EndKeeps
<1>5. CASE /\ GrabSequence(t, job.strategy)
           /\ inserted' = [inserted EXCEPT ![t] =
                   [table |-> "versions", id |-> nextId.versions, key |-> job.key,
                    hash |-> RequestHash(job), strategy |-> job.strategy,
                    version |-> MaxVersion(job.strategy) + 1,
                    graph |-> job.graph, graphHash |-> GraphHash(job.graph)]]
           /\ pc' = [pc EXCEPT ![t] = "commit"]
           /\ UNCHANGED todo
  <2>1. PICK s, m, L, entry :
          /\ s = job.strategy /\ m = MaxVersion(s)
          /\ L = locks[t] \cup {<<"strategy-version-sequence", s>>}
          /\ entry = [table |-> "versions", id |-> nextId.versions, key |-> job.key,
                    hash |-> RequestHash(job), strategy |-> s, version |-> m + 1,
                    graph |-> job.graph, graphHash |-> GraphHash(job.graph)]
    OBVIOUS
  <2>2. /\ entry.table = "versions" /\ entry.id = nextId.versions /\ entry.key = job.key
        /\ entry.hash = RequestHash(job) /\ entry.strategy = s /\ entry.version = m + 1
    BY <2>1
  <2>3. GoesOn(t, "commit", L, entry)
    <3>1. \A u \in Threads \ {t} : L \cap locks[u] = {}
      BY <1>5, <2>1 DEF GrabSequence, Grab, StoreInv, Exclusive
    <3> QED BY <1>1, <1>5, <2>1, <3>1 DEF GoesOn, GrabSequence, Grab
  <2>4. /\ pc'[t] = "commit" /\ locks'[t] = L /\ inserted'[t] = entry /\ Job(t)' = job
    BY <1>2, <2>3, GoneOn
  <2>5. RequestHash(Job(t))' = RequestHash(job)
    BY <2>4 DEF RequestHash
  <2>6. Reserved(t, "strategy-version", versions)'
    BY <1>1, <1>3, <2>1, <2>4 DEF Reserved
  <2>7. nextId.versions \in Nat \ {0} /\ nextId'.versions = nextId.versions + 1
    <3>1. nextId' = [nextId EXCEPT !.versions = @ + 1]
      BY DEF PublishNumber
    <3> QED BY <1>2, <3>1 DEF TablesOK
  <2>8. Pending(t, "versions", {"publish"}, "strategy-version", versions)'
    BY <1>3, <2>2, <2>4, <2>5, <2>6, <2>7 DEF Pending
  <2>9. NextVersion(entry, versions)
    <3>1. /\ m \in Nat /\ \A w \in versions : w.strategy = s => w.version <= m
          /\ \A n \in 1..m : \E w \in versions : w.strategy = s /\ w.version = n
      BY <1>2, <2>1, MaxVersionIsLast
    <3>2. \A w \in versions : w.version \in Nat /\ w.id \in Nat /\ w.id < nextId.versions
      BY <1>2 DEF TablesOK, TableOK
    <3>3. entry.version \in Nat \ {0} /\ entry.version - 1 = m
      BY <2>2, <3>1
    <3>4. \A w \in versions : w.strategy = entry.strategy => w.version < entry.version /\ w.id < entry.id
      BY <2>2, <2>7, <3>1, <3>2
    <3> QED BY <2>2, <3>1, <3>3, <3>4 DEF NextVersion
  <2>10. PendingVersion(t)'
    BY <1>1, <2>1, <2>2, <2>4, <2>7, <2>8, <2>9 DEF PendingVersion
  <2>11. Thread(t)'
    BY <2>4, <2>10 DEF Thread
  <2> QED BY <1>1, <1>6, <2>3, <2>11, GoOnKeeps
<1> QED BY <1>4, <1>5 DEF PublishNumber

(* A row of a new key keeps a table in order. *)
LEMMA TableGrows ==
    ASSUME NEW rows, TableOK(rows), NEW entry, entry.id \in Nat \ {0}, \A r \in rows : r.key # entry.key
    PROVE  TableOK(rows \cup {entry})
<1>1. IsFiniteSet(rows \cup {entry})
  BY FS_AddElement DEF TableOK
<1> QED BY <1>1 DEF TableOK

(* The next version keeps the numbers in order. *)
LEMMA OrderGrows ==
    ASSUME NEW rows, InOrder(rows), \A v \in rows : v.version \in Nat \ {0} /\ v.id \in Nat,
           NEW entry, entry.id \in Nat, NextVersion(entry, rows)
    PROVE  InOrder(rows \cup {entry})
<1>1. /\ entry.version \in Nat \ {0}
      /\ \A w \in rows : w.strategy = entry.strategy => w.version < entry.version /\ w.id < entry.id
      /\ \A n \in 1..(entry.version - 1) : \E w \in rows : w.strategy = entry.strategy /\ w.version = n
  BY DEF NextVersion
<1> SUFFICES ASSUME NEW v \in rows \cup {entry}
             PROVE  /\ \A n \in 1..v.version :
                         \E w \in rows \cup {entry} : w.strategy = v.strategy /\ w.version = n
                    /\ \A w \in rows \cup {entry} :
                         w.strategy = v.strategy => (w.id < v.id <=> w.version < v.version)
  BY DEF InOrder
<1>2. CASE v \in rows
  <2>1. \A n \in 1..v.version : \E w \in rows : w.strategy = v.strategy /\ w.version = n
    BY <1>2 DEF InOrder
  <2>2. \A w \in rows : w.strategy = v.strategy => (w.id < v.id <=> w.version < v.version)
    BY <1>2 DEF InOrder
  <2>3. entry.strategy = v.strategy => (entry.id < v.id <=> entry.version < v.version)
    BY <1>1, <1>2
  <2> QED BY <2>1, <2>2, <2>3
<1>3. CASE v = entry
  <2>1. \A n \in 1..entry.version : n \in 1..(entry.version - 1) \/ n = entry.version
    BY <1>1
  <2>2. \A n \in 1..entry.version : \E w \in rows \cup {entry} : w.strategy = entry.strategy /\ w.version = n
    BY <1>1, <2>1
  <2>3. \A w \in rows : w.strategy = entry.strategy => (w.id < entry.id <=> w.version < entry.version)
    BY <1>1
  <2>4. entry.id < entry.id <=> entry.version < entry.version
    BY <1>1
  <2> QED BY <1>3, <2>2, <2>3, <2>4
<1> QED BY <1>2, <1>3

(* The answer of a commit tells of the row that is committed. *)
LEMMA CommitIsTold ==
    ASSUME \A a \in answers : Told(a), NEW t \in Threads, Answer(Job(t), inserted[t].id),
           strategies \subseteq strategies', versions \subseteq versions', runs \subseteq runs',
           inserted[t].key = Job(t).key, inserted[t].hash = RequestHash(Job(t)),
           \/ Job(t).op = "create" /\ inserted[t] \in strategies'
           \/ Job(t).op = "publish" /\ inserted[t] \in versions'
           \/ Job(t).op \in StoresRun /\ inserted[t] \in runs'
    PROVE  \A a \in answers' : Told(a)'
<1>1. PICK b : b = [job |-> Job(t), id |-> inserted[t].id]
  OBVIOUS
<1>2. answers' = answers \cup {b} /\ b.job = Job(t) /\ b.id = inserted[t].id
  BY <1>1 DEF Answer
<1>3. PICK S, V, R : S = strategies' /\ V = versions' /\ R = runs'
  OBVIOUS
<1>4. \A a, rows : Stored(a, rows)' <=> \E r \in rows' : r.key = a.job.key /\ r.id = a.id /\ r.hash = RequestHash(a.job)
  BY DEF Stored, RequestHash
<1>5. \/ b.job.op = "create" /\ Stored(b, S)
      \/ b.job.op = "publish" /\ Stored(b, V)
      \/ b.job.op \in StoresRun /\ Stored(b, R)
  BY <1>2, <1>3 DEF Stored
<1>6. ASSUME NEW a \in answers
      PROVE  \/ a.job.op = "create" /\ Stored(a, S)
             \/ a.job.op = "publish" /\ Stored(a, V)
             \/ a.job.op \in StoresRun /\ Stored(a, R)
  <2>1. Told(a)
    OBVIOUS
  <2> QED BY <2>1, <1>3 DEF Told, Stored
<1>7. \A a \in answers' : \/ a.job.op = "create" /\ Stored(a, S)
                          \/ a.job.op = "publish" /\ Stored(a, V)
                          \/ a.job.op \in StoresRun /\ Stored(a, R)
  BY <1>2, <1>5, <1>6
<1> QED BY <1>3, <1>7 DEF Told, Stored

LEMMA CommitKeeps ==
    ASSUME StoreInv, NEW t \in Threads, pc[t] = "commit",
           Answer(Job(t), inserted[t].id), EndTransaction(t), UNCHANGED <<nextId, page>>,
           \/ /\ inserted[t].table = "strategies" /\ strategies' = strategies \cup {inserted[t]}
              /\ UNCHANGED <<versions, runs>>
           \/ /\ inserted[t].table = "versions" /\ versions' = versions \cup {inserted[t]}
              /\ UNCHANGED <<strategies, runs>>
           \/ /\ inserted[t].table = "runs" /\ runs' = runs \cup {inserted[t]}
              /\ UNCHANGED <<strategies, versions>>
    PROVE  StoreInv'
<1>1. PerThread /\ Exclusive /\ TablesOK /\ Thread(t) /\ \A a \in answers : Told(a)
  BY DEF StoreInv
<1>2. page' = [u \in Threads |-> page'[u]]
  BY <1>1 DEF PerThread
<1>3. OnlyThread(t) /\ Thread(t)' /\ locks'[t] = {}
  BY <1>1, <1>2, EndIsOnlyThread
<1>4. nextId.versions \in Nat /\ nextId' = nextId
  BY <1>1 DEF TablesOK
<1>5. PICK entry : entry = inserted[t]
  OBVIOUS
<1>6. CASE entry.table = "strategies"
  <2>1. /\ Pending(t, "strategies", {"create"}, "strategy-definition", strategies)
        /\ strategies' = strategies \cup {entry} /\ UNCHANGED <<versions, runs>>
    BY <1>1, <1>5, <1>6 DEF Thread, Pending, PendingVersion
  <2>2. /\ entry.id \in Nat \ {0} /\ entry.key = Job(t).key /\ entry.hash = RequestHash(Job(t))
        /\ Job(t).op = "create" /\ <<"strategy-definition", entry.key>> \in locks[t]
        /\ \A r \in strategies : r.key # entry.key
    BY <2>1, <1>5 DEF Pending, Reserved
  <2>3. \A u \in Threads \ {t} : GrowBeside(u)
    BY <1>1, <1>4, <2>1, <2>2 DEF GrowBeside, Exclusive
  <2>4. TableOK(strategies \cup {entry})
    BY <1>1, <2>2, TableGrows DEF TablesOK
  <2>5. TablesOK'
    BY <1>1, <1>4, <2>1, <2>4 DEF TablesOK
  <2>6. \A a \in answers' : Told(a)'
    BY <1>1, <1>5, <2>1, <2>2, CommitIsTold
  <2> QED BY <1>3, <2>3, <2>5, <2>6, StoreInvKept
<1>7. CASE entry.table = "versions"
  <2>1. PendingVersion(t) /\ versions' = versions \cup {entry} /\ UNCHANGED <<strategies, runs>>
    BY <1>1, <1>5, <1>7 DEF Thread, Pending, PendingVersion
  <2>2. /\ entry.id \in Nat \ {0} /\ entry.key = Job(t).key /\ entry.hash = RequestHash(Job(t))
        /\ Job(t).op = "publish" /\ <<"strategy-version", entry.key>> \in locks[t]
        /\ \A r \in versions : r.key # entry.key
        /\ <<"strategy-version-sequence", entry.strategy>> \in locks[t]
        /\ NextVersion(entry, versions) /\ entry.id < nextId.versions
    BY <2>1, <1>5 DEF PendingVersion, Pending, Reserved
  <2>3. \A u \in Threads \ {t} : GrowBeside(u)
    BY <1>1, <1>4, <2>1, <2>2 DEF GrowBeside, Exclusive
  <2>4. TableOK(versions \cup {entry})
    BY <1>1, <2>2, TableGrows DEF TablesOK
  <2>5. InOrder(versions \cup {entry})
    BY <1>1, <2>2, OrderGrows DEF TablesOK, TableOK
  <2>6. entry.version \in Nat \ {0}
    BY <2>2 DEF NextVersion
  <2>7. TablesOK'
    BY <1>1, <1>4, <2>1, <2>2, <2>4, <2>5, <2>6 DEF TablesOK
  <2>8. \A a \in answers' : Told(a)'
    BY <1>1, <1>5, <2>1, <2>2, CommitIsTold
  <2> QED BY <1>3, <2>3, <2>7, <2>8, StoreInvKept
<1>8. CASE entry.table = "runs"
  <2>1. /\ Pending(t, "runs", StoresRun, "backtest-run", runs)
        /\ runs' = runs \cup {entry} /\ UNCHANGED <<strategies, versions>>
    BY <1>1, <1>5, <1>8 DEF Thread, Pending, PendingVersion
  <2>2. /\ entry.id \in Nat \ {0} /\ entry.key = Job(t).key /\ entry.hash = RequestHash(Job(t))
        /\ Job(t).op \in StoresRun /\ <<"backtest-run", entry.key>> \in locks[t]
        /\ \A r \in runs : r.key # entry.key
    BY <2>1, <1>5 DEF Pending, Reserved
  <2>3. \A u \in Threads \ {t} : GrowBeside(u)
    BY <1>1, <1>4, <2>1, <2>2 DEF GrowBeside, Exclusive
  <2>4. TableOK(runs \cup {entry})
    BY <1>1, <2>2, TableGrows DEF TablesOK
  <2>5. TablesOK'
    BY <1>1, <1>4, <2>1, <2>4 DEF TablesOK
  <2>6. \A a \in answers' : Told(a)'
    BY <1>1, <1>5, <2>1, <2>2, CommitIsTold
  <2> QED BY <1>3, <2>3, <2>5, <2>6, StoreInvKept
<1> QED BY <1>5, <1>6, <1>7, <1>8

LEMMA CommitStoreKeeps ==
    ASSUME StoreInv, NEW t \in Threads, CommitStore(t), UNCHANGED runs
    PROVE  StoreInv'
BY CommitKeeps DEF CommitStore

LEMMA CommitRunKeeps ==
    ASSUME StoreInv, NEW t \in Threads, CommitRun(t)
    PROVE  StoreInv'
BY CommitKeeps DEF CommitRun

LEMMA BreakKeeps ==
    ASSUME StoreInv, NEW t \in Threads, Break(t), UNCHANGED runs
    PROVE  StoreInv'
<1>1. EndTransaction(t) /\ UNCHANGED <<strategies, versions, nextId, answers, page>>
  BY DEF Break
<1>2. page' = [u \in Threads |-> page'[u]] /\ \A a \in answers' : Told(a)
  BY <1>1 DEF StoreInv, PerThread
<1> QED BY <1>1, <1>2, EndKeeps, SameNumbers
LEMMA RunKeyKeeps ==
    ASSUME StoreInv, NEW t \in Threads, RunKey(t)
    PROVE  StoreInv'
<1> DEFINE job == Job(t)
           old == WithKey(runs, job.key)
<1>1. UNCHANGED <<strategies, versions, runs, nextId, page>> /\ pc[t] = "idle" /\ job.op = "run"
  BY DEF RunKey
<1>2. PerThread /\ Thread(t) /\ \A a \in answers : Told(a)
  BY DEF StoreInv
<1>3. locks[t] = {} /\ inserted[t] = NoRow
  BY <1>1, <1>2 DEF Thread
<1>4. page' = [u \in Threads |-> page'[u]]
  BY <1>1, <1>2 DEF PerThread
<1>5. CASE \E r \in old : AnswerAgain(t, r)
  <2>1. PICK r \in old : AnswerAgain(t, r)
    BY <1>5
  <2>2. r \in runs /\ r.key = Job(t).key
    BY DEF WithKey
  <2>3. EndTransaction(t) /\ \A a \in answers' : Told(a)
    BY <1>1, <1>2, <2>1, <2>2, AgainIsTold DEF StoresRun
  <2> QED BY <1>1, <1>4, <2>3, EndKeeps, SameNumbers
<1>6. CASE EndTransaction(t) /\ UNCHANGED answers
  BY <1>1, <1>2, <1>4, <1>6, EndKeeps, SameNumbers
<1>7. CASE /\ old = {} /\ Grab(t, <<"backtest-run", job.key>>)
           /\ pc' = [pc EXCEPT ![t] = "input"] /\ UNCHANGED <<todo, inserted, answers>>
  <2>1. PICK L : L = {<<"backtest-run", job.key>>}
    OBVIOUS
  <2>2. locks' = [locks EXCEPT ![t] = L] /\ \A u \in Threads \ {t} : L \cap locks[u] = {}
    BY <1>3, <1>7, <2>1 DEF Grab
  <2>3. inserted' = [inserted EXCEPT ![t] = NoRow]
    BY <1>2, <1>3, <1>7 DEF PerThread
  <2>4. GoesOn(t, "input", L, NoRow)
    BY <1>1, <1>7, <2>2, <2>3 DEF GoesOn
  <2>5. pc'[t] = "input" /\ locks'[t] = L /\ inserted'[t] = NoRow /\ Job(t)' = job
    BY <1>2, <2>4, GoneOn
  <2>6. Reserved(t, "backtest-run", runs)'
    BY <1>1, <1>7, <2>1, <2>5 DEF Reserved, WithKey
  <2>7. Thread(t)'
    BY <1>1, <2>5, <2>6 DEF Thread
  <2>8. Numbered
    BY <1>1, SameNumbers
  <2> QED BY <1>7, <2>4, <2>7, <2>8, GoOnKeeps
<1> QED BY <1>5, <1>6, <1>7 DEF RunKey

\* A run is inserted: what is left to show is the lock of its key.
LEMMA RunInserted ==
    ASSUME StoreInv, NEW t \in Threads, NEW hash, NEW trades, NEW entry,
           entry = RunRow(Job(t), hash, trades), NEW L, GoesOn(t, "commit", L, entry),
           Job(t).op \in StoresRun, <<"backtest-run", Job(t).key>> \in L,
           \A r \in runs : r.key # Job(t).key,
           UNCHANGED <<strategies, versions, runs, answers>>,
           nextId' = [nextId EXCEPT !.runs = @ + 1]
    PROVE  StoreInv'
<1>1. PerThread /\ TablesOK
  BY DEF StoreInv
<1>2. PICK job : job = Job(t)
  OBVIOUS
<1>3. /\ entry.table = "runs" /\ entry.id = nextId.runs /\ entry.key = job.key
      /\ entry.hash = RequestHash(job)
  BY <1>2 DEF RunRow
<1>4. /\ pc'[t] = "commit" /\ locks'[t] = L /\ inserted'[t] = entry /\ Job(t)' = job
  BY <1>1, <1>2, GoneOn
<1>5. RequestHash(Job(t))' = RequestHash(job)
  BY <1>4 DEF RequestHash
<1>6. Reserved(t, "backtest-run", runs)'
  BY <1>2, <1>4 DEF Reserved
<1>7. Pending(t, "runs", StoresRun, "backtest-run", runs)'
  BY <1>1, <1>2, <1>3, <1>4, <1>5, <1>6 DEF Pending, TablesOK
<1>8. Thread(t)'
  BY <1>4, <1>7 DEF Thread
<1>9. Numbered
  BY <1>1 DEF Numbered, TablesOK
<1> QED BY <1>8, <1>9, GoOnKeeps

LEMMA RunInputKeeps ==
    ASSUME StoreInv, NEW t \in Threads, RunInput(t)
    PROVE  StoreInv'
<1>1. UNCHANGED <<strategies, versions, runs, answers, page>> /\ pc[t] = "input"
  BY DEF RunInput
<1>2. PerThread /\ TablesOK /\ Thread(t) /\ \A a \in answers : Told(a)
  BY DEF StoreInv
<1>3. Job(t).op = "run" /\ Reserved(t, "backtest-run", runs)
  BY <1>1, <1>2 DEF Thread
<1>4. nextId' = nextId \/ nextId' = [nextId EXCEPT !.runs = @ + 1]
  BY <1>2 DEF RunInput, TablesOK
<1>5. CASE EndTransaction(t)
  <2>1. page' = [u \in Threads |-> page'[u]] /\ \A a \in answers' : Told(a)
    BY <1>1, <1>2 DEF PerThread
  <2>2. Numbered
    BY <1>1, <1>2, <1>4 DEF Numbered, TablesOK
  <2> QED BY <1>5, <2>1, <2>2, EndKeeps
<1>6. CASE /\ \A r \in runs : ~Clashes(r, Job(t), input[t])
           /\ GrabInput(t, input[t])
           /\ inserted' = [inserted EXCEPT ![t] = RunRow(Job(t), input[t], <<>>)]
           /\ pc' = [pc EXCEPT ![t] = "commit"]
           /\ UNCHANGED todo
  <2>1. PICK L, entry :
          /\ L = locks[t] \cup {<<"backtest-input", input[t]>>}
          /\ entry = RunRow(Job(t), input[t], <<>>)
    OBVIOUS
  <2>2. GoesOn(t, "commit", L, entry)
    <3>1. \A u \in Threads \ {t} : L \cap locks[u] = {}
      BY <1>6, <2>1 DEF GrabInput, Grab, StoreInv, Exclusive
    <3> QED BY <1>1, <1>6, <2>1, <3>1 DEF GoesOn, GrabInput, Grab
  <2>3. nextId' = [nextId EXCEPT !.runs = @ + 1]
    <3>1. ~\E r \in runs : r.input = input[t]
      BY <1>6 DEF Clashes
    <3> QED BY <3>1 DEF RunInput
  <2>4. <<"backtest-run", Job(t).key>> \in L /\ \A r \in runs : r.key # Job(t).key
    BY <1>3, <2>1 DEF Reserved
  <2> QED BY <1>1, <1>3, <2>1, <2>2, <2>3, <2>4, RunInserted DEF StoresRun
<1> QED BY <1>5, <1>6 DEF RunInput

LEMMA PersistRunKeeps ==
    ASSUME StoreInv, NEW t \in Threads, PersistRun(t)
    PROVE  StoreInv'
<1> DEFINE old == WithKey(runs, Job(t).key)
<1>1. UNCHANGED <<strategies, versions, runs, page>> /\ pc[t] = "idle" /\ Job(t).op = "persist"
  BY DEF PersistRun
<1>2. PerThread /\ TablesOK /\ Thread(t) /\ \A a \in answers : Told(a)
  BY DEF StoreInv
<1>3. page' = [u \in Threads |-> page'[u]]
  BY <1>1, <1>2 DEF PerThread
<1>4. CASE (\E r \in old : AnswerAgain(t, r)) /\ UNCHANGED nextId
  <2>1. PICK r \in old : AnswerAgain(t, r)
    BY <1>4
  <2>2. r \in runs /\ r.key = Job(t).key
    BY DEF WithKey
  <2>3. EndTransaction(t) /\ \A a \in answers' : Told(a)
    BY <1>1, <1>2, <2>1, <2>2, AgainIsTold DEF StoresRun
  <2> QED BY <1>1, <1>3, <1>4, <2>3, EndKeeps, SameNumbers
<1>5. CASE /\ nextId' = [nextId EXCEPT !.runs = @ + 1]
           /\ EndTransaction(t)
           /\ UNCHANGED answers
  <2>1. Numbered
    BY <1>1, <1>2, <1>5 DEF Numbered, TablesOK
  <2> QED BY <1>2, <1>3, <1>5, <2>1, EndKeeps
<1>6. ASSUME NEW hash,
             /\ old = {}
             /\ \A u \in Threads \ {t} : <<"backtest-run", Job(t).key>> \notin locks[u]
             /\ locks' = [locks EXCEPT ![t] = {<<"backtest-run", Job(t).key>>}]
             /\ inserted' = [inserted EXCEPT ![t] = RunRow(Job(t), hash, replay.book.trades)]
             /\ nextId' = [nextId EXCEPT !.runs = @ + 1]
             /\ pc' = [pc EXCEPT ![t] = "commit"]
             /\ UNCHANGED <<todo, answers>>
      PROVE  StoreInv'
  <2>1. PICK L, trades, entry :
          /\ L = {<<"backtest-run", Job(t).key>>} /\ trades = replay.book.trades
          /\ entry = RunRow(Job(t), hash, trades)
    OBVIOUS
  <2>2. GoesOn(t, "commit", L, entry)
    BY <1>1, <1>6, <2>1 DEF GoesOn
  <2>3. <<"backtest-run", Job(t).key>> \in L /\ \A r \in runs : r.key # Job(t).key
    BY <1>6, <2>1 DEF WithKey
  <2> QED BY <1>1, <1>6, <2>1, <2>2, <2>3, RunInserted DEF StoresRun
<1> HIDE DEF old
<1>7. PICK hash : hash = InputHash(Job(t).what, tape, signals)
  OBVIOUS
<1>8. \/ (\E r \in old : AnswerAgain(t, r)) /\ UNCHANGED nextId
      \/ /\ old = {}
         /\ \A u \in Threads \ {t} : <<"backtest-run", Job(t).key>> \notin locks[u]
         /\ locks' = [locks EXCEPT ![t] = {<<"backtest-run", Job(t).key>>}]
         /\ inserted' = [inserted EXCEPT ![t] = RunRow(Job(t), hash, replay.book.trades)]
         /\ nextId' = [nextId EXCEPT !.runs = @ + 1]
         /\ pc' = [pc EXCEPT ![t] = "commit"]
         /\ UNCHANGED <<todo, answers>>
      \/ /\ nextId' = [nextId EXCEPT !.runs = @ + 1]
         /\ EndTransaction(t)
         /\ UNCHANGED answers
  BY <1>7 DEF PersistRun, old
<1> QED BY <1>4, <1>5, <1>6, <1>8

\* A listing begins, or reads a page.
LEMMA BrowseKeeps ==
    ASSUME StoreInv, NEW t \in Threads, pc[t] \in {"idle", "page"},
           UNCHANGED <<strategies, versions, runs, nextId, answers>>,
           page' = [u \in Threads |-> page'[u]],
           \/ pc' = [pc EXCEPT ![t] = "page"] /\ UNCHANGED <<todo, locks, inserted>>
           \/ UNCHANGED <<todo, pc, locks, inserted>>
           \/ EndTransaction(t)
    PROVE  StoreInv'
<1>1. PerThread /\ TablesOK /\ Thread(t) /\ \A a \in answers : Told(a)
  BY DEF StoreInv
<1>2. CASE EndTransaction(t)
  BY <1>1, <1>2, EndKeeps, SameNumbers
<1>3. CASE /\ pc' = [pc EXCEPT ![t] = "page"] \/ pc' = pc
           /\ UNCHANGED <<todo, locks, inserted>>
  <2>1. /\ pc' = [u \in Threads |-> pc'[u]] /\ pc'[t] \in {"idle", "page"}
        /\ \A u \in Threads \ {t} : pc'[u] = pc[u]
    BY <1>1, <1>3 DEF PerThread
  <2>2. OnlyThread(t)
    BY <1>1, <1>3, <2>1 DEF OnlyThread, PerThread
  <2>3. locks'[t] = {} /\ inserted'[t] = NoRow
    BY <1>1, <1>3 DEF Thread
  <2>4. Thread(t)'
    BY <2>1, <2>3 DEF Thread
  <2>5. TablesOK' /\ \A u \in Threads : GrowBeside(u)
    BY <1>1, TablesSame
  <2>6. \A a \in answers' : Told(a)'
    BY <1>1 DEF Told
  <2> QED BY <2>2, <2>3, <2>4, <2>5, <2>6, StoreInvKept
<1> QED BY <1>2, <1>3

LEMMA ListVersionsKeeps ==
    ASSUME StoreInv, NEW t \in Threads, ListVersions(t), UNCHANGED runs
    PROVE  StoreInv'
<1>1. /\ UNCHANGED <<strategies, versions, nextId, answers>> /\ pc[t] \in {"idle", "page"}
  BY DEF ListVersions
<1>2. page = [u \in Threads |-> page[u]]
  BY DEF StoreInv, PerThread
<1>3. CASE Ceiling(t, "versions", Siblings(Job(t).strategy))
  <2>1. page' = [u \in Threads |-> page'[u]]
    BY <1>2, <1>3 DEF Ceiling
  <2> QED BY <1>1, <1>3, <2>1, BrowseKeeps DEF Ceiling
<1>4. CASE ReadPage(t, Siblings(Job(t).strategy))
  <2>1. page' = [u \in Threads |-> page'[u]]
    BY <1>2, <1>4 DEF ReadPage
  <2> QED BY <1>1, <1>4, <2>1, BrowseKeeps DEF ReadPage
<1> QED BY <1>3, <1>4 DEF ListVersions

LEMMA ListRunsKeeps ==
    ASSUME StoreInv, NEW t \in Threads, ListRuns(t)
    PROVE  StoreInv'
<1>1. /\ UNCHANGED <<strategies, versions, runs, nextId, answers>> /\ pc[t] \in {"idle", "page"}
  BY DEF ListRuns
<1>2. page = [u \in Threads |-> page[u]]
  BY DEF StoreInv, PerThread
<1>3. CASE Ceiling(t, "runs", runs)
  <2>1. page' = [u \in Threads |-> page'[u]]
    BY <1>2, <1>3 DEF Ceiling
  <2> QED BY <1>1, <1>3, <2>1, BrowseKeeps DEF Ceiling
<1>4. CASE ReadPage(t, runs)
  <2>1. page' = [u \in Threads |-> page'[u]]
    BY <1>2, <1>4 DEF ReadPage
  <2> QED BY <1>1, <1>4, <2>1, BrowseKeeps DEF ReadPage
<1> QED BY <1>3, <1>4 DEF ListRuns

LEMMA ListTradesKeeps ==
    ASSUME StoreInv, NEW t \in Threads, ListTrades(t)
    PROVE  StoreInv'
<1>1. UNCHANGED <<strategies, versions, runs, nextId, answers>>
  BY DEF ListTrades
<1>2. page = [u \in Threads |-> page[u]]
  BY DEF StoreInv, PerThread
<1>3. CASE OpenTrades(t)
  <2>1. page' = [u \in Threads |-> page'[u]] /\ pc[t] = "idle"
    BY <1>2, <1>3 DEF OpenTrades
  <2> QED BY <1>1, <1>3, <2>1, BrowseKeeps DEF OpenTrades
<1>4. CASE ReadTrades(t)
  <2>1. page' = [u \in Threads |-> page'[u]] /\ pc[t] = "page"
    BY <1>2, <1>4 DEF ReadTrades
  <2> QED BY <1>1, <1>4, <2>1, BrowseKeeps DEF ReadTrades
<1> QED BY <1>3, <1>4 DEF ListTrades
-----------------------------------------------------------------------------
(* The replay *)

\* Equal keys keep their order: a stable sort by three numbers.
Ahead(a, b, c, j, i) ==
    \/ a[j] < a[i]
    \/ a[j] = a[i] /\ b[j] < b[i]
    \/ a[j] = a[i] /\ b[j] = b[i] /\ c[j] < c[i]
    \/ a[j] = a[i] /\ b[j] = b[i] /\ c[j] = c[i] /\ j < i

LEMMA AheadOrders ==
    ASSUME NEW n \in Nat, NEW a \in [1..n -> Int], NEW b \in [1..n -> Int], NEW c \in [1..n -> Int],
           NEW R, R = {p \in (1..n) \X (1..n) : Ahead(a, b, c, p[1], p[2])}
    PROVE  StrictOrder(R, 1..n)
<1>1. \A i, j \in 1..n : <<i, j>> \in R <=> Ahead(a, b, c, i, j)
  OBVIOUS
<1>2. \A i \in 1..n : a[i] \in Int /\ b[i] \in Int /\ c[i] \in Int /\ i \in Int
  OBVIOUS
<1>3. \A i \in 1..n : <<i, i>> \notin R
  BY <1>1, <1>2 DEF Ahead
<1>4. ASSUME NEW i \in 1..n, NEW j \in 1..n, NEW k \in 1..n, <<i, j>> \in R, <<j, k>> \in R
      PROVE  <<i, k>> \in R
  <2>1. Ahead(a, b, c, i, j) /\ Ahead(a, b, c, j, k)
    BY <1>1, <1>4
  <2>2. Ahead(a, b, c, i, k)
    BY <2>1, <1>2 DEF Ahead
  <2> QED BY <2>2, <1>1
<1>5. ASSUME NEW i \in 1..n, NEW j \in 1..n, i # j PROVE <<i, j>> \in R \/ <<j, i>> \in R
  <2>1. Ahead(a, b, c, i, j) \/ Ahead(a, b, c, j, i)
    BY <1>2, <1>5 DEF Ahead
  <2> QED BY <2>1, <1>1
<1> QED BY <1>3, <1>4, <1>5 DEF StrictOrder

PlaceAhead(n, a, b, c, i) == Cardinality({j \in 1..n : Ahead(a, b, c, j, i)}) + 1
AllPlaces(n, a, b, c) == \A k \in 1..n : \E i \in 1..n : PlaceAhead(n, a, b, c, i) = k

\* The places of such a sort are all taken.
LEMMA SortPlaces ==
    ASSUME NEW n \in Nat, NEW a \in [1..n -> Int], NEW b \in [1..n -> Int], NEW c \in [1..n -> Int]
    PROVE  AllPlaces(n, a, b, c)
<1>1. PICK R : R = {p \in (1..n) \X (1..n) : Ahead(a, b, c, p[1], p[2])}
  OBVIOUS
<1>2. StrictOrder(R, 1..n)
  BY <1>1, AheadOrders
<1>3. IsFiniteSet(1..n) /\ Cardinality(1..n) = n
  BY FS_Interval
<1>4. Placed(1..n, R)
  BY <1>2, <1>3, PlacesTaken
<1>5. \A k \in 1..n : \E i \in 1..n : Place(1..n, R, i) = k
  BY <1>3, <1>4 DEF Placed
<1>6. \A i \in 1..n : {j \in 1..n : <<j, i>> \in R} = {j \in 1..n : Ahead(a, b, c, j, i)}
  BY <1>1
<1>7. \A i \in 1..n : PlaceAhead(n, a, b, c, i) = Place(1..n, R, i)
  BY <1>6 DEF Place, PlaceAhead
<1> QED BY <1>5, <1>7 DEF AllPlaces

LEMMA EventsAreCandles ==
    ASSUME NEW s \in Seq(Candle)
    PROVE  ReplayEvents(s) \in Seq(Candle) /\ Len(ReplayEvents(s)) = Len(s)
<1> DEFINE ahead(j, i) == \/ EventBefore(s[j], s[i])
                          \/ ~EventBefore(s[i], s[j]) /\ j < i
           place(i) == Cardinality({j \in DOMAIN s : ahead(j, i)}) + 1
           pick(k) == CHOOSE i \in DOMAIN s : place(i) = k
<1>1. PICK n \in Nat : DOMAIN s = 1..n /\ n = Len(s)
  OBVIOUS
<1>2. PICK a, b, c : /\ a = [i \in 1..n |-> s[i].known] /\ b = [i \in 1..n |-> s[i].priority]
                     /\ c = [i \in 1..n |-> s[i].seq]
  OBVIOUS
<1>3. \A i \in 1..n : s[i] \in Candle
  BY <1>1
<1>4. a \in [1..n -> Int] /\ b \in [1..n -> Int] /\ c \in [1..n -> Int]
  BY <1>2, <1>3 DEF Candle
<1>5. \A j, i \in 1..n : ahead(j, i) <=> Ahead(a, b, c, j, i)
  <2> TAKE j, i \in 1..n
  <2>1. /\ a[i] \in Int /\ a[j] \in Int /\ b[i] \in Int /\ b[j] \in Int /\ c[i] \in Int /\ c[j] \in Int
        /\ a[i] = s[i].known /\ b[i] = s[i].priority /\ c[i] = s[i].seq
        /\ a[j] = s[j].known /\ b[j] = s[j].priority /\ c[j] = s[j].seq
    BY <1>2, <1>4
  <2> QED BY <2>1 DEF Ahead, EventBefore
<1>6. \A i \in 1..n : place(i) = PlaceAhead(n, a, b, c, i)
  <2> TAKE i \in 1..n
  <2>1. {j \in DOMAIN s : ahead(j, i)} = {j \in 1..n : Ahead(a, b, c, j, i)}
    BY <1>1, <1>5
  <2> HIDE DEF ahead
  <2> QED BY <2>1 DEF PlaceAhead
<1>7. AllPlaces(n, a, b, c)
  BY <1>4, SortPlaces
<1> HIDE DEF place
<1>8. \A k \in 1..n : \E i \in DOMAIN s : place(i) = k
  BY <1>1, <1>6, <1>7 DEF AllPlaces
<1>9. \A k \in 1..n : pick(k) \in 1..n
  BY <1>1, <1>8
<1>10. ReplayEvents(s) = [k \in DOMAIN s |-> s[pick(k)]]
  BY DEF ReplayEvents, Sorted, place, ahead
<1>11. PICK e : e = [k \in 1..n |-> s[pick(k)]]
  OBVIOUS
<1> HIDE DEF pick
<1>12. e \in Seq(Candle) /\ Len(e) = n
  BY <1>3, <1>9, <1>11
<1>13. ReplayEvents(s) = e
  BY <1>1, <1>10, <1>11
<1> QED BY <1>1, <1>12, <1>13

LEMMA SignalsAreOrdered ==
    ASSUME NEW s \in Seq(Signal)
    PROVE  OrderedSignals(s) \in Seq(Signal) /\ Len(OrderedSignals(s)) = Len(s)
<1> DEFINE numbered == [i \in DOMAIN s |-> <<i, s[i]>>]
           ahead(j, i) == \/ SignalBefore(numbered[j], numbered[i])
                          \/ ~SignalBefore(numbered[i], numbered[j]) /\ j < i
           place(i) == Cardinality({j \in DOMAIN numbered : ahead(j, i)}) + 1
           pick(k) == CHOOSE i \in DOMAIN numbered : place(i) = k
           sorted == [k \in DOMAIN numbered |-> numbered[pick(k)]]
<1>1. PICK n \in Nat : DOMAIN s = 1..n /\ n = Len(s)
  OBVIOUS
<1>2. PICK a, b, c : /\ a = [i \in 1..n |-> s[i].known] /\ b = [i \in 1..n |-> s[i].occurred]
                     /\ c = [i \in 1..n |-> i]
  OBVIOUS
<1>3. \A i \in 1..n : s[i] \in Signal
  BY <1>1
<1>4. a \in [1..n -> Int] /\ b \in [1..n -> Int] /\ c \in [1..n -> Int]
  BY <1>2, <1>3 DEF Signal
<1>5. DOMAIN numbered = 1..n /\ \A i \in 1..n : numbered[i] = <<i, s[i]>>
  BY <1>1
<1>6. \A j, i \in 1..n : ahead(j, i) <=> Ahead(a, b, c, j, i)
  <2> TAKE j, i \in 1..n
  <2>1. PICK p, q : p = numbered[i] /\ q = numbered[j]
    OBVIOUS
  <2>2. /\ a[i] \in Int /\ a[j] \in Int /\ b[i] \in Int /\ b[j] \in Int /\ c[i] \in Int /\ c[j] \in Int
        /\ a[i] = p[2].known /\ b[i] = p[2].occurred /\ c[i] = p[1] /\ c[i] = i
        /\ a[j] = q[2].known /\ b[j] = q[2].occurred /\ c[j] = q[1] /\ c[j] = j
    BY <1>2, <1>4, <1>5, <2>1
  <2>3. SignalBefore(q, p) <=> \/ a[j] < a[i]
                               \/ a[j] = a[i] /\ b[j] < b[i]
                               \/ a[j] = a[i] /\ b[j] = b[i] /\ c[j] < c[i]
    BY <2>2 DEF SignalBefore
  <2>4. SignalBefore(p, q) <=> \/ a[i] < a[j]
                               \/ a[i] = a[j] /\ b[i] < b[j]
                               \/ a[i] = a[j] /\ b[i] = b[j] /\ c[i] < c[j]
    BY <2>2 DEF SignalBefore
  <2>5. ahead(j, i) <=> (SignalBefore(q, p) \/ (~SignalBefore(p, q) /\ j < i))
    BY <2>1
  <2> HIDE DEF ahead, numbered
  <2> QED BY <2>2, <2>3, <2>4, <2>5 DEF Ahead
<1>7. \A i \in 1..n : place(i) = PlaceAhead(n, a, b, c, i)
  <2> TAKE i \in 1..n
  <2>1. {j \in DOMAIN numbered : ahead(j, i)} = {j \in 1..n : Ahead(a, b, c, j, i)}
    BY <1>5, <1>6
  <2> HIDE DEF ahead, numbered
  <2> QED BY <2>1 DEF PlaceAhead
<1>8. AllPlaces(n, a, b, c)
  BY <1>4, SortPlaces
<1>9. OrderedSignals(s) = [i \in DOMAIN sorted |-> sorted[i][2]]
  BY DEF OrderedSignals, Sorted
<1> HIDE DEF place
<1>10. \A k \in 1..n : \E i \in DOMAIN numbered : place(i) = k
  BY <1>5, <1>7, <1>8 DEF AllPlaces
<1>11. \A k \in 1..n : pick(k) \in 1..n
  BY <1>5, <1>10
<1> HIDE DEF pick
<1>12. DOMAIN sorted = 1..n /\ \A k \in 1..n : sorted[k][2] = s[pick(k)]
  BY <1>5, <1>11
<1> HIDE DEF sorted
<1>13. PICK e : e = [i \in 1..n |-> s[pick(i)]]
  OBVIOUS
<1>14. e \in Seq(Signal) /\ Len(e) = n
  BY <1>3, <1>11, <1>13
<1>15. OrderedSignals(s) = e
  BY <1>9, <1>12, <1>13
<1> QED BY <1>1, <1>14, <1>15

-----------------------------------------------------------------------------
(* The book *)

TradeRow == [side : {"buy", "sell"}, filled : Int, remaining : Int, price : Int, fee : Int,
             known : Int]

\* What a trade moves, in cash and in the position.
Moves(sum, t) ==
    sum - t.fee + (IF t.side = "buy" THEN -1 ELSE 1) * t.price * t.filled * Parts
CashStep == [p \in Int \X TradeRow |-> Moves(p[1], p[2])]

LEMMA CashStepType == CashStep \in [Int \X TradeRow -> Int] /\ 0 \in Int
<1>1. Parts \in Int
  BY EngineAssumption
<1>2. ASSUME NEW a \in Int, NEW x \in TradeRow PROVE Moves(a, x) \in Int
  BY <1>1 DEF Moves, TradeRow
<1>3. \A p \in Int \X TradeRow : Moves(p[1], p[2]) \in Int
  BY <1>2
<1> QED BY <1>3 DEF CashStep

LEMMA CashFolds ==
    ASSUME NEW s \in Seq(TradeRow)
    PROVE  \E it : StepsTo(it, CashStep, 0, s, Int) /\ CashMoved(s) = it[1..Len(s)]
<1> DEFINE Is(it) == it = [t \in SUBSET DOMAIN s |->
                             IF t = {} THEN 0 ELSE Moves(it[t \ {Max(t)}], s[Max(t)])]
           fold == CHOOSE it : Is(it)
<1>1. Len(s) \in Nat /\ DOMAIN s = 1..Len(s) /\ 0 \in Int
  OBVIOUS
<1>2. CashStep \in [Int \X TradeRow -> Int]
  BY CashStepType
<1>3. PICK it : IsFold(it, CashStep, 0, s, Int, TradeRow)
  BY <1>1, <1>2, FoldExists
<1>4. Is(it)
  BY <1>3 DEF IsFold, FoldsTo, CashStep
<1>5. Is(fold)
  BY <1>4
<1>6. CashMoved(s) = fold[DOMAIN s]
  BY DEF CashMoved, FoldLeft, MapThenFoldSet, Moves
<1>7. StepsTo(fold, CashStep, 0, s, Int)
  <2>1. ASSUME NEW t \in SUBSET DOMAIN s, t # {}, fold[t \ {Max(t)}] \in Int
        PROVE  fold[t] = CashStep[<<fold[t \ {Max(t)}], s[Max(t)]>>]
    <3>1. s[Max(t)] \in TradeRow
      BY <1>3, <2>1 DEF IsFold
    <3>2. fold[t] = Moves(fold[t \ {Max(t)}], s[Max(t)])
      BY <1>5, <2>1
    <3> HIDE DEF fold
    <3> QED BY <2>1, <3>1, <3>2 DEF CashStep
  <2>2. fold[{}] = 0
    BY <1>5
  <2> HIDE DEF fold
  <2> QED BY <1>1, <2>1, <2>2 DEF StepsTo
<1> QED BY <1>1, <1>6, <1>7

(* One trade more. *)
LEMMA CashMovedGrows ==
    ASSUME NEW s \in Seq(TradeRow), NEW x \in TradeRow
    PROVE  CashMoved(s) \in Int /\ CashMoved(Append(s, x)) = Moves(CashMoved(s), x)
<1>1. PICK it : StepsTo(it, CashStep, 0, s, Int) /\ CashMoved(s) = it[1..Len(s)]
  BY CashFolds
<1>2. PICK r : r = Append(s, x)
  OBVIOUS
<1>3. r \in Seq(TradeRow) /\ Len(r) = Len(s) + 1
  BY <1>2
<1>4. PICK jt : StepsTo(jt, CashStep, 0, r, Int) /\ CashMoved(r) = jt[1..Len(r)]
  BY <1>3, CashFolds
<1>5. GoesOneOn(it, jt, CashStep, s, r, x, Int)
  BY <1>1, <1>2, <1>4, CashStepType, FoldExtends
<1> QED BY <1>1, <1>2, <1>4, <1>5 DEF GoesOneOn, CashStep

Holds(sum, t) ==
    sum + (IF t.side = "buy" THEN t.filled ELSE -t.filled)
HeldStep == [p \in Int \X TradeRow |-> Holds(p[1], p[2])]

LEMMA HeldStepType == HeldStep \in [Int \X TradeRow -> Int] /\ 0 \in Int
<1>1. Parts \in Int
  BY EngineAssumption
<1>2. ASSUME NEW a \in Int, NEW x \in TradeRow PROVE Holds(a, x) \in Int
  BY <1>1 DEF Holds, TradeRow
<1>3. \A p \in Int \X TradeRow : Holds(p[1], p[2]) \in Int
  BY <1>2
<1> QED BY <1>3 DEF HeldStep

LEMMA PositionFolds ==
    ASSUME NEW s \in Seq(TradeRow)
    PROVE  \E it : StepsTo(it, HeldStep, 0, s, Int) /\ Held(s) = it[1..Len(s)]
<1> DEFINE Is(it) == it = [t \in SUBSET DOMAIN s |->
                             IF t = {} THEN 0 ELSE Holds(it[t \ {Max(t)}], s[Max(t)])]
           fold == CHOOSE it : Is(it)
<1>1. Len(s) \in Nat /\ DOMAIN s = 1..Len(s) /\ 0 \in Int
  OBVIOUS
<1>2. HeldStep \in [Int \X TradeRow -> Int]
  BY HeldStepType
<1>3. PICK it : IsFold(it, HeldStep, 0, s, Int, TradeRow)
  BY <1>1, <1>2, FoldExists
<1>4. Is(it)
  BY <1>3 DEF IsFold, FoldsTo, HeldStep
<1>5. Is(fold)
  BY <1>4
<1>6. Held(s) = fold[DOMAIN s]
  BY DEF Held, FoldLeft, MapThenFoldSet, Holds
<1>7. StepsTo(fold, HeldStep, 0, s, Int)
  <2>1. ASSUME NEW t \in SUBSET DOMAIN s, t # {}, fold[t \ {Max(t)}] \in Int
        PROVE  fold[t] = HeldStep[<<fold[t \ {Max(t)}], s[Max(t)]>>]
    <3>1. s[Max(t)] \in TradeRow
      BY <1>3, <2>1 DEF IsFold
    <3>2. fold[t] = Holds(fold[t \ {Max(t)}], s[Max(t)])
      BY <1>5, <2>1
    <3> HIDE DEF fold
    <3> QED BY <2>1, <3>1, <3>2 DEF HeldStep
  <2>2. fold[{}] = 0
    BY <1>5
  <2> HIDE DEF fold
  <2> QED BY <1>1, <2>1, <2>2 DEF StepsTo
<1> QED BY <1>1, <1>6, <1>7

(* One trade more. *)
LEMMA HeldGrows ==
    ASSUME NEW s \in Seq(TradeRow), NEW x \in TradeRow
    PROVE  Held(s) \in Int /\ Held(Append(s, x)) = Holds(Held(s), x)
<1>1. PICK it : StepsTo(it, HeldStep, 0, s, Int) /\ Held(s) = it[1..Len(s)]
  BY PositionFolds
<1>2. PICK r : r = Append(s, x)
  OBVIOUS
<1>3. r \in Seq(TradeRow) /\ Len(r) = Len(s) + 1
  BY <1>2
<1>4. PICK jt : StepsTo(jt, HeldStep, 0, r, Int) /\ Held(r) = jt[1..Len(r)]
  BY <1>3, PositionFolds
<1>5. GoesOneOn(it, jt, HeldStep, s, r, x, Int)
  BY <1>1, <1>2, <1>4, HeldStepType, FoldExtends
<1> QED BY <1>1, <1>2, <1>4, <1>5 DEF GoesOneOn, HeldStep
LEMMA NothingMoved == CashMoved(<<>>) = 0 /\ Held(<<>>) = 0
<1>1. <<>> \in Seq(TradeRow) /\ 1..Len(<<>>) = {}
  OBVIOUS
<1>2. PICK it : StepsTo(it, CashStep, 0, <<>>, Int) /\ CashMoved(<<>>) = it[1..Len(<<>>)]
  BY <1>1, CashFolds
<1>3. PICK jt : StepsTo(jt, HeldStep, 0, <<>>, Int) /\ Held(<<>>) = jt[1..Len(<<>>)]
  BY <1>1, PositionFolds
<1> QED BY <1>1, <1>2, <1>3 DEF StepsTo

\* The book tells the cash and the position of its trades.
Balanced(b) ==
    /\ b = [cash |-> b.cash, position |-> b.position, trades |-> b.trades, equity |-> b.equity]
    /\ b.trades \in Seq(TradeRow)
    /\ b.cash = InitialCash + CashMoved(b.trades) /\ b.position = Held(b.trades)

LEMMA EventInTape ==
    ASSUME NEW e \in Seq(Candle), NEW s, ExecutionEvent(e, s) # 0
    PROVE  e[ExecutionEvent(e, s)] \in Candle
<1> DEFINE open == {i \in DOMAIN e : e[i].quality = "available" /\ e[i].known >= s.known + Latency}
<1>1. open \in SUBSET Nat /\ open \subseteq DOMAIN e
  OBVIOUS
<1>2. ExecutionEvent(e, s) = IF open = {} THEN 0 ELSE Min(open)
  BY DEF ExecutionEvent
<1> HIDE DEF open
<1>3. open # {} /\ ExecutionEvent(e, s) = Min(open)
  BY <1>2
<1>4. \E n \in open : \A m \in open : n <= m
  BY <1>1, <1>3, LeastNat
<1>5. Min(open) \in open
  BY <1>4 DEF Min
<1>6. PICK k : k = ExecutionEvent(e, s)
  OBVIOUS
<1>7. k \in DOMAIN e
  BY <1>1, <1>3, <1>5, <1>6
<1> QED BY <1>6, <1>7

LEMMA SignedProduct ==
    \A a, b, c \in Int : (-1) * a * b * c = -(a * b * c) /\ 1 * a * b * c = a * b * c
<1>1. \A a, b, c \in Int : (-a) * b * c = -(a * b * c)
  OBVIOUS
<1>2. \A a \in Int : (-1) * a = -a /\ 1 * a = a
  OBVIOUS
<1> QED BY <1>1, <1>2

LEMMA FillBalances ==
    ASSUME NEW b, Balanced(b), NEW e \in Seq(Candle), NEW s \in Signal
    PROVE  Balanced(Fill(b, e, s))
<1> DEFINE i == ExecutionEvent(e, s)
<1>1. CASE i = 0
  BY <1>1 DEF Fill
<1>2. CASE i # 0
  <2>1. PICK c : c = e[i]
    OBVIOUS
  <2>2. c \in Candle
    BY <1>2, <2>1, EventInTape
  <2>3. PICK most : most = c.volume * Participation
    OBVIOUS
  <2>4. PICK filled : filled = IF s.quantity < most THEN s.quantity ELSE most
    OBVIOUS
  <2>5. most \in Nat /\ filled \in Nat /\ s.quantity \in Nat /\ s.side \in {"buy", "sell"}
    BY <2>2, <2>3, <2>4, EngineAssumption DEF Candle, Signal
  <2>6. PICK price : price = FillPrice(c.close, s.side)
    OBVIOUS
  <2>7. PICK fee : fee = price * filled * FeeRate
    OBVIOUS
  <2>8. price \in Int
    BY <2>2, <2>6, EngineAssumption DEF FillPrice, Candle
  <2>9. fee \in Int
    BY <2>5, <2>7, <2>8, EngineAssumption
  <2>10. PICK x : x = [side |-> s.side, filled |-> filled, remaining |-> s.quantity - filled,
                       price |-> price, fee |-> fee, known |-> c.known]
    OBVIOUS
  <2>11. x \in TradeRow
    <3>1. s.quantity - filled \in Int /\ c.known \in Int
      BY <2>2, <2>5 DEF Candle
    <3> QED BY <2>5, <2>8, <2>9, <2>10, <3>1 DEF TradeRow
  <2>12. PICK cash, position : /\ cash = CashAfter(b.cash, s.side, price * filled * Parts, fee)
                               /\ position = IF s.side = "buy" THEN b.position + filled
                                             ELSE b.position - filled
    OBVIOUS
  <2>13. PICK equity : equity = Append(b.equity, cash + position * c.close * Parts * Parts)
    OBVIOUS
  <2>14. Fill(b, e, s) = [cash |-> cash, position |-> position, trades |-> Append(b.trades, x),
                          equity |-> equity]
    BY <1>2, <2>1, <2>3, <2>4, <2>6, <2>7, <2>10, <2>12, <2>13 DEF Fill
  <2>15. b.trades \in Seq(TradeRow)
    BY DEF Balanced
  <2>16. /\ CashMoved(b.trades) \in Int /\ CashMoved(Append(b.trades, x)) = Moves(CashMoved(b.trades), x)
         /\ Held(b.trades) \in Int /\ Held(Append(b.trades, x)) = Holds(Held(b.trades), x)
    BY <2>11, <2>15, CashMovedGrows, HeldGrows
  <2>17. PICK m, h, k : /\ m = CashMoved(b.trades) /\ h = Held(b.trades)
                        /\ k = (IF s.side = "buy" THEN -1 ELSE 1) * price * filled * Parts
    OBVIOUS
  <2>18. x.side = s.side /\ x.filled = filled /\ x.price = price /\ x.fee = fee
    BY <2>10
  <2>19. m \in Int /\ h \in Int /\ k \in Int /\ b.cash = InitialCash + m /\ b.position = h
         /\ InitialCash \in Int
    <3>1. m \in Int /\ h \in Int
      BY <2>16, <2>17
    <3>2. PICK sign : sign = IF s.side = "buy" THEN -1 ELSE 1
      OBVIOUS
    <3>3. sign \in Int /\ price \in Int /\ filled \in Int /\ Parts \in Int
      BY <2>5, <2>8, <3>2, EngineAssumption
    <3>4. k = sign * price * filled * Parts
      BY <2>17, <3>2
    <3>5. k \in Int
      BY <3>3, <3>4
    <3>6. b.cash = InitialCash + m /\ b.position = h
      BY <2>17 DEF Balanced
    <3>7. InitialCash \in Int
      BY EngineAssumption
    <3> QED BY <3>1, <3>5, <3>6, <3>7
  <2>20. cash = b.cash + (k - fee) /\ CashMoved(Append(b.trades, x)) = m - fee + k
    <3>1. b.cash \in Int
      BY <2>19
    <3>2. PICK n : n = price * filled * Parts
      OBVIOUS
    <3>3. n \in Int /\ k = IF s.side = "buy" THEN -n ELSE n
      BY <2>5, <2>8, <2>17, <3>2, SignedProduct, EngineAssumption
    <3>4. cash = CashAfter(b.cash, s.side, n, fee)
      BY <2>12, <3>2
    <3>5. cash = b.cash + (k - fee)
      BY <2>9, <3>1, <3>3, <3>4 DEF CashAfter
    <3> QED BY <3>5, <2>16, <2>17, <2>18 DEF Moves
  <2>21. cash = InitialCash + CashMoved(Append(b.trades, x))
    BY <2>9, <2>19, <2>20
  <2>22. position = Held(Append(b.trades, x))
    BY <2>5, <2>12, <2>16, <2>17, <2>18, <2>19 DEF Holds
  <2>23. Append(b.trades, x) \in Seq(TradeRow)
    BY <2>11, <2>15
  <2> QED BY <2>14, <2>21, <2>22, <2>23 DEF Balanced
<1> QED BY <1>1, <1>2

\* The replay so far.
ReplayInv ==
    /\ tape \in Seq(Candle) /\ signals \in Seq(Signal)
    /\ replay = [status |-> replay.status, next |-> replay.next, book |-> replay.book,
                 final |-> replay.final]
    /\ replay.next \in Nat \ {0}
    /\ Balanced(replay.book)
    /\ replay.status # "idle" => tape # <<>>
    /\ replay.status = "succeeded" => replay.final = FinalEquity(replay.book, ReplayEvents(tape))

LEMMA ReplayInvEquity == ReplayInv => EquityAccounted
<1> SUFFICES ASSUME ReplayInv, replay.status = "succeeded"
             PROVE  replay.final = InitialCash + CashMoved(replay.book.trades)
                      + Held(replay.book.trades) * Last(ReplayEvents(tape)).close * Parts * Parts
  BY DEF EquityAccounted
<1>1. tape \in Seq(Candle) /\ tape # <<>>
  BY DEF ReplayInv
<1>2. ReplayEvents(tape) \in Seq(Candle) /\ Len(ReplayEvents(tape)) = Len(tape)
  BY <1>1, EventsAreCandles
<1>3. ReplayEvents(tape) # <<>>
  BY <1>1, <1>2
<1>4. replay.final = replay.book.cash
                       + replay.book.position * Last(ReplayEvents(tape)).close * Parts * Parts
  BY <1>3 DEF ReplayInv, FinalEquity
<1> QED BY <1>4 DEF ReplayInv, Balanced

LEMMA ReplayInvSteps ==
    ASSUME ReplayInv, StartReplay \/ ReplaySignal \/ FinishReplay \/ UNCHANGED engineVars
    PROVE  ReplayInv'
<1>1. CASE StartReplay
  <2>1. PICK q : replay' = [replay EXCEPT !.status = q] /\ q \in {"failed", "running"}
    BY <1>1 DEF StartReplay
  <2>2. tape # <<>> /\ UNCHANGED <<tape, signals>>
    BY <1>1 DEF StartReplay
  <2> QED BY <2>1, <2>2 DEF ReplayInv
<1>2. CASE ReplaySignal
  <2>1. PICK n, e, o : n = replay.next /\ e = ReplayEvents(tape) /\ o = OrderedSignals(signals)
    OBVIOUS
  <2>2. /\ replay.status = "running" /\ n <= Len(signals) /\ UNCHANGED <<tape, signals>>
        /\ replay' = [replay EXCEPT !.next = n + 1, !.book = Fill(replay.book, e, o[n])]
    BY <1>2, <2>1 DEF ReplaySignal, ReplayInv
  <2>3. e \in Seq(Candle) /\ o \in Seq(Signal) /\ Len(o) = Len(signals)
    BY <2>1, EventsAreCandles, SignalsAreOrdered DEF ReplayInv
  <2>4. n \in Nat \ {0} /\ o[n] \in Signal
    BY <2>1, <2>2, <2>3 DEF ReplayInv
  <2>5. PICK b : b = Fill(replay.book, e, o[n])
    OBVIOUS
  <2>6. Balanced(b)
    BY <2>3, <2>4, <2>5, FillBalances DEF ReplayInv
  <2>7. /\ replay' = [status |-> "running", next |-> n + 1, book |-> b, final |-> replay.final]
    BY <2>2, <2>5 DEF ReplayInv
  <2>8. /\ replay'.book = b /\ replay'.next = n + 1 /\ replay'.status = "running"
        /\ replay' = [status |-> replay'.status, next |-> replay'.next, book |-> replay'.book,
                      final |-> replay'.final]
    BY <2>7
  <2>9. Balanced(replay.book)'
    BY <2>6, <2>8
  <2> QED BY <2>2, <2>4, <2>8, <2>9 DEF ReplayInv
<1>3. CASE FinishReplay
  <2>1. PICK x : x = FinalEquity(replay.book, ReplayEvents(tape))
    OBVIOUS
  <2>2. /\ replay.status = "running" /\ UNCHANGED <<tape, signals>>
        /\ replay' = [replay EXCEPT !.status = "succeeded", !.final = x]
    BY <1>3, <2>1 DEF FinishReplay
  <2>3. replay' = [status |-> "succeeded", next |-> replay.next, book |-> replay.book, final |-> x]
    BY <2>2 DEF ReplayInv
  <2> QED BY <2>1, <2>2, <2>3 DEF ReplayInv, FinalEquity
<1>4. CASE UNCHANGED engineVars
  BY <1>4 DEF ReplayInv, engineVars
<1> QED BY <1>1, <1>2, <1>3, <1>4
-----------------------------------------------------------------------------
(* Pages *)

Has(g, i) == \E k \in 1..Len(g) : g[k] = i

\* A listing downwards that has come to last, and one upwards.
Down(g, last) ==
    /\ g \in Seq(Nat) /\ last \in Nat
    /\ \A k, l \in 1..Len(g) : k < l => g[k] > g[l]
    /\ \A k \in 1..Len(g) : g[k] >= last
Up(g, last) ==
    /\ g \in Seq(Nat) /\ last \in Nat
    /\ \A k, l \in 1..Len(g) : k < l => g[k] < g[l]
    /\ \A k \in 1..Len(g) : g[k] <= last

LEMMA Joined ==
    ASSUME NEW g \in Seq(Nat), NEW h \in Seq(Nat), NEW j, j = g \o h
    PROVE  /\ j \in Seq(Nat) /\ Len(j) = Len(g) + Len(h)
           /\ \A k \in 1..Len(g) : j[k] = g[k]
           /\ \A k \in 1..Len(h) : j[Len(g) + k] = h[k]
           /\ \A k \in 1..Len(j) : k \in 1..Len(g) \/ k - Len(g) \in 1..Len(h)
           /\ \A i : Has(j, i) <=> Has(g, i) \/ Has(h, i)
<1>1. /\ j \in Seq(Nat) /\ Len(j) = Len(g) + Len(h) /\ Len(g) \in Nat /\ Len(h) \in Nat
      /\ \A k \in 1..Len(g) : j[k] = g[k]
      /\ \A k \in 1..Len(h) : j[Len(g) + k] = h[k]
  OBVIOUS
<1>2. \A k \in 1..Len(j) : k \in 1..Len(g) \/ k - Len(g) \in 1..Len(h)
  BY <1>1
<1>3. ASSUME NEW i, Has(j, i) PROVE Has(g, i) \/ Has(h, i)
  <2>1. PICK k \in 1..Len(j) : j[k] = i
    BY <1>3 DEF Has
  <2>2. CASE k \in 1..Len(g)
    BY <1>1, <2>1, <2>2 DEF Has
  <2>3. CASE k - Len(g) \in 1..Len(h)
    <3>1. PICK m \in 1..Len(h) : m = k - Len(g)
      BY <2>3
    <3>2. Len(g) + m = k
      BY <1>1, <3>1
    <3>3. h[m] = i
      BY <1>1, <2>1, <3>1, <3>2
    <3> QED BY <3>3 DEF Has
  <2> QED BY <1>2, <2>2, <2>3
<1>4. ASSUME NEW i, Has(g, i) PROVE Has(j, i)
  BY <1>1, <1>4 DEF Has
<1>5. ASSUME NEW i, Has(h, i) PROVE Has(j, i)
  <2>1. PICK k \in 1..Len(h) : h[k] = i
    BY <1>5 DEF Has
  <2>2. Len(g) + k \in 1..Len(j) /\ j[Len(g) + k] = i
    BY <1>1, <2>1
  <2> QED BY <2>2 DEF Has
<1> QED BY <1>1, <1>2, <1>3, <1>4, <1>5

HasBoth(j, g, h) == \A i : Has(j, i) <=> (Has(g, i) \/ Has(h, i))

LEMMA JoinedHas ==
    ASSUME NEW g \in Seq(Nat), NEW h \in Seq(Nat), NEW j, j = g \o h
    PROVE  HasBoth(j, g, h)
BY Joined DEF HasBoth

LEMMA DownJoins ==
    ASSUME NEW g, NEW h, NEW last, NEW next, Down(g, last), Down(h, next),
           next <= last, \A k \in 1..Len(h) : h[k] < last, NEW j, j = g \o h
    PROVE  Down(j, next)
<1>1. g \in Seq(Nat) /\ h \in Seq(Nat) /\ last \in Nat /\ next \in Nat
  BY DEF Down
<1>2. /\ j \in Seq(Nat) /\ Len(j) = Len(g) + Len(h)
      /\ \A k \in 1..Len(g) : j[k] = g[k]
      /\ \A k \in 1..Len(h) : j[Len(g) + k] = h[k]
      /\ \A k \in 1..Len(j) : k \in 1..Len(g) \/ k - Len(g) \in 1..Len(h)
  BY <1>1, Joined
<1>3. PICK m, n \in Nat : m = Len(g) /\ n = Len(h)
  BY <1>1
<1>4. /\ \A k \in 1..m : g[k] \in Nat /\ g[k] >= last
      /\ \A k \in 1..n : h[k] \in Nat /\ h[k] >= next /\ h[k] < last
  BY <1>1, <1>3 DEF Down
<1>5. \A k \in 1..Len(j) : \/ k \in 1..m /\ j[k] = g[k]
                           \/ k - m \in 1..n /\ j[k] = h[k - m]
  <2> SUFFICES ASSUME NEW k \in 1..Len(j), k - m \in 1..n PROVE j[k] = h[k - m]
    BY <1>2, <1>3
  <2>1. PICK l \in 1..n : l = k - m
    OBVIOUS
  <2>2. m + l = k
    BY <2>1
  <2>3. j[m + l] = h[l]
    BY <1>2, <1>3
  <2> QED BY <2>1, <2>2, <2>3
<1>6. ASSUME NEW k \in 1..Len(j) PROVE j[k] >= next
  <2>1. CASE k \in 1..m /\ j[k] = g[k]
    <3>1. g[k] \in Nat /\ g[k] >= last
      BY <2>1, <1>4
    <3> QED BY <2>1, <3>1, <1>1
  <2>2. CASE k - m \in 1..n /\ j[k] = h[k - m]
    BY <2>2, <1>4
  <2> QED BY <2>1, <2>2, <1>5
<1>7. ASSUME NEW k \in 1..Len(j), NEW l \in 1..Len(j), k < l PROVE j[k] > j[l]
  <2>1. CASE k \in 1..m /\ l \in 1..m
    <3>1. j[k] = g[k] /\ j[l] = g[l]
      BY <2>1, <1>2, <1>3
    <3> QED BY <2>1, <3>1, <1>3, <1>7 DEF Down
  <2>2. CASE k \in 1..m /\ l - m \in 1..n
    <3>1. j[k] = g[k] /\ j[l] = h[l - m]
      BY <2>2, <1>2, <1>3, <1>5
    <3>2. g[k] \in Nat /\ g[k] >= last /\ h[l - m] \in Nat /\ h[l - m] < last
      BY <2>2, <1>4
    <3> QED BY <3>1, <3>2, <1>1
  <2>3. CASE k - m \in 1..n /\ l - m \in 1..n
    <3>1. j[k] = h[k - m] /\ j[l] = h[l - m]
      BY <2>3, <1>3, <1>5
    <3>2. PICK a, b \in 1..n : a = k - m /\ b = l - m
      BY <2>3
    <3>3. a < b
      BY <3>2, <1>7
    <3>4. h[a] > h[b]
      BY <3>3, <1>3 DEF Down
    <3> QED BY <3>1, <3>2, <3>4
  <2>4. k \in 1..m \/ k - m \in 1..n
    BY <1>5
  <2>5. l \in 1..m \/ l - m \in 1..n
    BY <1>5
  <2>6. k \in 1..m \/ ~(l \in 1..m)
    BY <1>7, <2>4
  <2> QED BY <2>1, <2>2, <2>3, <2>4, <2>5, <2>6
<1> QED BY <1>1, <1>2, <1>6, <1>7 DEF Down

LEMMA UpJoins ==
    ASSUME NEW g, NEW h, NEW last, NEW next, Up(g, last), Up(h, next),
           last <= next, \A k \in 1..Len(h) : h[k] > last, NEW j, j = g \o h
    PROVE  Up(j, next)
<1>1. g \in Seq(Nat) /\ h \in Seq(Nat) /\ last \in Nat /\ next \in Nat
  BY DEF Up
<1>2. /\ j \in Seq(Nat) /\ Len(j) = Len(g) + Len(h)
      /\ \A k \in 1..Len(g) : j[k] = g[k]
      /\ \A k \in 1..Len(h) : j[Len(g) + k] = h[k]
      /\ \A k \in 1..Len(j) : k \in 1..Len(g) \/ k - Len(g) \in 1..Len(h)
  BY <1>1, Joined
<1>3. PICK m, n \in Nat : m = Len(g) /\ n = Len(h)
  BY <1>1
<1>4. /\ \A k \in 1..m : g[k] \in Nat /\ g[k] <= last
      /\ \A k \in 1..n : h[k] \in Nat /\ h[k] <= next /\ h[k] > last
  BY <1>1, <1>3 DEF Up
<1>5. \A k \in 1..Len(j) : \/ k \in 1..m /\ j[k] = g[k]
                           \/ k - m \in 1..n /\ j[k] = h[k - m]
  <2> SUFFICES ASSUME NEW k \in 1..Len(j), k - m \in 1..n PROVE j[k] = h[k - m]
    BY <1>2, <1>3
  <2>1. PICK l \in 1..n : l = k - m
    OBVIOUS
  <2>2. m + l = k
    BY <2>1
  <2>3. j[m + l] = h[l]
    BY <1>2, <1>3
  <2> QED BY <2>1, <2>2, <2>3
<1>6. ASSUME NEW k \in 1..Len(j) PROVE j[k] <= next
  <2>1. CASE k \in 1..m /\ j[k] = g[k]
    <3>1. g[k] \in Nat /\ g[k] <= last
      BY <2>1, <1>4
    <3> QED BY <2>1, <3>1, <1>1
  <2>2. CASE k - m \in 1..n /\ j[k] = h[k - m]
    BY <2>2, <1>4
  <2> QED BY <2>1, <2>2, <1>5
<1>7. ASSUME NEW k \in 1..Len(j), NEW l \in 1..Len(j), k < l PROVE j[k] < j[l]
  <2>1. CASE k \in 1..m /\ l \in 1..m
    <3>1. j[k] = g[k] /\ j[l] = g[l]
      BY <2>1, <1>2, <1>3
    <3> QED BY <2>1, <3>1, <1>3, <1>7 DEF Up
  <2>2. CASE k \in 1..m /\ l - m \in 1..n
    <3>1. j[k] = g[k] /\ j[l] = h[l - m]
      BY <2>2, <1>2, <1>3, <1>5
    <3>2. g[k] \in Nat /\ g[k] <= last /\ h[l - m] \in Nat /\ h[l - m] > last
      BY <2>2, <1>4
    <3> QED BY <3>1, <3>2, <1>1
  <2>3. CASE k - m \in 1..n /\ l - m \in 1..n
    <3>1. j[k] = h[k - m] /\ j[l] = h[l - m]
      BY <2>3, <1>3, <1>5
    <3>2. PICK a, b \in 1..n : a = k - m /\ b = l - m
      BY <2>3
    <3>3. a < b
      BY <3>2, <1>7
    <3>4. h[a] < h[b]
      BY <3>3, <1>3 DEF Up
    <3> QED BY <3>1, <3>2, <3>4
  <2>4. k \in 1..m \/ k - m \in 1..n
    BY <1>5
  <2>5. l \in 1..m \/ l - m \in 1..n
    BY <1>5
  <2>6. k \in 1..m \/ ~(l \in 1..m)
    BY <1>7, <2>4
  <2> QED BY <2>1, <2>2, <2>3, <2>4, <2>5, <2>6
<1> QED BY <1>1, <1>2, <1>6, <1>7 DEF Up
LEMMA SeqOfNat ==
    ASSUME NEW ids \in SUBSET Nat, NEW d \in Seq(ids)
    PROVE  d \in Seq(Nat) /\ Len(d) \in Nat /\ \A k \in 1..Len(d) : d[k] \in ids /\ d[k] \in Nat
<1>1. Len(d) \in Nat /\ \A k \in 1..Len(d) : d[k] \in ids
  OBVIOUS
<1>2. d = [k \in 1..Len(d) |-> d[k]]
  OBVIOUS
<1>3. \A k \in 1..Len(d) : d[k] \in Nat
  BY <1>1
<1> QED BY <1>1, <1>2, <1>3

LEMMA NothingYet ==
    ASSUME NEW last \in Nat
    PROVE  /\ <<>> \in Seq(Nat) /\ 1..Len(<<>>) = {} /\ Down(<<>>, last) /\ Up(<<>>, last)
           /\ \A i : ~Has(<<>>, i)
<1>1. <<>> \in Seq(Nat) /\ 1..Len(<<>>) = {}
  OBVIOUS
<1> QED BY <1>1 DEF Down, Up, Has

\* A page taken off the ids: the highest of them, down to next.
PageTaken(taken, ids, last, next) ==
    /\ Down(taken, next) /\ next <= last
    /\ \A k \in 1..Len(taken) : taken[k] \in ids
    /\ \A i \in ids : i >= next => Has(taken, i)

LEMMA NextPage ==
    ASSUME NEW ids \in SUBSET Nat, IsFiniteSet(ids), NEW last \in Nat, \A i \in ids : i < last,
           NEW d, d = Descending(ids), PageSize \in Nat \ {0},
           NEW taken, taken = SubSeq(d, 1, IF Len(d) < PageSize THEN Len(d) ELSE PageSize),
           NEW next, next = IF taken = <<>> THEN last ELSE Last(taken)
    PROVE  /\ PageTaken(taken, ids, last, next)
           /\ ~(Len(d) > PageSize) => \A i \in ids : Has(taken, i)
<1>1. Lists(d, ids, Greater(ids))
  BY DescendingLists
<1>2. /\ d \in Seq(ids) /\ Len(d) \in Nat
      /\ \A i \in ids : \E k \in 1..Len(d) : d[k] = i
  BY <1>1 DEF Lists
<1>3. \A k, l \in 1..Len(d) : k < l => d[k] > d[l]
  BY <1>1 DEF Lists, Greater
<1>4. PICK n : n = IF Len(d) < PageSize THEN Len(d) ELSE PageSize
  OBVIOUS
<1>5. n \in Nat /\ n <= Len(d) /\ n <= PageSize /\ (n = 0 => ids = {})
  BY <1>2, <1>4
<1>6. taken = SubSeq(d, 1, n)
  BY <1>4
<1>7. taken \in Seq(ids) /\ Len(taken) = n /\ \A k \in 1..n : taken[k] = d[k]
  BY <1>2, <1>5, <1>6
<1>8. \A k \in 1..Len(d) : d[k] \in ids /\ d[k] \in Nat /\ d[k] < last
  <2>1. \A k \in 1..Len(d) : d[k] \in ids /\ d[k] \in Nat
    BY <1>2, SeqOfNat
  <2> QED BY <2>1
<1>9. ~(Len(d) > PageSize) => \A i \in ids : Has(taken, i)
  <2>1. ~(Len(d) > PageSize) => n = Len(d)
    BY <1>2, <1>4
  <2> QED BY <1>2, <1>7, <2>1 DEF Has
<1>10. CASE n = 0
  <2>1. taken = <<>> /\ next = last /\ ids = {}
    BY <1>5, <1>7, <1>10
  <2>2. Down(taken, next) /\ 1..Len(taken) = {}
    BY <2>1, NothingYet
  <2> QED BY <1>9, <2>1, <2>2 DEF PageTaken
<1>11. CASE n # 0
  <2>1. taken # <<>> /\ n \in 1..Len(d)
    BY <1>5, <1>7, <1>11
  <2>2. next = d[n]
    BY <2>1, <1>7, <1>5, <1>11 DEF Last
  <2>3. next \in Nat /\ next < last
    BY <2>1, <2>2, <1>8
  <2>4. \A k \in 1..n : k \in 1..Len(d) /\ d[k] >= next
    BY <1>2, <1>3, <1>5, <1>8, <2>1, <2>2
  <2>5. \A k \in 1..Len(d) : d[k] >= next => k \in 1..n
    BY <1>2, <1>3, <1>5, <1>8, <2>1, <2>2
  <2>6. Down(taken, next)
    <3>1. \A k \in 1..Len(taken) : taken[k] >= next
      BY <1>7, <2>4
    <3>2. \A k, l \in 1..Len(taken) : k < l => taken[k] > taken[l]
      BY <1>3, <1>7, <2>4
    <3>3. taken \in Seq(Nat)
      BY <1>7, SeqOfNat
    <3> QED BY <2>3, <3>1, <3>2, <3>3 DEF Down
  <2>7. \A i \in ids : i >= next => Has(taken, i)
    BY <1>2, <1>7, <2>5 DEF Has
  <2>8. \A k \in 1..Len(taken) : taken[k] \in ids
    BY <1>7
  <2> QED BY <1>9, <2>3, <2>6, <2>7, <2>8 DEF PageTaken
<1> QED BY <1>5, <1>10, <1>11
\* A page of the trades: the lowest of the ids, up to next.
TradesTaken(a, ids, last, next) ==
    /\ Up(a, next) /\ last <= next
    /\ \A k \in 1..Len(a) : a[k] \in ids
    /\ \A i \in ids : i <= next => Has(a, i)

LEMMA NextTrades ==
    ASSUME NEW ids \in SUBSET Nat, IsFiniteSet(ids), NEW last \in Nat, \A i \in ids : i > last,
           PageSize \in Nat \ {0},
           NEW taken, taken = {i \in ids : Cardinality({j \in ids : j < i}) < PageSize},
           NEW next, next = Max(taken \cup {last})
    PROVE  /\ TradesTaken(Ascending(taken), ids, last, next)
           /\ taken = ids => \A i \in ids : Has(Ascending(taken), i)
<1> DEFINE past(i) == {j \in ids : j < i}
<1>1. taken \subseteq ids /\ taken \in SUBSET Nat
  OBVIOUS
<1>2. IsFiniteSet(taken) /\ IsFiniteSet(taken \cup {last})
  BY <1>1, FS_Subset, FS_AddElement
<1>3. PICK a : a = Ascending(taken)
  OBVIOUS
<1>4. Lists(a, taken, Smaller(taken))
  BY <1>1, <1>2, <1>3, AscendingLists
<1>5. /\ a \in Seq(taken) /\ \A i \in taken : \E k \in 1..Len(a) : a[k] = i
  BY <1>4 DEF Lists
<1>6. \A k, l \in 1..Len(a) : k < l => a[k] < a[l]
  BY <1>4 DEF Lists, Smaller
<1>7. a \in Seq(Nat) /\ \A k \in 1..Len(a) : a[k] \in taken /\ a[k] \in Nat
  BY <1>1, <1>5, SeqOfNat
<1>8. next \in taken \cup {last} /\ \A y \in taken \cup {last} : next >= y
  <2>1. taken \cup {last} \in SUBSET Int /\ taken \cup {last} # {}
    BY <1>1
  <2> QED BY <1>2, <2>1, GreatestId
<1>9. next \in Nat /\ last <= next /\ \A y \in taken : y <= next
  BY <1>1, <1>8
<1>10. ASSUME NEW i \in ids, i <= next PROVE i \in taken
  <2>1. next \in taken
    BY <1>8, <1>9, <1>10
  <2>2. past(i) \subseteq past(next) /\ past(next) \subseteq ids /\ past(i) \subseteq ids
    <3>1. i \in Nat /\ \A j \in ids : j \in Nat
      OBVIOUS
    <3>2. \A j \in ids : j < i => j < next
      BY <1>9, <1>10, <3>1
    <3> QED BY <3>2
  <2>3. IsFiniteSet(past(next)) /\ IsFiniteSet(past(i))
    BY <2>2, FS_Subset
  <2>4. Cardinality(past(i)) <= Cardinality(past(next)) /\ Cardinality(past(next)) < PageSize
    BY <2>1, <2>2, <2>3, FS_Subset
  <2>5. Cardinality(past(i)) \in Nat /\ Cardinality(past(next)) \in Nat
    BY <2>3, FS_CardinalityType
  <2> QED
    <3>1. PICK m, n : m = Cardinality(past(i)) /\ n = Cardinality(past(next))
      OBVIOUS
    <3>2. m < PageSize
      BY <2>4, <2>5, <3>1
    <3> QED BY <3>1, <3>2
<1>11. \A i \in taken : Has(a, i)
  BY <1>5 DEF Has
<1>12. Up(a, next)
  BY <1>6, <1>7, <1>9 DEF Up
<1>13. TradesTaken(a, ids, last, next)
  BY <1>1, <1>7, <1>9, <1>10, <1>11, <1>12 DEF TradesTaken
<1> QED BY <1>3, <1>11, <1>13

-----------------------------------------------------------------------------
(* The rows of the runs *)

\* A run with its trades, whose id is below n.
RunOK(r, n) == r.id \in Nat /\ r.id < n /\ \E m \in Nat : DOMAIN r.trades = 1..m

\* No two runs have one id, the ones not yet committed included.
RunsInv ==
    /\ nextId.runs \in Nat
    /\ \A r \in runs : RunOK(r, nextId.runs)
    /\ \A r, q \in runs : r.id = q.id => r = q
    /\ \A t \in Threads : inserted[t].table = "runs" =>
         /\ RunOK(inserted[t], nextId.runs)
         /\ \A r \in runs : r.id # inserted[t].id
         /\ \A u \in Threads \ {t} : inserted[u].table = "runs" => inserted[u].id # inserted[t].id

LEMMA RunOKGrows ==
    ASSUME NEW r, NEW m, NEW n \in Nat, m \in Nat, m <= n, RunOK(r, m)
    PROVE  RunOK(r, n)
BY DEF RunOK

LEMMA NoRunInserted ==
    ASSUME RunsInv, UNCHANGED runs, nextId'.runs \in Nat, nextId.runs <= nextId'.runs,
           \A u \in Threads : inserted'[u] = inserted[u] \/ inserted'[u].table # "runs"
    PROVE  RunsInv'
<1>1. PICK m, n : m = nextId.runs /\ n = nextId'.runs
  OBVIOUS
<1>2. m \in Nat /\ n \in Nat /\ m <= n
  BY <1>1 DEF RunsInv
<1>3. \A r : RunOK(r, m) => RunOK(r, n)
  BY <1>2, RunOKGrows
<1>4. \A r \in runs : RunOK(r, n)
  BY <1>1, <1>3 DEF RunsInv
<1>5. ASSUME NEW t \in Threads, inserted'[t].table = "runs"
      PROVE  /\ RunOK(inserted'[t], n)
             /\ \A r \in runs : r.id # inserted'[t].id
             /\ \A u \in Threads \ {t} : inserted'[u].table = "runs" => inserted'[u].id # inserted'[t].id
  <2>1. inserted'[t] = inserted[t] /\ inserted[t].table = "runs"
    BY <1>5
  <2> QED BY <1>1, <1>3, <2>1 DEF RunsInv
<1> QED BY <1>1, <1>2, <1>4, <1>5 DEF RunsInv

LEMMA RunNumbered ==
    ASSUME RunsInv, UNCHANGED runs, NEW t \in Threads, NEW entry, entry.id = nextId.runs,
           \E m \in Nat : DOMAIN entry.trades = 1..m, inserted'[t] = entry,
           \A u \in Threads \ {t} : inserted'[u] = inserted[u],
           nextId'.runs = nextId.runs + 1
    PROVE  RunsInv'
<1>1. PICK m, n : m = nextId.runs /\ n = nextId'.runs
  OBVIOUS
<1>2. m \in Nat /\ n \in Nat /\ m < n /\ entry.id = m
  BY <1>1 DEF RunsInv
<1>3. \A r : RunOK(r, m) => RunOK(r, n)
  BY <1>2, RunOKGrows
<1>4. RunOK(entry, n)
  BY <1>2 DEF RunOK
<1>5. \A r : RunOK(r, m) => r.id # m
  BY <1>2 DEF RunOK
<1>6. \A r \in runs : RunOK(r, n) /\ r.id # m
  BY <1>1, <1>3, <1>5 DEF RunsInv
<1>7. ASSUME NEW u \in Threads, inserted'[u].table = "runs"
      PROVE  /\ RunOK(inserted'[u], n)
             /\ \A r \in runs : r.id # inserted'[u].id
             /\ \A w \in Threads \ {u} : inserted'[w].table = "runs" => inserted'[w].id # inserted'[u].id
  <2>1. CASE u = t
    <3>1. \A w \in Threads \ {t} : inserted'[w].table = "runs" => inserted'[w].id # m
      BY <1>1, <1>5 DEF RunsInv
    <3> QED BY <1>2, <1>4, <1>6, <2>1, <3>1
  <2>2. CASE u # t
    <3>1. inserted'[u] = inserted[u] /\ RunOK(inserted[u], m)
      BY <1>1, <1>7, <2>2 DEF RunsInv
    <3>2. \A r \in runs : r.id # inserted[u].id
      BY <1>7, <2>2, <3>1 DEF RunsInv
    <3>3. \A w \in Threads \ {u} : inserted'[w].table = "runs" => inserted'[w].id # inserted[u].id
      BY <1>2, <1>5, <1>7, <3>1 DEF RunsInv
    <3> QED BY <1>3, <3>1, <3>2, <3>3
  <2> QED BY <2>1, <2>2
<1>8. \A r, q \in runs : r.id = q.id => r = q
  BY DEF RunsInv
<1> QED BY <1>1, <1>2, <1>6, <1>7, <1>8 DEF RunsInv

LEMMA RunCommitted ==
    ASSUME RunsInv, NEW t \in Threads, inserted[t].table = "runs", runs' = runs \cup {inserted[t]},
           inserted'[t].table # "runs", \A u \in Threads \ {t} : inserted'[u] = inserted[u],
           nextId' = nextId
    PROVE  RunsInv'
<1>1. PICK entry : entry = inserted[t]
  OBVIOUS
<1>2. RunOK(entry, nextId.runs) /\ \A r \in runs : r.id # entry.id
  BY <1>1 DEF RunsInv
<1>3. \A r \in runs' : RunOK(r, nextId.runs)
  BY <1>1, <1>2 DEF RunsInv
<1>4. \A r, q \in runs' : r.id = q.id => r = q
  BY <1>1, <1>2 DEF RunsInv
<1>5. ASSUME NEW u \in Threads, inserted'[u].table = "runs"
      PROVE  /\ RunOK(inserted[u], nextId.runs) /\ inserted'[u] = inserted[u] /\ u # t
             /\ \A r \in runs : r.id # inserted[u].id
             /\ entry.id # inserted[u].id
             /\ \A w \in Threads \ {u} : inserted[w].table = "runs" => inserted[w].id # inserted[u].id
  BY <1>1, <1>5 DEF RunsInv
<1>6. ASSUME NEW u \in Threads, inserted'[u].table = "runs"
      PROVE  \A w \in Threads \ {u} : inserted'[w].table = "runs" => inserted'[w].id # inserted'[u].id
  BY <1>5, <1>6
<1> QED BY <1>1, <1>3, <1>4, <1>5, <1>6 DEF RunsInv

\* What a step that stores no run does to the rows of the runs.
RunsAside ==
    /\ runs' = runs
    /\ \E t \in Threads : \E entry : entry.table # "runs" /\ inserted' \in {inserted, [inserted EXCEPT ![t] = entry]}
    /\ \/ nextId' = nextId
       \/ \E x : nextId' = [nextId EXCEPT !.strategies = x]
       \/ \E x : nextId' = [nextId EXCEPT !.versions = x]
       \/ nextId' = [nextId EXCEPT !.runs = @ + 1]

LEMMA RunsAsideKeeps ==
    ASSUME RunsInv, StoreInv, RunsAside
    PROVE  RunsInv'
<1>1. PerThread /\ TablesOK
  BY DEF StoreInv
<1>2. nextId.runs \in Nat /\ nextId = [strategies |-> nextId.strategies, versions |-> nextId.versions, runs |-> nextId.runs]
  BY <1>1 DEF TablesOK
<1>3. nextId'.runs = nextId.runs \/ nextId'.runs = nextId.runs + 1
  BY <1>2 DEF RunsAside
<1>4. nextId'.runs \in Nat /\ nextId.runs <= nextId'.runs
  BY <1>2, <1>3
<1>5. PICK t \in Threads : \E entry : /\ entry.table # "runs"
                                   /\ inserted' \in {inserted, [inserted EXCEPT ![t] = entry]}
  BY DEF RunsAside
<1>6. inserted = [u \in Threads |-> inserted[u]]
  BY <1>1 DEF PerThread
<1>7. \A u \in Threads : inserted'[u] = inserted[u] \/ inserted'[u].table # "runs"
  BY <1>5, <1>6
<1> QED BY <1>4, <1>7, NoRunInserted DEF RunsAside

LEMMA EndIsAside ==
    ASSUME NEW t \in Threads, EndTransaction(t), UNCHANGED runs,
           \/ nextId' = nextId
           \/ \E x : nextId' = [nextId EXCEPT !.strategies = x]
           \/ \E x : nextId' = [nextId EXCEPT !.versions = x]
           \/ nextId' = [nextId EXCEPT !.runs = @ + 1]
    PROVE  RunsAside
<1>1. PICK entry : entry = NoRow
  OBVIOUS
<1>2. entry.table # "runs" /\ inserted' = [inserted EXCEPT ![t] = entry]
  BY <1>1 DEF EndTransaction, NoRow
<1>3. \E q : q.table # "runs" /\ inserted' \in {inserted, [inserted EXCEPT ![t] = q]}
  BY <1>2
<1> QED BY <1>3 DEF RunsAside

LEMMA StillIsAside ==
    ASSUME NEW t \in Threads, UNCHANGED <<inserted, runs, nextId>>
    PROVE  RunsAside
<1>1. PICK entry : entry = NoRow
  OBVIOUS
<1>2. entry.table # "runs"
  BY <1>1 DEF NoRow
<1>3. \E q : q.table # "runs" /\ inserted' \in {inserted, [inserted EXCEPT ![t] = q]}
  BY <1>2
<1> QED BY <1>3 DEF RunsAside

\* create_run and persist_completed_run insert the next run.
LEMMA InsertsRun ==
    ASSUME RunsInv, StoreInv, NEW t \in Threads, NEW job, NEW hash, NEW trades,
           inserted' = [inserted EXCEPT ![t] = RunRow(job, hash, trades)],
           \E m \in Nat : DOMAIN trades = 1..m,
           nextId' = [nextId EXCEPT !.runs = @ + 1], UNCHANGED runs
    PROVE  RunsInv'
<1>1. PerThread /\ TablesOK
  BY DEF StoreInv
<1>2. PICK entry : entry = RunRow(job, hash, trades)
  OBVIOUS
<1>3. entry.id = nextId.runs /\ entry.trades = trades
  BY <1>2 DEF RunRow
<1>4. nextId'.runs = nextId.runs + 1
  BY <1>1 DEF TablesOK
<1>5. inserted'[t] = entry /\ \A u \in Threads \ {t} : inserted'[u] = inserted[u]
  BY <1>1, <1>2 DEF PerThread
<1> QED BY <1>3, <1>4, <1>5, RunNumbered

LEMMA RunInputRuns ==
    ASSUME RunsInv, StoreInv, NEW t \in Threads, RunInput(t)
    PROVE  RunsInv'
<1>1. UNCHANGED runs
  BY DEF RunInput
<1>2. CASE EndTransaction(t)
  <2>1. nextId' = nextId \/ nextId' = [nextId EXCEPT !.runs = @ + 1]
    BY DEF RunInput, StoreInv, TablesOK
  <2>2. RunsAside
    BY <1>1, <1>2, <2>1, EndIsAside
  <2> QED BY <2>2, RunsAsideKeeps
<1>3. CASE /\ \A r \in runs : ~Clashes(r, Job(t), input[t])
           /\ inserted' = [inserted EXCEPT ![t] = RunRow(Job(t), input[t], <<>>)]
  <2>1. ~\E r \in runs : r.input = input[t]
    BY <1>3 DEF Clashes
  <2>2. nextId' = [nextId EXCEPT !.runs = @ + 1]
    BY <2>1 DEF RunInput
  <2>3. PICK job, hash, trades : job = Job(t) /\ hash = input[t] /\ trades = <<>>
    OBVIOUS
  <2>4. \E m \in Nat : DOMAIN trades = 1..m
    <3>1. DOMAIN trades = 1..0
      BY <2>3
    <3> QED BY <3>1
  <2>5. inserted' = [inserted EXCEPT ![t] = RunRow(job, hash, trades)]
    BY <1>3, <2>3
  <2> QED BY <1>1, <2>2, <2>4, <2>5, InsertsRun
<1> QED BY <1>2, <1>3 DEF RunInput

LEMMA PersistRunRuns ==
    ASSUME RunsInv, StoreInv, ReplayInv, NEW t \in Threads, PersistRun(t)
    PROVE  RunsInv'
<1>1. UNCHANGED runs
  BY DEF PersistRun
<1>2. CASE EndTransaction(t) /\ (nextId' = nextId \/ nextId' = [nextId EXCEPT !.runs = @ + 1])
  <2>1. RunsAside
    BY <1>1, <1>2, EndIsAside
  <2> QED BY <2>1, RunsAsideKeeps
<1>3. PICK hash : hash = InputHash(Job(t).what, tape, signals)
  OBVIOUS
<1>4. PICK job, trades : job = Job(t) /\ trades = replay.book.trades
  OBVIOUS
<1>5. CASE /\ inserted' = [inserted EXCEPT ![t] = RunRow(job, hash, trades)]
           /\ nextId' = [nextId EXCEPT !.runs = @ + 1]
  <2>1. trades \in Seq(TradeRow)
    BY <1>4 DEF ReplayInv, Balanced
  <2>2. \E m \in Nat : DOMAIN trades = 1..m
    <3>1. Len(trades) \in Nat /\ DOMAIN trades = 1..Len(trades)
      BY <2>1
    <3> QED BY <3>1
  <2> QED BY <1>1, <1>5, <2>2, InsertsRun
<1>6. \/ EndTransaction(t) /\ (nextId' = nextId \/ nextId' = [nextId EXCEPT !.runs = @ + 1])
      \/ /\ inserted' = [inserted EXCEPT ![t] = RunRow(Job(t), hash, replay.book.trades)]
         /\ nextId' = [nextId EXCEPT !.runs = @ + 1]
  BY <1>3 DEF PersistRun, AnswerAgain
<1> QED BY <1>2, <1>4, <1>5, <1>6

LEMMA CommitRunRuns ==
    ASSUME RunsInv, StoreInv, NEW t \in Threads, CommitRun(t)
    PROVE  RunsInv'
<1>1. /\ inserted[t].table = "runs" /\ runs' = runs \cup {inserted[t]} /\ UNCHANGED nextId
      /\ inserted' = [inserted EXCEPT ![t] = NoRow]
  BY DEF CommitRun, EndTransaction
<1>2. PICK entry : entry = NoRow
  OBVIOUS
<1>3. entry.table # "runs"
  BY <1>2 DEF NoRow
<1>4. inserted'[t] = entry /\ \A u \in Threads \ {t} : inserted'[u] = inserted[u]
  BY <1>1, <1>2 DEF StoreInv, PerThread
<1> QED BY <1>1, <1>3, <1>4, RunCommitted

\* The other steps of the threads.
LEMMA OtherRuns ==
    ASSUME RunsInv, StoreInv, NEW t \in Threads, UNCHANGED runs,
           \/ CreateStrategy(t)
           \/ Validate(t)
           \/ PublishKey(t)
           \/ PublishNumber(t)
           \/ CommitStore(t)
           \/ Break(t)
           \/ RunKey(t)
           \/ ListVersions(t)
           \/ ListRuns(t)
           \/ ListTrades(t)
    PROVE  RunsInv'
<1>1. CASE CreateStrategy(t)
  <2>1. \/ EndTransaction(t) /\ (nextId' = nextId \/ nextId' = [nextId EXCEPT !.strategies = @ + 1])
        \/ /\ \E entry : entry.table = "strategies" /\ inserted' = [inserted EXCEPT ![t] = entry]
           /\ nextId' = [nextId EXCEPT !.strategies = @ + 1]
    BY <1>1 DEF CreateStrategy, AnswerAgain
  <2>2. RunsAside
    BY <2>1, EndIsAside DEF RunsAside
  <2> QED BY <2>2, RunsAsideKeeps
<1>2. CASE PublishNumber(t)
  <2>1. nextId' = [nextId EXCEPT !.versions = @ + 1]
    BY <1>2 DEF PublishNumber
  <2>2. \/ EndTransaction(t)
        \/ \E entry : entry.table = "versions" /\ inserted' = [inserted EXCEPT ![t] = entry]
    BY <1>2 DEF PublishNumber
  <2>3. RunsAside
    BY <2>1, <2>2, EndIsAside DEF RunsAside
  <2> QED BY <2>3, RunsAsideKeeps
<1>3. CASE Validate(t) \/ PublishKey(t) \/ CommitStore(t) \/ Break(t) \/ RunKey(t)
  <2>1. UNCHANGED nextId /\ (EndTransaction(t) \/ UNCHANGED inserted)
    BY <1>3 DEF Validate, PublishKey, CommitStore, Break, RunKey, AnswerAgain
  <2>2. RunsAside
    BY <2>1, EndIsAside, StillIsAside
  <2> QED BY <2>2, RunsAsideKeeps
<1>4. CASE ListVersions(t) \/ ListRuns(t) \/ ListTrades(t)
  <2>1. UNCHANGED nextId /\ (EndTransaction(t) \/ UNCHANGED inserted)
    <3>1. CASE ListVersions(t)
      BY <3>1 DEF ListVersions, Ceiling, ReadPage
    <3>2. CASE ListRuns(t)
      BY <3>2 DEF ListRuns, Ceiling, ReadPage
    <3>3. CASE ListTrades(t)
      BY <3>3 DEF ListTrades, OpenTrades, ReadTrades
    <3> QED BY <1>4, <3>1, <3>2, <3>3
  <2>2. RunsAside
    BY <2>1, EndIsAside, StillIsAside
  <2> QED BY <2>2, RunsAsideKeeps
<1> QED BY <1>1, <1>2, <1>3, <1>4

LEMMA RunsInvInit == SubmissionInit => RunsInv
<1> SUFFICES ASSUME SubmissionInit PROVE RunsInv
  OBVIOUS
<1>1. runs = {} /\ nextId.runs = 1 /\ inserted = [t \in Threads |-> NoRow]
  BY DEF SubmissionInit
<1> QED BY <1>1 DEF RunsInv, NoRow

-----------------------------------------------------------------------------
(* Listings *)

PageShape(p) ==
    /\ p = [of |-> p.of, ceiling |-> p.ceiling, last |-> p.last, got |-> p.got,
            seen |-> p.seen, over |-> p.over]
    /\ p.ceiling \in Nat /\ p.seen \in SUBSET Nat
    /\ p.of \in {"versions", "runs", "trades"}
    /\ IF p.of = "trades" THEN Up(p.got, p.last) ELSE Down(p.got, p.last)

\* What the end of a listing has.
Whole(p) ==
    /\ \A i \in p.seen : Has(p.got, i)
    /\ p.of # "runs" => \A k \in 1..Len(p.got) : p.got[k] \in p.seen

\* What a listing of the strategy's versions, of the runs, of the trades
\* has on the way.
VersionsBelow(vs, s, c) == {i \in Nat : i <= c /\ \E v \in vs : v.strategy = s /\ v.id = i}
ReadingVersions(p, vs, s) ==
    /\ p.ceiling = 0 \/ p.ceiling \in p.seen
    /\ p.seen = VersionsBelow(vs, s, p.ceiling)
    /\ \A k \in 1..Len(p.got) : p.got[k] \in p.seen
    /\ \A i \in p.seen : i >= p.last => Has(p.got, i)
ReadingRuns(p, rs) ==
    /\ \A i \in p.seen : i <= p.ceiling /\ \E r \in rs : r.id = i
    /\ \A i \in p.seen : i >= p.last => Has(p.got, i)
ReadingTrades(p, rs, id) ==
    /\ \E r \in rs : r.id = id /\ p.seen = DOMAIN r.trades
    /\ \A i \in p.seen : i <= p.ceiling
    /\ \A k \in 1..Len(p.got) : p.got[k] \in p.seen
    /\ \A i \in p.seen : i <= p.last => Has(p.got, i)
Reading(p, job, vs, rs) ==
    \/ job.op = "list" /\ p.of = "versions" /\ ReadingVersions(p, vs, job.strategy)
    \/ job.op = "runs" /\ p.of = "runs" /\ ReadingRuns(p, rs)
    \/ job.op = "trades" /\ p.of = "trades" /\ ReadingTrades(p, rs, job.run)

Listing(p, q, job, vs, rs) ==
    \/ p = NoPage /\ q # "page"
    \/ PageShape(p) /\ (p.over => Whole(p)) /\ (q = "page" => Reading(p, job, vs, rs))

ListingInv == \A t \in Threads : Listing(page[t], pc[t], Job(t), versions, runs)

LEMMA ListingInvWhole ==
    ASSUME ListingInv
    PROVE  ListingIsWhole
<1> SUFFICES ASSUME NEW t \in Threads, page[t] # NoPage, page[t].over, NEW p, p = page[t],
                    NEW got, got = {p.got[i] : i \in DOMAIN p.got}
             PROVE  /\ p.seen \subseteq got
                    /\ \A i, j \in DOMAIN p.got :
                         i < j => IF p.of = "trades" THEN p.got[i] < p.got[j] ELSE p.got[i] > p.got[j]
                    /\ p.of # "runs" => got = p.seen
  BY DEF ListingIsWhole
<1>1. PageShape(p) /\ Whole(p)
  BY DEF ListingInv, Listing
<1>2. DOMAIN p.got = 1..Len(p.got) /\ p.got \in Seq(Nat)
  BY <1>1 DEF PageShape, Up, Down
<1>3. \A i : i \in got <=> Has(p.got, i)
  BY <1>2 DEF Has
<1>4. p.seen \subseteq got
  BY <1>1, <1>3 DEF Whole
<1>5. \A i, j \in DOMAIN p.got :
        i < j => IF p.of = "trades" THEN p.got[i] < p.got[j] ELSE p.got[i] > p.got[j]
  BY <1>1, <1>2 DEF PageShape, Up, Down
<1>6. p.of # "runs" => got = p.seen
  BY <1>1, <1>2, <1>4 DEF Whole
<1> QED BY <1>4, <1>5, <1>6
\* The tables grow, every version after those of its strategy.
GrowOn(vs, ws, rs, qs) ==
    /\ vs \subseteq ws /\ rs \subseteq qs
    /\ \A v \in ws \ vs : /\ v.id \in Nat \ {0}
                          /\ \A w \in vs : w.strategy = v.strategy => w.id \in Nat /\ w.id < v.id

LEMMA ReadingKept ==
    ASSUME NEW p, NEW job, NEW vs, NEW ws, NEW rs, NEW qs,
           GrowOn(vs, ws, rs, qs), PageShape(p), Reading(p, job, vs, rs)
    PROVE  Reading(p, job, ws, qs)
<1>1. CASE job.op = "list" /\ p.of = "versions" /\ ReadingVersions(p, vs, job.strategy)
  <2>1. PICK c, s : c = p.ceiling /\ s = job.strategy
    OBVIOUS
  <2>2. c \in Nat /\ (c = 0 \/ c \in p.seen) /\ p.seen = VersionsBelow(vs, s, c)
    BY <1>1, <2>1 DEF ReadingVersions, PageShape
  <2>3. ASSUME NEW v \in ws \ vs, v.strategy = s PROVE v.id \in Nat /\ ~(v.id <= c)
    <3>1. v.id \in Nat \ {0} /\ \A w \in vs : w.strategy = s => w.id \in Nat /\ w.id < v.id
      BY <2>3 DEF GrowOn
    <3>2. c = 0 \/ \E w \in vs : w.strategy = s /\ w.id = c
      BY <2>2 DEF VersionsBelow
    <3> QED BY <2>2, <3>1, <3>2
  <2>4. vs \subseteq ws
    BY DEF GrowOn
  <2>5. VersionsBelow(ws, s, c) = VersionsBelow(vs, s, c)
    BY <2>3, <2>4 DEF VersionsBelow
  <2> QED BY <1>1, <2>1, <2>2, <2>5 DEF ReadingVersions, Reading
<1>2. CASE job.op = "runs" /\ p.of = "runs" /\ ReadingRuns(p, rs)
  BY <1>2 DEF ReadingRuns, Reading, GrowOn
<1>3. CASE job.op = "trades" /\ p.of = "trades" /\ ReadingTrades(p, rs, job.run)
  BY <1>3 DEF ReadingTrades, Reading, GrowOn
<1> QED BY <1>1, <1>2, <1>3 DEF Reading

LEMMA ListingKept ==
    ASSUME NEW p, NEW q, NEW r, NEW job, NEW jop, NEW vs, NEW ws, NEW rs, NEW qs,
           Listing(p, q, job, vs, rs), GrowOn(vs, ws, rs, qs),
           r # "page" \/ (r = q /\ jop = job)
    PROVE  Listing(p, r, jop, ws, qs)
<1>1. CASE p = NoPage /\ q # "page"
  BY <1>1 DEF Listing
<1>2. CASE PageShape(p) /\ (p.over => Whole(p)) /\ (q = "page" => Reading(p, job, vs, rs))
  <2>1. r = "page" => Reading(p, jop, ws, qs)
    BY <1>2, ReadingKept
  <2> QED BY <1>2, <2>1 DEF Listing
<1> QED BY <1>1, <1>2 DEF Listing

\* The other threads go on with what they have.
LEMMA ListingInvKept ==
    ASSUME ListingInv, NEW t \in Threads,
           Listing(page[t], pc[t], Job(t), versions, runs)',
           \A u \in Threads \ {t} : page'[u] = page[u] /\ pc'[u] = pc[u] /\ todo'[u] = todo[u],
           GrowOn(versions, versions', runs, runs')
    PROVE  ListingInv'
<1> SUFFICES ASSUME NEW u \in Threads, u # t
             PROVE  Listing(page'[u], pc'[u], Job(u)', versions', runs')
  BY DEF ListingInv
<1>1. PICK p, q, job, vs, ws, rs, qs :
        /\ p = page[u] /\ q = pc[u] /\ job = Job(u) /\ vs = versions /\ ws = versions'
        /\ rs = runs /\ qs = runs'
  OBVIOUS
<1>2. page'[u] = p /\ pc'[u] = q /\ Job(u)' = job
  BY <1>1 DEF Job
<1>3. Listing(p, q, job, vs, rs) /\ GrowOn(vs, ws, rs, qs)
  BY <1>1 DEF ListingInv
<1>4. Listing(p, q, job, ws, qs)
  BY <1>3, ListingKept
<1> QED BY <1>1, <1>2, <1>4
\* A step that reads no page.
LEMMA BesideKeeps ==
    ASSUME ListingInv, PerThread, NEW t \in Threads, NEW q, q # "page",
           pc' = [pc EXCEPT ![t] = q], todo' = todo \/ \E x : todo' = [todo EXCEPT ![t] = x],
           page' = page, GrowOn(versions, versions', runs, runs')
    PROVE  ListingInv'
<1>1. /\ pc'[t] = q /\ \A u \in Threads \ {t} : pc'[u] = pc[u] /\ todo'[u] = todo[u]
  BY DEF PerThread
<1>2. PICK p, r, job, jop, vs, ws, rs, qs :
        /\ p = page[t] /\ r = pc[t] /\ job = Job(t) /\ jop = Job(t)' /\ vs = versions
        /\ ws = versions' /\ rs = runs /\ qs = runs'
  OBVIOUS
<1>3. Listing(p, r, job, vs, rs) /\ GrowOn(vs, ws, rs, qs)
  BY <1>2 DEF ListingInv
<1>4. Listing(p, q, jop, ws, qs)
  BY <1>3, ListingKept
<1>5. Listing(page[t], pc[t], Job(t), versions, runs)'
  BY <1>1, <1>2, <1>4
<1> QED BY <1>1, <1>5, ListingInvKept

\* A step that leaves the store alone.
LEMMA StoreAsideKeeps ==
    ASSUME ListingInv, UNCHANGED <<page, pc, todo>>,
           GrowOn(versions, versions', runs, runs')
    PROVE  ListingInv'
<1> SUFFICES ASSUME NEW t \in Threads
             PROVE  Listing(page[t], pc[t], Job(t), versions, runs)'
  BY DEF ListingInv
<1>1. PICK p, q, job, vs, ws, rs, qs :
        /\ p = page[t] /\ q = pc[t] /\ job = Job(t) /\ vs = versions /\ ws = versions'
        /\ rs = runs /\ qs = runs'
  OBVIOUS
<1>2. page'[t] = p /\ pc'[t] = q /\ Job(t)' = job
  BY <1>1 DEF Job
<1>3. Listing(p, q, job, vs, rs) /\ GrowOn(vs, ws, rs, qs)
  BY <1>1 DEF ListingInv
<1>4. Listing(p, q, job, ws, qs)
  BY <1>3, ListingKept
<1> QED BY <1>1, <1>2, <1>4

LEMMA MaxIdIsLast ==
    ASSUME NEW rows, IsFiniteSet(rows), \A r \in rows : r.id \in Nat \ {0}
    PROVE  /\ IdsOf(rows) \in SUBSET Nat /\ IsFiniteSet(IdsOf(rows))
           /\ MaxId(rows) \in Nat /\ (MaxId(rows) = 0 \/ MaxId(rows) \in IdsOf(rows))
           /\ \A i \in IdsOf(rows) : i <= MaxId(rows)
<1>1. PICK f : f = [r \in rows |-> r.id]
  OBVIOUS
<1>2. PICK N : N = {f[r] : r \in rows}
  OBVIOUS
<1>3. \A r \in rows : f[r] = r.id /\ f[r] \in Nat \ {0}
  BY <1>1
<1>4. N = IdsOf(rows)
  BY <1>2, <1>3 DEF IdsOf
<1>5. IsFiniteSet(N)
  BY <1>2, ImageFinite
<1>6. N \in SUBSET Nat
  BY <1>2, <1>3
<1>7. CASE rows = {}
  BY <1>2, <1>4, <1>5, <1>6, <1>7 DEF MaxId
<1>8. CASE rows # {}
  <2>1. N # {} /\ N \in SUBSET Int
    BY <1>2, <1>6, <1>8
  <2>2. Max(N) \in N /\ \A y \in N : Max(N) >= y
    BY <1>5, <2>1, GreatestId
  <2>3. MaxId(rows) = Max(N)
    BY <1>4, <1>8 DEF MaxId
  <2>4. PICK m : m = Max(N)
    OBVIOUS
  <2>5. m \in Nat /\ \A i \in N : i <= m
    BY <1>6, <2>2, <2>4
  <2> QED BY <1>4, <1>5, <1>6, <2>2, <2>3, <2>4, <2>5
<1> QED BY <1>7, <1>8

\* What reading a page makes of a listing downwards: below are the ids the
\* page is taken from.
ReadOn(p, q, below) ==
    /\ PageShape(q) /\ q.of = p.of /\ q.ceiling = p.ceiling /\ q.seen = p.seen
    /\ \A i \in q.seen : i >= q.last => Has(q.got, i)
    /\ q.over => \A i \in q.seen : Has(q.got, i)
    /\ \A i : Has(q.got, i) => Has(p.got, i) \/ i \in below

\* q is p after a page has been taken off below.
OnePage(p, below, d, taken, next, q) ==
    /\ d = Descending(below)
    /\ taken = SubSeq(d, 1, IF Len(d) < PageSize THEN Len(d) ELSE PageSize)
    /\ next = IF taken = <<>> THEN p.last ELSE Last(taken)
    /\ q = [of |-> p.of, ceiling |-> p.ceiling, last |-> next, got |-> p.got \o taken,
            seen |-> p.seen, over |-> ~(Len(d) > PageSize)]

LEMMA PageReads ==
    ASSUME NEW p, PageShape(p), p.of # "trades", PageSize \in Nat \ {0},
           NEW below \in SUBSET Nat, IsFiniteSet(below), \A i \in below : i < p.last,
           \A i \in p.seen : IF i >= p.last THEN Has(p.got, i) ELSE i \in below,
           NEW d, NEW taken, NEW next, NEW q, OnePage(p, below, d, taken, next, q)
    PROVE  ReadOn(p, q, below)
<1>1. PICK g, last, j : g = p.got /\ last = p.last /\ j = g \o taken
  OBVIOUS
<1>2. Down(g, last) /\ last \in Nat /\ g \in Seq(Nat)
  BY <1>1 DEF PageShape, Down
<1>3. /\ PageTaken(taken, below, last, next)
      /\ ~(Len(d) > PageSize) => \A i \in below : Has(taken, i)
  <2>1. /\ d = Descending(below)
        /\ taken = SubSeq(d, 1, IF Len(d) < PageSize THEN Len(d) ELSE PageSize)
        /\ next = IF taken = <<>> THEN last ELSE Last(taken)
    BY <1>1 DEF OnePage
  <2> QED BY <1>1, <1>2, <2>1, NextPage
<1>4. /\ Down(taken, next) /\ next <= last /\ taken \in Seq(Nat) /\ next \in Nat
      /\ \A k \in 1..Len(taken) : taken[k] \in below
      /\ \A i \in below : i >= next => Has(taken, i)
  BY <1>3 DEF PageTaken, Down
<1>5. Down(j, next)
  BY <1>1, <1>2, <1>4, DownJoins
<1>6. \A i : Has(j, i) <=> Has(g, i) \/ Has(taken, i)
  <2>1. HasBoth(j, g, taken)
    BY <1>1, <1>2, <1>4, JoinedHas
  <2> QED BY <2>1 DEF HasBoth
<1>7. /\ q.of = p.of /\ q.ceiling = p.ceiling /\ q.last = next /\ q.got = j /\ q.seen = p.seen
      /\ q.over = ~(Len(d) > PageSize)
      /\ q = [of |-> q.of, ceiling |-> q.ceiling, last |-> q.last, got |-> q.got,
              seen |-> q.seen, over |-> q.over]
  BY <1>1 DEF OnePage
<1>8. PageShape(q)
  BY <1>5, <1>7 DEF PageShape
<1>9. \A i \in p.seen : i >= next => Has(j, i)
  BY <1>1, <1>4, <1>6
<1>10. q.over => \A i \in p.seen : Has(j, i)
  BY <1>1, <1>3, <1>6, <1>7
<1>11. \A i : Has(j, i) => Has(g, i) \/ i \in below
  <2>1. \A i : Has(taken, i) => i \in below
    BY <1>4 DEF Has
  <2> QED BY <1>6, <2>1
<1> QED BY <1>1, <1>7, <1>8, <1>9, <1>10, <1>11 DEF ReadOn
LEMMA OpensDown ==
    ASSUME NEW rows, IsFiniteSet(rows), \A r \in rows : r.id \in Nat \ {0},
           NEW of \in {"versions", "runs"},
           NEW p, p = [of |-> of, ceiling |-> MaxId(rows), last |-> MaxId(rows) + 1, got |-> <<>>,
                       seen |-> IdsOf(rows), over |-> FALSE]
    PROVE  /\ PageShape(p) /\ ~p.over /\ p.of = of /\ p.seen = IdsOf(rows)
           /\ p.ceiling = 0 \/ p.ceiling \in p.seen
           /\ \A i \in p.seen : i <= p.ceiling /\ ~(i >= p.last)
           /\ 1..Len(p.got) = {}
<1>1. PICK m, ids : m = MaxId(rows) /\ ids = IdsOf(rows)
  OBVIOUS
<1>2. m \in Nat /\ ids \in SUBSET Nat /\ (m = 0 \/ m \in ids) /\ \A i \in ids : i <= m
  BY <1>1, MaxIdIsLast
<1>3. /\ p.of = of /\ p.ceiling = m /\ p.last = m + 1 /\ p.got = <<>> /\ p.seen = ids
      /\ p.over = FALSE
      /\ p = [of |-> p.of, ceiling |-> p.ceiling, last |-> p.last, got |-> p.got,
              seen |-> p.seen, over |-> p.over]
  BY <1>1
<1>4. Down(p.got, p.last) /\ 1..Len(p.got) = {}
  BY <1>2, <1>3, NothingYet
<1>5. PageShape(p)
  BY <1>2, <1>3, <1>4 DEF PageShape
<1>6. \A i \in ids : i <= m /\ ~(i >= m + 1)
  BY <1>2
<1> QED BY <1>1, <1>2, <1>3, <1>4, <1>5, <1>6

LEMMA ReadsVersions ==
    ASSUME NEW p, NEW q, NEW vs, NEW s, ReadingVersions(p, vs, s), p.of = "versions",
           NEW below, ReadOn(p, q, below), below \subseteq p.seen
    PROVE  ReadingVersions(q, vs, s) /\ (q.over => Whole(q))
<1>1. q.of = p.of /\ q.ceiling = p.ceiling /\ q.seen = p.seen
  BY DEF ReadOn
<1>2. \A i : Has(p.got, i) => i \in p.seen
  BY DEF ReadingVersions, Has
<1>3. \A i : Has(q.got, i) => i \in q.seen
  BY <1>1, <1>2 DEF ReadOn
<1>4. \A k \in 1..Len(q.got) : q.got[k] \in q.seen
  BY <1>3 DEF Has
<1>5. ReadingVersions(q, vs, s)
  BY <1>1, <1>4 DEF ReadOn, ReadingVersions
<1>6. q.over => Whole(q)
  BY <1>1, <1>4 DEF ReadOn, Whole
<1> QED BY <1>5, <1>6

LEMMA ReadsRuns ==
    ASSUME NEW p, NEW q, NEW rs, ReadingRuns(p, rs), p.of = "runs",
           NEW below, ReadOn(p, q, below)
    PROVE  ReadingRuns(q, rs) /\ (q.over => Whole(q))
BY DEF ReadOn, ReadingRuns, Whole

\* What a thread has of its page after it has read one more.
TurnsPage(t, q) ==
    /\ page'[t] = q /\ \A u \in Threads \ {t} : page'[u] = page[u]
    /\ IF q.over THEN EndTransaction(t) ELSE UNCHANGED <<todo, pc, locks, inserted>>

LEMMA ReadPageIs ==
    ASSUME PerThread, NEW t \in Threads, NEW rows, ReadPage(t, rows), NEW p, p = page[t], PageShape(p),
           NEW below, below = {i \in IdsOf(rows) : i <= p.ceiling /\ i < p.last},
           NEW d, NEW taken, NEW next, NEW q, OnePage(p, below, d, taken, next, q)
    PROVE  TurnsPage(t, q)
<1>1. q.over = ~(Len(d) > PageSize)
  BY DEF OnePage
<1>2. /\ page' = [page EXCEPT ![t].got = @ \o taken,
                              ![t].last = IF taken = <<>> THEN @ ELSE Last(taken),
                              ![t].over = ~(Len(d) > PageSize)]
      /\ IF Len(d) > PageSize THEN UNCHANGED <<todo, pc, locks, inserted>> ELSE EndTransaction(t)
  BY DEF ReadPage, OnePage
<1>3. page = [u \in Threads |-> page[u]]
  BY DEF PerThread
<1>4. p = [of |-> p.of, ceiling |-> p.ceiling, last |-> p.last, got |-> p.got,
           seen |-> p.seen, over |-> p.over]
  BY DEF PageShape
<1>5. page'[t] = [p EXCEPT !.got = p.got \o taken, !.last = next, !.over = ~(Len(d) > PageSize)]
  BY <1>2, <1>3, <1>4 DEF OnePage
<1>6. page'[t] = q
  BY <1>4, <1>5 DEF OnePage
<1>7. \A u \in Threads \ {t} : page'[u] = page[u]
  BY <1>2, <1>3
<1> QED BY <1>1, <1>2, <1>6, <1>7 DEF TurnsPage
\* A listing is opened, or reads a page: what is left to show is the page.
LEMMA BrowseListing ==
    ASSUME ListingInv, PerThread, NEW t \in Threads, NEW q, page'[t] = q,
           \A u \in Threads \ {t} : page'[u] = page[u],
           UNCHANGED <<versions, runs>>, PageShape(q), q.over => Whole(q),
           \/ EndTransaction(t)
           \/ /\ pc' = pc \/ pc' = [pc EXCEPT ![t] = "page"]
              /\ UNCHANGED todo /\ Reading(q, Job(t), versions, runs)
    PROVE  ListingInv'
<1>1. GrowOn(versions, versions', runs, runs')
  BY DEF GrowOn
<1>2. \A u \in Threads \ {t} : pc'[u] = pc[u] /\ todo'[u] = todo[u]
  BY DEF PerThread, EndTransaction
<1>3. PICK vs, rs : vs = versions /\ rs = runs
  OBVIOUS
<1>4. CASE EndTransaction(t)
  <2>1. pc'[t] = "idle"
    BY <1>4 DEF PerThread, EndTransaction
  <2>2. \A job : Listing(q, "idle", job, vs, rs)
    BY <1>3 DEF Listing
  <2>3. Listing(page[t], pc[t], Job(t), versions, runs)'
    BY <1>3, <2>1, <2>2
  <2> QED BY <1>1, <1>2, <2>3, ListingInvKept
<1>5. CASE UNCHANGED todo /\ Reading(q, Job(t), versions, runs)
  <2>1. PICK job : job = Job(t)
    OBVIOUS
  <2>2. Job(t)' = job
    BY <1>5, <2>1 DEF Job
  <2>3. \A r : Listing(q, r, job, vs, rs)
    BY <1>3, <1>5, <2>1 DEF Listing
  <2>4. Listing(page[t], pc[t], Job(t), versions, runs)'
    BY <1>3, <2>2, <2>3
  <2> QED BY <1>1, <1>2, <2>4, ListingInvKept
<1> QED BY <1>4, <1>5

\* What the pages are read from.
LEMMA ReadingWhat ==
    ASSUME ListingInv, NEW t \in Threads, pc[t] = "page"
    PROVE  PageShape(page[t]) /\ Reading(page[t], Job(t), versions, runs)
BY DEF ListingInv, Listing

LEMMA BelowOf ==
    ASSUME NEW rows, IsFiniteSet(rows), \A r \in rows : r.id \in Nat \ {0}, NEW c, NEW n,
           NEW below, below = {i \in IdsOf(rows) : i <= c /\ i < n}
    PROVE  below \in SUBSET Nat /\ IsFiniteSet(below) /\ \A i \in below : i < n /\ i <= c
<1>1. IdsOf(rows) \in SUBSET Nat /\ IsFiniteSet(IdsOf(rows))
  BY MaxIdIsLast
<1>2. below \subseteq IdsOf(rows) /\ \A i \in below : i < n /\ i <= c
  OBVIOUS
<1>3. IsFiniteSet(below)
  BY <1>1, <1>2, FS_Subset
<1> QED BY <1>1, <1>2, <1>3

LEMMA ListVersionsListing ==
    ASSUME StoreInv, ListingInv, NEW t \in Threads, ListVersions(t), UNCHANGED runs
    PROVE  ListingInv'
<1>1. PICK s, rows, vs : s = Job(t).strategy /\ rows = Siblings(s) /\ vs = versions
  OBVIOUS
<1>2. rows = {v \in vs : v.strategy = s} /\ rows \subseteq versions
  BY <1>1 DEF Siblings
<1>3. IsFiniteSet(rows) /\ \A r \in rows : r.id \in Nat \ {0}
  BY <1>2, FS_Subset DEF StoreInv, TablesOK, TableOK
<1>4. PerThread /\ Job(t).op = "list" /\ UNCHANGED versions
  BY DEF ListVersions, StoreInv
<1>5. CASE pc[t] = "idle" /\ Ceiling(t, "versions", rows)
  <2>1. PICK q : q = [of |-> "versions", ceiling |-> MaxId(rows), last |-> MaxId(rows) + 1,
                      got |-> <<>>, seen |-> IdsOf(rows), over |-> FALSE]
    OBVIOUS
  <2>2. page' = [page EXCEPT ![t] = q] /\ pc' = [pc EXCEPT ![t] = "page"] /\ UNCHANGED todo
    BY <1>5, <2>1 DEF Ceiling
  <2>3. page'[t] = q /\ \A u \in Threads \ {t} : page'[u] = page[u]
    BY <1>4, <2>2 DEF PerThread
  <2>4. /\ PageShape(q) /\ ~q.over /\ q.of = "versions" /\ q.seen = IdsOf(rows)
        /\ q.ceiling = 0 \/ q.ceiling \in q.seen
        /\ \A i \in q.seen : i <= q.ceiling /\ ~(i >= q.last)
        /\ 1..Len(q.got) = {}
    BY <1>3, <2>1, OpensDown
  <2>5. q.seen = VersionsBelow(vs, s, q.ceiling)
    BY <1>2, <1>3, <2>4 DEF IdsOf, VersionsBelow
  <2>6. ReadingVersions(q, vs, s)
    BY <2>4, <2>5 DEF ReadingVersions
  <2>7. Reading(q, Job(t), versions, runs)
    BY <1>1, <1>4, <2>4, <2>6 DEF Reading
  <2> QED BY <1>4, <2>2, <2>3, <2>4, <2>7, BrowseListing
<1>6. CASE pc[t] = "page" /\ ReadPage(t, rows)
  <2>1. PICK p : p = page[t]
    OBVIOUS
  <2>2. PageShape(p) /\ p.of = "versions" /\ ReadingVersions(p, vs, s)
    BY <1>1, <1>4, <1>6, <2>1, ReadingWhat DEF Reading
  <2>3. PICK below : below = {i \in IdsOf(rows) : i <= p.ceiling /\ i < p.last}
    OBVIOUS
  <2>4. PICK d, taken, next, q : OnePage(p, below, d, taken, next, q)
    BY DEF OnePage
  <2>5. TurnsPage(t, q)
    BY <1>4, <1>6, <2>1, <2>2, <2>3, <2>4, ReadPageIs
  <2>6. below \in SUBSET Nat /\ IsFiniteSet(below) /\ \A i \in below : i < p.last /\ i <= p.ceiling
    BY <1>3, <2>3, BelowOf
  <2>7. p.seen = {i \in Nat : i <= p.ceiling /\ \E v \in rows : v.id = i}
    BY <1>2, <2>2 DEF ReadingVersions, VersionsBelow
  <2>8. below \subseteq p.seen
    BY <2>3, <2>6, <2>7 DEF IdsOf
  <2>9. \A i \in p.seen : IF i >= p.last THEN Has(p.got, i) ELSE i \in below
    <3> SUFFICES ASSUME NEW i \in p.seen, ~(i >= p.last) PROVE i \in below
      BY <2>2 DEF ReadingVersions
    <3>1. i \in Nat /\ i <= p.ceiling /\ i \in IdsOf(rows)
      BY <2>7 DEF IdsOf
    <3>2. p.last \in Nat
      BY <2>2 DEF PageShape, Down
    <3> QED BY <2>3, <3>1, <3>2
  <2>10. PageSize \in Nat \ {0}
    BY SettingsAssumption
  <2>11. ReadOn(p, q, below)
    BY <2>2, <2>4, <2>6, <2>9, <2>10, PageReads
  <2>13. ReadingVersions(q, vs, s) /\ (q.over => Whole(q))
    BY <2>2, <2>8, <2>11, ReadsVersions
  <2>14. PageShape(q) /\ q.of = "versions"
    BY <2>2, <2>11 DEF ReadOn
  <2>15. Reading(q, Job(t), versions, runs)
    BY <1>1, <1>4, <2>13, <2>14 DEF Reading
  <2>16. /\ page'[t] = q /\ \A u \in Threads \ {t} : page'[u] = page[u]
         /\ EndTransaction(t) \/ (pc' = pc /\ UNCHANGED todo)
    BY <2>5 DEF TurnsPage
  <2> QED BY <1>4, <2>13, <2>14, <2>15, <2>16, BrowseListing
<1> QED BY <1>1, <1>5, <1>6 DEF ListVersions
LEMMA ListRunsListing ==
    ASSUME StoreInv, ListingInv, NEW t \in Threads, ListRuns(t)
    PROVE  ListingInv'
<1>1. PICK rows : rows = runs
  OBVIOUS
<1>2. IsFiniteSet(rows) /\ \A r \in rows : r.id \in Nat \ {0}
  BY <1>1 DEF StoreInv, TablesOK, TableOK
<1>3. PerThread /\ Job(t).op = "runs" /\ UNCHANGED <<versions, runs>>
  BY DEF ListRuns, StoreInv
<1>4. CASE pc[t] = "idle" /\ Ceiling(t, "runs", rows)
  <2>1. PICK q : q = [of |-> "runs", ceiling |-> MaxId(rows), last |-> MaxId(rows) + 1,
                      got |-> <<>>, seen |-> IdsOf(rows), over |-> FALSE]
    OBVIOUS
  <2>2. page' = [page EXCEPT ![t] = q] /\ pc' = [pc EXCEPT ![t] = "page"] /\ UNCHANGED todo
    BY <1>4, <2>1 DEF Ceiling
  <2>3. page'[t] = q /\ \A u \in Threads \ {t} : page'[u] = page[u]
    BY <1>3, <2>2 DEF PerThread
  <2>4. /\ PageShape(q) /\ ~q.over /\ q.of = "runs" /\ q.seen = IdsOf(rows)
        /\ q.ceiling = 0 \/ q.ceiling \in q.seen
        /\ \A i \in q.seen : i <= q.ceiling /\ ~(i >= q.last)
        /\ 1..Len(q.got) = {}
    BY <1>2, <2>1, OpensDown
  <2>5. ReadingRuns(q, rows)
    BY <2>4 DEF ReadingRuns, IdsOf
  <2>6. Reading(q, Job(t), versions, runs)
    BY <1>1, <1>3, <2>4, <2>5 DEF Reading
  <2> QED BY <1>3, <2>2, <2>3, <2>4, <2>6, BrowseListing
<1>5. CASE pc[t] = "page" /\ ReadPage(t, rows)
  <2>1. PICK p : p = page[t]
    OBVIOUS
  <2>2. PageShape(p) /\ p.of = "runs" /\ ReadingRuns(p, rows)
    BY <1>1, <1>3, <1>5, <2>1, ReadingWhat DEF Reading
  <2>3. PICK below : below = {i \in IdsOf(rows) : i <= p.ceiling /\ i < p.last}
    OBVIOUS
  <2>4. PICK d, taken, next, q : OnePage(p, below, d, taken, next, q)
    BY DEF OnePage
  <2>5. TurnsPage(t, q)
    BY <1>3, <1>5, <2>1, <2>2, <2>3, <2>4, ReadPageIs
  <2>6. below \in SUBSET Nat /\ IsFiniteSet(below) /\ \A i \in below : i < p.last /\ i <= p.ceiling
    BY <1>2, <2>3, BelowOf
  <2>7. \A i \in p.seen : IF i >= p.last THEN Has(p.got, i) ELSE i \in below
    <3> SUFFICES ASSUME NEW i \in p.seen, ~(i >= p.last) PROVE i \in below
      BY <2>2 DEF ReadingRuns
    <3>1. i \in Nat /\ i <= p.ceiling /\ i \in IdsOf(rows)
      BY <2>2 DEF IdsOf, ReadingRuns, PageShape
    <3>2. p.last \in Nat
      BY <2>2 DEF PageShape, Down
    <3> QED BY <2>3, <3>1, <3>2
  <2>8. PageSize \in Nat \ {0}
    BY SettingsAssumption
  <2>9. ReadOn(p, q, below)
    BY <2>2, <2>4, <2>6, <2>7, <2>8, PageReads
  <2>11. ReadingRuns(q, rows) /\ (q.over => Whole(q))
    BY <2>2, <2>9, ReadsRuns
  <2>12. PageShape(q) /\ q.of = "runs"
    BY <2>2, <2>9 DEF ReadOn
  <2>13. Reading(q, Job(t), versions, runs)
    BY <1>1, <1>3, <2>11, <2>12 DEF Reading
  <2>14. /\ page'[t] = q /\ \A u \in Threads \ {t} : page'[u] = page[u]
         /\ EndTransaction(t) \/ (pc' = pc /\ UNCHANGED todo)
    BY <2>5 DEF TurnsPage
  <2> QED BY <1>3, <2>11, <2>12, <2>13, <2>14, BrowseListing
<1> QED BY <1>1, <1>4, <1>5 DEF ListRuns

LEMMA PublishedIds ==
    ASSUME RunsInv, NEW t \in Threads
    PROVE  /\ Published(t) \in SUBSET (Nat \ {0}) /\ IsFiniteSet(Published(t))
           /\ \A r \in runs : r.id = Job(t).run => Published(t) = DOMAIN r.trades
<1>1. PICK id : id = Job(t).run
  OBVIOUS
<1>2. ASSUME NEW r \in runs, r.id = id PROVE Published(t) = DOMAIN r.trades
  <2>1. {q \in runs : q.id = id} = {r}
    BY <1>2 DEF RunsInv
  <2>2. UNION {DOMAIN q.trades : q \in {r}} = DOMAIN r.trades
    OBVIOUS
  <2> QED BY <1>1, <2>1, <2>2 DEF Published
<1>3. CASE \E r \in runs : r.id = id
  <2>1. PICK r \in runs : r.id = id
    BY <1>3
  <2>2. PICK m \in Nat : DOMAIN r.trades = 1..m
    BY DEF RunsInv, RunOK
  <2>3. Published(t) = 1..m /\ IsFiniteSet(1..m)
    BY <1>2, <2>1, <2>2, FS_Interval
  <2>4. Published(t) \in SUBSET (Nat \ {0})
    BY <2>3
  <2> QED BY <1>1, <1>2, <2>3, <2>4
<1>4. CASE ~\E r \in runs : r.id = id
  <2>1. Published(t) = {}
    BY <1>1, <1>4 DEF Published
  <2> QED BY <1>1, <1>4, <2>1, FS_EmptySet
<1> QED BY <1>3, <1>4

LEMMA OpenTradesListing ==
    ASSUME StoreInv, RunsInv, ListingInv, NEW t \in Threads, Job(t).op = "trades", OpenTrades(t),
           UNCHANGED <<versions, runs>>
    PROVE  ListingInv'
<1>1. PerThread
  BY DEF StoreInv
<1>2. CASE /\ page' = [page EXCEPT ![t] =
                [of |-> "trades", ceiling |-> Max(Published(t) \cup {0}), last |-> 0,
                 got |-> <<>>, seen |-> Published(t), over |-> FALSE]]
           /\ pc' = [pc EXCEPT ![t] = "page"] /\ UNCHANGED todo
           /\ Job(t).run \in IdsOf(runs)
  <2>1. PICK ids, m : ids = Published(t) /\ m = Max(ids \cup {0})
    OBVIOUS
  <2>2. /\ ids \in SUBSET (Nat \ {0}) /\ IsFiniteSet(ids)
        /\ \E r \in runs : r.id = Job(t).run /\ ids = DOMAIN r.trades
    BY <1>2, <2>1, PublishedIds DEF IdsOf
  <2>3. m \in ids \cup {0} /\ \A y \in ids \cup {0} : m >= y
    <3>1. IsFiniteSet(ids \cup {0})
      BY <2>2, FS_AddElement
    <3>2. ids \cup {0} \in SUBSET Int /\ ids \cup {0} # {}
      BY <2>2
    <3> QED BY <2>1, <3>1, <3>2, GreatestId
  <2>4. m \in Nat /\ (\A i \in ids : i <= m) /\ (ids = {} => m = 0) /\ \A i \in ids : ~(i <= 0)
    BY <2>2, <2>3
  <2>5. PICK q : q = [of |-> "trades", ceiling |-> m, last |-> 0, got |-> <<>>, seen |-> ids,
                      over |-> FALSE]
    OBVIOUS
  <2>6. page' = [page EXCEPT ![t] = q]
    BY <1>2, <2>1, <2>5
  <2>7. page'[t] = q /\ \A u \in Threads \ {t} : page'[u] = page[u]
    BY <1>1, <2>6 DEF PerThread
  <2>8. /\ q.of = "trades" /\ q.ceiling = m /\ q.last = 0 /\ q.got = <<>> /\ q.seen = ids /\ ~q.over
        /\ q = [of |-> q.of, ceiling |-> q.ceiling, last |-> q.last, got |-> q.got,
                seen |-> q.seen, over |-> q.over]
    BY <2>5
  <2>9. Up(q.got, q.last) /\ 1..Len(q.got) = {}
    BY <2>8, NothingYet
  <2>10. PageShape(q)
    BY <2>2, <2>4, <2>8, <2>9 DEF PageShape
  <2>11. ReadingTrades(q, runs, Job(t).run)
    BY <2>2, <2>4, <2>8, <2>9 DEF ReadingTrades
  <2>12. Reading(q, Job(t), versions, runs)
    BY <2>8, <2>11 DEF Reading
  <2> QED BY <1>1, <1>2, <2>7, <2>8, <2>10, <2>12, BrowseListing
<1>3. CASE EndTransaction(t) /\ UNCHANGED page
  <2>1. /\ pc' = [pc EXCEPT ![t] = "idle"] /\ \E x : todo' = [todo EXCEPT ![t] = x]
    BY <1>3 DEF EndTransaction
  <2>2. GrowOn(versions, versions', runs, runs')
    BY DEF GrowOn
  <2> QED BY <1>1, <1>3, <2>1, <2>2, BesideKeeps
<1> QED BY <1>2, <1>3 DEF OpenTrades

\* The page q that ReadTrades makes of p when `ids` are the trades of the
\* cursor's snapshot still ahead of it.
TradesPage(p, q, ids, taken, next) ==
    /\ ids \in SUBSET Nat /\ IsFiniteSet(ids)
    /\ \A i \in ids : i > p.last /\ i \in p.seen
    /\ \A i \in p.seen : i > p.last => i \in ids
    /\ taken = {i \in ids : Cardinality({j \in ids : j < i}) < PageSize}
    /\ next = Max(taken \cup {p.last})
    /\ q = [of |-> p.of, ceiling |-> p.ceiling, last |-> next,
            got |-> p.got \o Ascending(taken), seen |-> p.seen, over |-> taken = ids]

\* What holds of a page of trades after it has been read on.
TradesSound(q, rs, id) ==
    PageShape(q) /\ q.of = "trades" /\ ReadingTrades(q, rs, id) /\ (q.over => Whole(q))

\* One page of a trade list leaves the list what a whole one can grow from.
LEMMA TradesRead ==
    ASSUME NEW p, PageShape(p), p.of = "trades", NEW rs, NEW id,
           ReadingTrades(p, rs, id),
           NEW q, NEW ids, NEW taken, NEW next, TradesPage(p, q, ids, taken, next),
           PageSize \in Nat \ {0}
    PROVE  TradesSound(q, rs, id)
<1>0. /\ ids \in SUBSET Nat /\ IsFiniteSet(ids)
      /\ \A i \in ids : i > p.last /\ i \in p.seen
      /\ \A i \in p.seen : i > p.last => i \in ids
      /\ taken = {i \in ids : Cardinality({j \in ids : j < i}) < PageSize}
      /\ next = Max(taken \cup {p.last})
      /\ q = [of |-> p.of, ceiling |-> p.ceiling, last |-> next,
              got |-> p.got \o Ascending(taken), seen |-> p.seen, over |-> taken = ids]
  BY DEF TradesPage
<1>1. PICK g, a, last, j : g = p.got /\ a = Ascending(taken) /\ last = p.last /\ j = g \o a
  OBVIOUS
<1>2. Up(g, last) /\ last \in Nat /\ g \in Seq(Nat)
  BY <1>1 DEF PageShape, Up
<1>3. /\ TradesTaken(a, ids, last, next)
      /\ taken = ids => \A i \in ids : Has(a, i)
  BY <1>0, <1>1, <1>2, NextTrades
<1>4. /\ Up(a, next) /\ last <= next /\ a \in Seq(Nat) /\ next \in Nat
      /\ \A k \in 1..Len(a) : a[k] \in ids
      /\ \A i \in ids : i <= next => Has(a, i)
  BY <1>3 DEF TradesTaken, Up
<1>5. \A k \in 1..Len(a) : a[k] > last
  BY <1>0, <1>1, <1>4
<1>6. Up(j, next)
  BY <1>1, <1>2, <1>4, <1>5, UpJoins
<1>7. \A i : Has(j, i) <=> Has(g, i) \/ Has(a, i)
  <2>1. HasBoth(j, g, a)
    BY <1>1, <1>2, <1>4, JoinedHas
  <2> QED BY <2>1 DEF HasBoth
<1>8. /\ q.of = "trades" /\ q.ceiling = p.ceiling /\ q.last = next /\ q.got = j /\ q.seen = p.seen
      /\ q.over = (taken = ids)
      /\ q = [of |-> q.of, ceiling |-> q.ceiling, last |-> q.last, got |-> q.got,
              seen |-> q.seen, over |-> q.over]
  BY <1>0, <1>1
<1>9. PageShape(q)
  BY <1>6, <1>8 DEF PageShape
<1>10. \A i \in p.seen : i \in Nat /\ (i <= last => Has(g, i)) /\ (i > last => i \in ids)
  BY <1>0, <1>1 DEF PageShape, ReadingTrades
<1>11. ASSUME NEW i \in p.seen, i <= next PROVE Has(j, i)
  <2>1. i \in Nat /\ last \in Nat
    BY <1>2, <1>10
  <2>2. CASE i <= last
    BY <1>7, <1>10, <2>2
  <2>3. CASE i > last
    BY <1>4, <1>7, <1>10, <1>11, <2>3
  <2> QED BY <2>1, <2>2, <2>3
<1>12. \A i : Has(j, i) => i \in p.seen
  <2>1. \A i : Has(a, i) => i \in p.seen
    BY <1>0, <1>4 DEF Has
  <2>2. \A i : Has(g, i) => i \in p.seen
    BY <1>1 DEF Has, ReadingTrades
  <2> QED BY <1>7, <2>1, <2>2
<1>13. \A k \in 1..Len(j) : j[k] \in p.seen
  BY <1>12 DEF Has
<1>14. ReadingTrades(q, rs, id)
  BY <1>8, <1>11, <1>13 DEF ReadingTrades
<1>15. ASSUME q.over PROVE Whole(q)
  <2>1. ASSUME NEW i \in p.seen PROVE Has(j, i)
    <3>1. i \in Nat /\ last \in Nat
      BY <1>2, <1>10
    <3>2. CASE i <= last
      BY <1>7, <1>10, <3>2
    <3>3. CASE i > last
      <4>1. i \in ids
        BY <1>10, <3>3
      <4>2. taken = ids
        BY <1>8, <1>15
      <4> QED BY <1>3, <1>7, <4>1, <4>2
    <3> QED BY <3>1, <3>2, <3>3
  <2> QED BY <1>8, <1>13, <2>1 DEF Whole
<1> QED BY <1>8, <1>9, <1>14, <1>15 DEF TradesSound

LEMMA ReadTradesListing ==
    ASSUME StoreInv, RunsInv, ListingInv, NEW t \in Threads, Job(t).op = "trades", ReadTrades(t),
           UNCHANGED <<versions, runs>>
    PROVE  ListingInv'
<1>1. PerThread /\ pc[t] = "page"
  BY DEF StoreInv, ReadTrades
<1>2. PICK p, rs, id : p = page[t] /\ rs = runs /\ id = Job(t).run
  OBVIOUS
<1>3. PageShape(p) /\ p.of = "trades" /\ ReadingTrades(p, rs, id)
  BY <1>1, <1>2, ReadingWhat DEF Reading
<1>4. PICK ids : ids = {i \in Published(t) : i <= p.ceiling /\ i > p.last}
  OBVIOUS
<1>5. PICK taken : taken = {i \in ids : Cardinality({j \in ids : j < i}) < PageSize}
  OBVIOUS
<1>6. PICK next : next = Max(taken \cup {p.last})
  OBVIOUS
<1>7. PICK q : q = [of |-> p.of, ceiling |-> p.ceiling, last |-> next,
                    got |-> p.got \o Ascending(taken), seen |-> p.seen, over |-> taken = ids]
  OBVIOUS
<1>8. /\ page' = [page EXCEPT ![t].got = @ \o Ascending(taken),
                              ![t].last = Max(taken \cup {@}), ![t].over = taken = ids]
      /\ IF taken = ids THEN EndTransaction(t) ELSE UNCHANGED <<todo, pc, locks, inserted>>
  BY <1>2, <1>4, <1>5 DEF ReadTrades
<1>9. p = [of |-> p.of, ceiling |-> p.ceiling, last |-> p.last, got |-> p.got,
           seen |-> p.seen, over |-> p.over]
  BY <1>3 DEF PageShape
<1>10. page'[t] = [p EXCEPT !.got = p.got \o Ascending(taken), !.last = next, !.over = taken = ids]
  BY <1>1, <1>2, <1>6, <1>8, <1>9 DEF PerThread
<1>11. page'[t] = q /\ \A u \in Threads \ {t} : page'[u] = page[u]
  <2>1. page'[t] = q
    BY <1>7, <1>9, <1>10
  <2>2. \A u \in Threads \ {t} : page'[u] = page[u]
    BY <1>1, <1>8 DEF PerThread
  <2> QED BY <2>1, <2>2
<1>12. /\ Published(t) \in SUBSET (Nat \ {0}) /\ IsFiniteSet(Published(t))
       /\ p.seen = Published(t)
  <2>1. PICK r \in runs : r.id = Job(t).run /\ p.seen = DOMAIN r.trades
    BY <1>2, <1>3 DEF ReadingTrades
  <2> QED BY <2>1, PublishedIds
<1>13. ids \in SUBSET Nat /\ IsFiniteSet(ids)
  <2>1. ids \subseteq Published(t)
    BY <1>4
  <2> QED BY <1>12, <2>1, FS_Subset
<1>14. (\A i \in ids : i > p.last /\ i \in p.seen) /\ \A i \in p.seen : i > p.last => i \in ids
  BY <1>3, <1>4, <1>12 DEF ReadingTrades
<1>15. PageSize \in Nat \ {0}
  BY SettingsAssumption
<1>16. PageShape(q) /\ q.of = "trades" /\ ReadingTrades(q, rs, id) /\ (q.over => Whole(q))
  <2>1. TradesPage(p, q, ids, taken, next)
    BY <1>5, <1>6, <1>7, <1>13, <1>14 DEF TradesPage
  <2>2. TradesSound(q, rs, id)
    BY <1>3, <1>15, <2>1, TradesRead
  <2> QED BY <2>2 DEF TradesSound
<1>17. Reading(q, Job(t), versions, runs)
  BY <1>2, <1>16 DEF Reading
<1>18. EndTransaction(t) \/ (pc' = pc /\ UNCHANGED todo)
  BY <1>8
<1> QED BY <1>1, <1>2, <1>11, <1>16, <1>17, <1>18, BrowseListing

\* list_run_trades.
LEMMA ListTradesListing ==
    ASSUME StoreInv, RunsInv, ListingInv, NEW t \in Threads, ListTrades(t)
    PROVE  ListingInv'
<1>1. Job(t).op = "trades" /\ UNCHANGED <<versions, runs>>
  BY DEF ListTrades
<1>2. CASE OpenTrades(t)
  BY <1>1, <1>2, OpenTradesListing
<1>3. CASE ReadTrades(t)
  BY <1>1, <1>3, ReadTradesListing
<1> QED BY <1>2, <1>3 DEF ListTrades

\* What a step that is not a listing's does to the thread it is of.
LeavesPage(t) ==
    /\ page' = page
    /\ \E q : q # "page" /\ pc' = [pc EXCEPT ![t] = q]
    /\ todo' = todo \/ \E x : todo' = [todo EXCEPT ![t] = x]

LEMMA EndLeavesPage ==
    ASSUME NEW t \in Threads, EndTransaction(t), UNCHANGED page
    PROVE  LeavesPage(t)
<1>1. pc' = [pc EXCEPT ![t] = "idle"] /\ \E x : todo' = [todo EXCEPT ![t] = x]
  BY DEF EndTransaction
<1> QED BY <1>1 DEF LeavesPage

LEMMA LeavesListing ==
    ASSUME StoreInv, ListingInv, NEW t \in Threads, LeavesPage(t),
           GrowOn(versions, versions', runs, runs')
    PROVE  ListingInv'
<1>1. PICK q : q # "page" /\ pc' = [pc EXCEPT ![t] = q]
  BY DEF LeavesPage
<1>2. PerThread /\ page' = page /\ (todo' = todo \/ \E x : todo' = [todo EXCEPT ![t] = x])
  BY DEF LeavesPage, StoreInv
<1> QED BY <1>1, <1>2, BesideKeeps

\* The listings do not see the statements of the other requests before they
\* are committed.
LEMMA StatementListing ==
    ASSUME StoreInv, ListingInv, NEW t \in Threads, UNCHANGED <<versions, runs>>,
           \/ CreateStrategy(t)
           \/ Validate(t)
           \/ PublishKey(t)
           \/ PublishNumber(t)
           \/ Break(t)
           \/ RunKey(t)
           \/ RunInput(t)
           \/ PersistRun(t)
    PROVE  ListingInv'
<1>0. GrowOn(versions, versions', runs, runs')
  BY DEF GrowOn
<1>1. CASE CreateStrategy(t)
  <2>1. UNCHANGED page /\ (EndTransaction(t) \/ (pc' = [pc EXCEPT ![t] = "commit"] /\ todo' = todo))
    BY <1>1 DEF CreateStrategy, AnswerAgain
  <2>2. LeavesPage(t)
    BY <2>1, EndLeavesPage DEF LeavesPage
  <2> QED BY <1>0, <2>2, LeavesListing
<1>2. CASE Validate(t)
  <2>1. UNCHANGED page /\ (EndTransaction(t) \/ (pc' = [pc EXCEPT ![t] = "key"] /\ todo' = todo))
    BY <1>2 DEF Validate
  <2>2. LeavesPage(t)
    BY <2>1, EndLeavesPage DEF LeavesPage
  <2> QED BY <1>0, <2>2, LeavesListing
<1>3. CASE PublishKey(t)
  <2>1. UNCHANGED page /\ (EndTransaction(t) \/ (pc' = [pc EXCEPT ![t] = "sequence"] /\ todo' = todo))
    BY <1>3 DEF PublishKey, AnswerAgain
  <2>2. LeavesPage(t)
    BY <2>1, EndLeavesPage DEF LeavesPage
  <2> QED BY <1>0, <2>2, LeavesListing
<1>4. CASE PublishNumber(t)
  <2>1. UNCHANGED page /\ (EndTransaction(t) \/ (pc' = [pc EXCEPT ![t] = "commit"] /\ todo' = todo))
    BY <1>4 DEF PublishNumber
  <2>2. LeavesPage(t)
    BY <2>1, EndLeavesPage DEF LeavesPage
  <2> QED BY <1>0, <2>2, LeavesListing
<1>5. CASE Break(t)
  <2>1. UNCHANGED page /\ EndTransaction(t)
    BY <1>5 DEF Break
  <2>2. LeavesPage(t)
    BY <2>1, EndLeavesPage DEF LeavesPage
  <2> QED BY <1>0, <2>2, LeavesListing
<1>6. CASE RunKey(t)
  <2>1. UNCHANGED page /\ (EndTransaction(t) \/ (pc' = [pc EXCEPT ![t] = "input"] /\ todo' = todo))
    BY <1>6 DEF RunKey, AnswerAgain
  <2>2. LeavesPage(t)
    BY <2>1, EndLeavesPage DEF LeavesPage
  <2> QED BY <1>0, <2>2, LeavesListing
<1>7. CASE RunInput(t)
  <2>1. UNCHANGED page /\ (EndTransaction(t) \/ (pc' = [pc EXCEPT ![t] = "commit"] /\ todo' = todo))
    BY <1>7 DEF RunInput
  <2>2. LeavesPage(t)
    BY <2>1, EndLeavesPage DEF LeavesPage
  <2> QED BY <1>0, <2>2, LeavesListing
<1>8. CASE PersistRun(t)
  <2>1. UNCHANGED page /\ (EndTransaction(t) \/ (pc' = [pc EXCEPT ![t] = "commit"] /\ todo' = todo))
    BY <1>8 DEF PersistRun, AnswerAgain
  <2>2. LeavesPage(t)
    BY <2>1, EndLeavesPage DEF LeavesPage
  <2> QED BY <1>0, <2>2, LeavesListing
<1> QED BY <1>1, <1>2, <1>3, <1>4, <1>5, <1>6, <1>7, <1>8

\* A commit adds a version after those of its strategy, or a run.
LEMMA CommitListing ==
    ASSUME StoreInv, ListingInv, NEW t \in Threads,
           \/ CommitStore(t) /\ UNCHANGED runs
           \/ CommitRun(t)
    PROVE  ListingInv'
<1>1. pc[t] = "commit" /\ EndTransaction(t) /\ UNCHANGED page
  BY DEF CommitStore, CommitRun
<1>2. LeavesPage(t)
  BY <1>1, EndLeavesPage
<1>3. \A v \in versions : v.id \in Nat \ {0}
  BY DEF StoreInv, TablesOK, TableOK
<1>4. CASE versions' = versions
  <2>1. runs \subseteq runs'
    BY DEF CommitStore, CommitRun
  <2>2. GrowOn(versions, versions', runs, runs')
    BY <1>4, <2>1 DEF GrowOn
  <2> QED BY <1>2, <2>2, LeavesListing
<1>5. CASE inserted[t].table = "versions" /\ versions' = versions \cup {inserted[t]} /\ UNCHANGED runs
  <2>1. PendingVersion(t)
    BY <1>1, <1>5 DEF StoreInv, Thread, Pending
  <2>2. /\ inserted[t].id \in Nat \ {0}
        /\ \A w \in versions : w.strategy = inserted[t].strategy => w.id < inserted[t].id
    BY <2>1 DEF PendingVersion, Pending, NextVersion
  <2>3. GrowOn(versions, versions', runs, runs')
    BY <1>3, <1>5, <2>2 DEF GrowOn
  <2> QED BY <1>2, <2>3, LeavesListing
<1> QED BY <1>4, <1>5 DEF CommitStore, CommitRun

-----------------------------------------------------------------------------
(* The invariant, and what it says of the answers *)

SubmissionInv == StoreInv /\ ReplayInv /\ RunsInv /\ ListingInv

\* A table as its constraints keep it, and an identity above its ids.
LEMMA FreshTable ==
    ASSUME NEW rows, Table(rows)
    PROVE  /\ TableOK(rows)
           /\ MaxId(rows) + 1 \in Nat \ {0}
           /\ \A r \in rows : r.id < MaxId(rows) + 1
<1>1. IsFiniteSet(rows) /\ \A r \in rows : r.id \in Nat \ {0}
  BY DEF Table
<1>2. TableOK(rows)
  BY <1>1 DEF Table, TableOK
<1>3. MaxId(rows) \in Nat /\ \A i \in IdsOf(rows) : i <= MaxId(rows)
  BY <1>1, MaxIdIsLast
<1>4. PICK m : m = MaxId(rows)
  OBVIOUS
<1>5. ASSUME NEW r \in rows PROVE r.id < m + 1
  <2>1. r.id \in IdsOf(rows)
    BY DEF IdsOf
  <2> QED BY <1>1, <1>3, <1>4, <2>1
<1> QED BY <1>2, <1>3, <1>4, <1>5

\* The instance begins with every thread idle and with sound tables.
LEMMA StoreInvInit == SubmissionInit => StoreInv
<1> SUFFICES ASSUME SubmissionInit PROVE StoreInv
  OBVIOUS
<1>1. PICK s \in Settings :
        /\ todo = s.todo /\ strategies = s.strategies /\ versions = s.versions
        /\ nextId = [strategies |-> MaxId(s.strategies) + 1,
                     versions |-> MaxId(s.versions) + 1, runs |-> 1]
  BY DEF SubmissionInit
<1>2. /\ s.todo = [t \in Threads |-> s.todo[t]]
      /\ Table(s.strategies) /\ Table(s.versions)
      /\ \A v \in s.versions : v.version \in Nat \ {0}
      /\ InOrder(s.versions)
  BY SettingsAssumption
<1>3. /\ pc = [t \in Threads |-> "idle"] /\ locks = [t \in Threads |-> {}]
      /\ inserted = [t \in Threads |-> NoRow] /\ answers = {} /\ runs = {}
      /\ page = [t \in Threads |-> NoPage]
  BY DEF SubmissionInit
<1>4. PerThread
  BY <1>1, <1>2, <1>3 DEF PerThread
<1>5. Exclusive
  BY <1>3 DEF Exclusive
<1>6. TableOK(strategies) /\ TableOK(versions)
  BY <1>1, <1>2, FreshTable
<1>7. TableOK(runs)
  BY <1>3, FS_EmptySet DEF TableOK
<1>8. PICK m, n : m = MaxId(s.strategies) + 1 /\ n = MaxId(s.versions) + 1
  OBVIOUS
<1>9. m \in Nat \ {0} /\ n \in Nat \ {0} /\ \A v \in s.versions : v.id < n
  BY <1>2, <1>8, FreshTable
<1>10. nextId = [strategies |-> m, versions |-> n, runs |-> 1]
  BY <1>1, <1>8
<1>11. TablesOK
  BY <1>1, <1>2, <1>6, <1>7, <1>9, <1>10 DEF TablesOK
<1>12. \A t \in Threads : Thread(t)
  BY <1>3 DEF Thread
<1> QED BY <1>3, <1>4, <1>5, <1>11, <1>12 DEF StoreInv

\* Nothing has been replayed and nothing is listed.
LEMMA ReplayInvInit == SubmissionInit => ReplayInv /\ ListingInv
<1> SUFFICES ASSUME SubmissionInit PROVE ReplayInv /\ ListingInv
  OBVIOUS
<1>1. PICK s \in Settings : tape = s.tape /\ signals = s.signals
  BY DEF SubmissionInit
<1>2. tape \in Seq(Candle) /\ signals \in Seq(Signal)
  BY <1>1, SettingsAssumption
<1>3. PICK b : b = EmptyBook
  OBVIOUS
<1>4. /\ b.cash = InitialCash /\ b.position = 0 /\ b.trades = <<>>
      /\ b = [cash |-> b.cash, position |-> b.position, trades |-> b.trades, equity |-> b.equity]
  BY <1>3 DEF EmptyBook
<1>5. InitialCash \in Int
  BY EngineAssumption
<1>6. Balanced(b)
  BY <1>4, <1>5, NothingMoved DEF Balanced
<1>7. replay = [status |-> "idle", next |-> 1, book |-> b, final |-> 0]
  BY <1>3 DEF SubmissionInit, NotReplayed
<1>8. ReplayInv
  BY <1>2, <1>6, <1>7 DEF ReplayInv
<1>9. ListingInv
  BY DEF SubmissionInit, ListingInv, Listing
<1> QED BY <1>8, <1>9

\* What leaves the store alone keeps its invariant.
LEMMA StoreInvUnchanged ==
    ASSUME StoreInv, UNCHANGED <<storeVars, runs>>
    PROVE  StoreInv'
<1>1. /\ todo' = todo /\ pc' = pc /\ locks' = locks /\ inserted' = inserted
      /\ strategies' = strategies /\ versions' = versions /\ nextId' = nextId
      /\ answers' = answers /\ page' = page /\ runs' = runs
  BY DEF storeVars
<1>2. PerThread' /\ Exclusive' /\ TablesOK'
  BY <1>1 DEF StoreInv, PerThread, Exclusive, TablesOK
<1>3. \A a \in answers' : Told(a)'
  BY <1>1 DEF StoreInv, Told, Stored
<1>4. ASSUME NEW t \in Threads PROVE Thread(t)'
  <2>1. Thread(t)
    BY DEF StoreInv
  <2> QED BY <1>1, <2>1 DEF Thread, Pending, PendingVersion, Reserved, Job
<1> QED BY <1>2, <1>3, <1>4 DEF StoreInv

LEMMA ThreadStepKeeps ==
    ASSUME SubmissionInv, NEW t \in Threads,
           \/ StoreStep(t) /\ UNCHANGED <<runs, input, sealed, engineVars>>
           \/ CommitStore(t) /\ UNCHANGED <<runs, input, sealed, engineVars>>
           \/ Break(t) /\ UNCHANGED <<runs, sealed, engineVars>>
           \/ RunKey(t)
           \/ RunInput(t)
           \/ PersistRun(t)
           \/ CommitRun(t)
           \/ ListRuns(t)
           \/ ListTrades(t)
    PROVE  SubmissionInv'
<1>1. StoreInv /\ ReplayInv /\ RunsInv /\ ListingInv
  BY DEF SubmissionInv
<1>2. UNCHANGED engineVars
  BY DEF RunKey, RunInput, PersistRun, CommitRun, ListRuns, ListTrades
<1>3. ReplayInv'
  BY <1>1, <1>2, ReplayInvSteps
<1>4. CASE CreateStrategy(t) /\ UNCHANGED runs
  <2>1. UNCHANGED versions
    BY <1>4 DEF CreateStrategy
  <2> QED BY <1>1, <1>3, <1>4, <2>1, CreateStrategyKeeps, OtherRuns, StatementListing DEF SubmissionInv
<1>5. CASE Validate(t) /\ UNCHANGED runs
  <2>1. UNCHANGED versions
    BY <1>5 DEF Validate
  <2> QED BY <1>1, <1>3, <1>5, <2>1, ValidateKeeps, OtherRuns, StatementListing DEF SubmissionInv
<1>6. CASE PublishKey(t) /\ UNCHANGED runs
  <2>1. UNCHANGED versions
    BY <1>6 DEF PublishKey
  <2> QED BY <1>1, <1>3, <1>6, <2>1, PublishKeyKeeps, OtherRuns, StatementListing DEF SubmissionInv
<1>7. CASE PublishNumber(t) /\ UNCHANGED runs
  <2>1. UNCHANGED versions
    BY <1>7 DEF PublishNumber
  <2> QED BY <1>1, <1>3, <1>7, <2>1, PublishNumberKeeps, OtherRuns, StatementListing DEF SubmissionInv
<1>8. CASE ListVersions(t) /\ UNCHANGED runs
  BY <1>1, <1>3, <1>8, ListVersionsKeeps, OtherRuns, ListVersionsListing DEF SubmissionInv
<1>9. CASE CommitStore(t) /\ UNCHANGED runs
  BY <1>1, <1>3, <1>9, CommitStoreKeeps, OtherRuns, CommitListing DEF SubmissionInv
<1>10. CASE Break(t) /\ UNCHANGED runs
  <2>1. UNCHANGED versions
    BY <1>10 DEF Break
  <2> QED BY <1>1, <1>3, <1>10, <2>1, BreakKeeps, OtherRuns, StatementListing DEF SubmissionInv
<1>11. CASE RunKey(t)
  <2>1. UNCHANGED <<versions, runs>>
    BY <1>11 DEF RunKey
  <2> QED BY <1>1, <1>3, <1>11, <2>1, RunKeyKeeps, OtherRuns, StatementListing DEF SubmissionInv
<1>12. CASE RunInput(t)
  <2>1. UNCHANGED <<versions, runs>>
    BY <1>12 DEF RunInput
  <2> QED BY <1>1, <1>3, <1>12, <2>1, RunInputKeeps, RunInputRuns, StatementListing DEF SubmissionInv
<1>13. CASE CommitRun(t)
  BY <1>1, <1>3, <1>13, CommitRunKeeps, CommitRunRuns, CommitListing DEF SubmissionInv
<1>14. CASE ListRuns(t)
  <2>1. UNCHANGED runs
    BY <1>14 DEF ListRuns
  <2> QED BY <2>1, <1>1, <1>3, <1>14, ListRunsKeeps, OtherRuns, ListRunsListing DEF SubmissionInv
<1>15. CASE ListTrades(t)
  <2>1. UNCHANGED runs
    BY <1>15 DEF ListTrades
  <2> QED BY <2>1, <1>1, <1>3, <1>15, ListTradesKeeps, OtherRuns, ListTradesListing DEF SubmissionInv
<1>16. CASE PersistRun(t)
  <2>1. UNCHANGED <<versions, runs>>
    BY <1>16 DEF PersistRun
  <2> QED BY <1>1, <1>3, <1>16, <2>1, PersistRunKeeps, PersistRunRuns, StatementListing DEF SubmissionInv
<1> QED BY <1>4, <1>5, <1>6, <1>7, <1>8, <1>9, <1>10, <1>11, <1>12, <1>13, <1>14, <1>15, <1>16
        DEF StoreStep

\* The engine's steps, a dataset that is sealed, and stuttering.
LEMMA EngineStepKeeps ==
    ASSUME SubmissionInv, UNCHANGED <<storeVars, runs>>,
           \/ StartReplay
           \/ ReplaySignal
           \/ FinishReplay
           \/ UNCHANGED engineVars
    PROVE  SubmissionInv'
<1>1. StoreInv /\ ReplayInv /\ RunsInv /\ ListingInv
  BY DEF SubmissionInv
<1>2. UNCHANGED <<page, pc, todo, versions, runs, nextId, inserted>>
  BY DEF storeVars
<1>3. GrowOn(versions, versions', runs, runs')
  BY <1>2 DEF GrowOn
<1>4. ListingInv'
  BY <1>1, <1>2, <1>3, StoreAsideKeeps
<1>5. RunsInv'
  BY <1>1, <1>2 DEF RunsInv
<1>6. StoreInv' /\ ReplayInv'
  BY <1>1, StoreInvUnchanged, ReplayInvSteps
<1> QED BY <1>4, <1>5, <1>6 DEF SubmissionInv

\* The invariant is inductive.
LEMMA SubmissionInvSteps ==
    ASSUME SubmissionInv, [SubmissionNext]_submissionVars
    PROVE  SubmissionInv'
<1>1. CASE UNCHANGED submissionVars
  BY <1>1, EngineStepKeeps DEF submissionVars, engineVars
<1>2. CASE StartReplay \/ ReplaySignal \/ FinishReplay
  <2>1. UNCHANGED <<storeVars, runs>>
    BY <1>2 DEF StartReplay, ReplaySignal, FinishReplay
  <2> QED BY <1>2, <2>1, EngineStepKeeps
<1>3. ASSUME NEW d \in Datasets, Seal(d) PROVE SubmissionInv'
  BY <1>3, EngineStepKeeps DEF Seal
<1>4. ASSUME NEW t \in Threads,
             \/ StoreStep(t) /\ UNCHANGED <<runs, input, sealed, engineVars>>
             \/ CommitStore(t) /\ UNCHANGED <<runs, input, sealed, engineVars>>
             \/ Break(t) /\ UNCHANGED <<runs, sealed, engineVars>>
             \/ RunKey(t)
             \/ RunInput(t)
             \/ PersistRun(t)
             \/ CommitRun(t)
             \/ ListRuns(t)
             \/ ListTrades(t)
      PROVE  SubmissionInv'
  BY <1>4, ThreadStepKeeps
<1> QED BY <1>1, <1>2, <1>3, <1>4 DEF SubmissionNext

\* The invariant of the submission holds in every state.
THEOREM SubmissionInvariant == SubmissionSpec => []SubmissionInv
<1>1. SubmissionInit => SubmissionInv
  BY StoreInvInit, ReplayInvInit, RunsInvInit DEF SubmissionInv
<1>2. SubmissionInv /\ [SubmissionNext]_submissionVars => SubmissionInv'
  BY SubmissionInvSteps
<1> QED BY <1>1, <1>2, PTL DEF SubmissionSpec

(* What a client is told is so (create_strategy, publish_version,          *)
(* create_run, persist_completed_run and the listings): whatever the       *)
(* threads do between each other's statements, however many connections    *)
(* break and whatever the page size, a key gets one row and only for the   *)
(* request it was first used with, the versions of a strategy are numbered *)
(* without a gap in the order of their ids, and a listing that was read to *)
(* its end is whole.                                                       *)
THEOREM ClientsAreToldTheTruth == SubmissionSpec => []AnswersAreTrue
<1>1. SubmissionInv => AnswersAreTrue
  <2>1. SubmissionInv => AnswersMatchRequests /\ VersionsInOrder
    BY StoreInvAnswers, StoreInvOrder DEF SubmissionInv
  <2>2. SubmissionInv => ListingIsWhole
    BY ListingInvWhole DEF SubmissionInv
  <2> QED BY <2>1, <2>2 DEF AnswersAreTrue
<1> QED BY <1>1, SubmissionInvariant, PTL

(* The final equity of a run is the initial cash, what its trades moved    *)
(* and took as fees, and what they left in the position at the last close  *)
(* (run_candle_backtest, _final_equity), for every tape, every list of     *)
(* signals and every cost.                                                 *)
THEOREM EquityIsAccounted == SubmissionSpec => []EquityAccounted
<1>1. SubmissionInv => EquityAccounted
  BY ReplayInvEquity DEF SubmissionInv
<1> QED BY <1>1, SubmissionInvariant, PTL

-----------------------------------------------------------------------------
(* Graphs: Kahn's count and the paths it stands for *)

\* A queue that holds x, and one that holds nothing twice.
Queued(q, x) == \E i \in 1..Len(q) : q[i] = x
Once(q) == \A i, j \in 1..Len(q) : q[i] = q[j] => i = j

\* A queue of all of S.
QueueOf(q, S) == q \in Seq(S) /\ Once(q) /\ \A x \in S : Queued(q, x)

\* SetToSeq: every element of a finite set, once.
LEMMA ListedOnce ==
    ASSUME NEW S, IsFiniteSet(S), NEW q, q = SetToSeq(S)
    PROVE  QueueOf(q, S)
<1>1. PICK n \in Nat : ExistsBijection(1..n, S)
  BY FS_NatBijection
<1>2. IsFiniteSet(1..n) /\ Cardinality(1..n) = n
  BY FS_Interval
<1>3. n = Cardinality(S)
  BY <1>1, <1>2, FS_Bijection
<1>4. PICK g \in [1..n -> S] : \A a, b \in 1..n : g[a] = g[b] => a = b
  BY <1>1 DEF ExistsBijection, Bijection, Injection, IsInjective
<1>5. \E h \in [1..n -> S] : IsInjective(h)
  BY <1>4 DEF IsInjective
<1>6. q \in [1..n -> S] /\ IsInjective(q)
  BY <1>3, <1>5 DEF SetToSeq
<1>7. Len(q) = n /\ q \in Seq(S) /\ \A i, j \in 1..n : q[i] = q[j] => i = j
  BY <1>6 DEF IsInjective
<1>8. ASSUME NEW x \in S PROVE \E i \in 1..n : q[i] = x
  <2> SUFFICES ASSUME \A i \in 1..n : q[i] # x PROVE FALSE
    OBVIOUS
  <2>1. q \in [1..n -> S \ {x}]
    BY <1>6
  <2>2. q \in Injection(1..n, S \ {x})
    BY <1>7, <2>1 DEF Injection, IsInjective
  <2>3. IsFiniteSet(S \ {x}) /\ Cardinality(S \ {x}) = n - 1
    BY <1>3, FS_RemoveElement
  <2>4. PICK D, C : D = 1..n /\ C = S \ {x}
    OBVIOUS
  <2>5. IsFiniteSet(C) /\ q \in Injection(D, C)
    BY <2>2, <2>3, <2>4
  <2>6. Cardinality(D) <= Cardinality(C)
    BY <2>5, FS_Injection
  <2> QED BY <1>2, <2>3, <2>4, <2>6
<1> QED BY <1>7, <1>8 DEF QueueOf, Once, Queued

\* g is the iteration of F, n times, from b.
Iterates(g, F, b, n) == g = [k \in 0..n |-> IF k = 0 THEN b ELSE F[g[k - 1]]]

LEMMA IteratesOften ==
    ASSUME NEW F, NEW b, NEW n \in Nat
    PROVE  \E g : Iterates(g, F, b, n)
<1> DEFINE Bad == {m \in Nat : ~ \E g : Iterates(g, F, b, m)}
<1>1. ASSUME Bad # {} PROVE FALSE
  <2>1. Bad \in SUBSET Nat
    OBVIOUS
  <2>2. PICK m \in Bad : \A k \in Bad : m <= k
    <3> HIDE DEF Bad
    <3> QED BY <1>1, <2>1, LeastNat
  <2>3. CASE m = 0
    <3>1. PICK g : g = [k \in 0..0 |-> b]
      OBVIOUS
    <3>2. Iterates(g, F, b, 0)
      BY <3>1 DEF Iterates
    <3> QED BY <2>2, <2>3, <3>2
  <2>4. CASE m # 0
    <3>1. m \in Nat /\ m - 1 \in Nat /\ m - 1 \notin Bad
      <4> HIDE DEF Bad
      <4> QED BY <2>1, <2>2, <2>4
    <3>2. PICK h : Iterates(h, F, b, m - 1)
      BY <3>1
    <3>3. PICK g : g = [k \in 0..m |-> IF k = 0 THEN b ELSE F[h[k - 1]]]
      OBVIOUS
    <3>4. \A k \in 0..(m - 1) : g[k] = h[k]
      BY <3>1, <3>2, <3>3 DEF Iterates
    <3>5. \A k \in 0..m : k # 0 => k - 1 \in 0..(m - 1)
      BY <3>1
    <3>6. Iterates(g, F, b, m)
      BY <3>3, <3>4, <3>5 DEF Iterates
    <3> QED BY <2>2, <3>6
  <2> QED BY <2>3, <2>4
<1> QED BY <1>1

LEMMA IteratesAlike ==
    ASSUME NEW F, NEW b, NEW m \in Nat, NEW n \in Nat, NEW g, NEW h,
           Iterates(g, F, b, m), Iterates(h, F, b, n)
    PROVE  \A k \in Nat : k <= m /\ k <= n => g[k] = h[k]
<1> DEFINE Bad == {k \in Nat : k <= m /\ k <= n /\ g[k] # h[k]}
<1>1. ASSUME Bad # {} PROVE FALSE
  <2>1. Bad \in SUBSET Nat
    OBVIOUS
  <2>2. PICK k \in Bad : \A j \in Bad : k <= j
    <3> HIDE DEF Bad
    <3> QED BY <1>1, <2>1, LeastNat
  <2>3. k \in Nat /\ k <= m /\ k <= n /\ g[k] # h[k]
    OBVIOUS
  <2>4. k # 0
    BY <2>3 DEF Iterates
  <2>5. k - 1 \in Nat /\ k - 1 <= m /\ k - 1 <= n /\ k - 1 \notin Bad
    <3> HIDE DEF Bad
    <3> QED BY <2>1, <2>2, <2>3, <2>4
  <2>6. g[k - 1] = h[k - 1]
    BY <2>5
  <2>7. k \in 0..m /\ k \in 0..n
    BY <2>3
  <2>8. g[k] = F[g[k - 1]] /\ h[k] = F[h[k - 1]]
    BY <2>4, <2>7 DEF Iterates
  <2> QED BY <2>3, <2>6, <2>8
<1> QED BY <1>1

\* A recursive function of the natural numbers exists.
LEMMA IterationExists ==
    ASSUME NEW F, NEW b
    PROVE  \E it : it = [n \in Nat |-> IF n = 0 THEN b ELSE F[it[n - 1]]]
<1>1. PICK gs : gs = [n \in Nat |-> CHOOSE g : Iterates(g, F, b, n)]
  OBVIOUS
<1>2. \A n \in Nat : Iterates(gs[n], F, b, n)
  BY <1>1, IteratesOften
<1>3. PICK it : it = [n \in Nat |-> gs[n][n]]
  OBVIOUS
<1>4. ASSUME NEW n \in Nat PROVE it[n] = IF n = 0 THEN b ELSE F[it[n - 1]]
  <2>1. it[n] = gs[n][n] /\ n \in 0..n
    BY <1>3
  <2>2. CASE n = 0
    BY <1>2, <2>1, <2>2 DEF Iterates
  <2>3. CASE n # 0
    <3>1. n - 1 \in Nat /\ n - 1 <= n
      BY <2>3
    <3>2. gs[n][n] = F[gs[n][n - 1]]
      BY <1>2, <2>1, <2>3 DEF Iterates
    <3>3. PICK a, c, k : a = gs[n] /\ c = gs[n - 1] /\ k = n - 1
      OBVIOUS
    <3>4. Iterates(a, F, b, n) /\ Iterates(c, F, b, k) /\ k \in Nat /\ k <= n /\ k <= k
      BY <1>2, <3>1, <3>3
    <3>5. a[k] = c[k]
      BY <3>4, IteratesAlike
    <3>6. it[n - 1] = c[k]
      BY <1>3, <3>1, <3>3
    <3> QED BY <2>1, <2>3, <3>2, <3>3, <3>5, <3>6
  <2> QED BY <2>2, <2>3
<1>5. it = [n \in Nat |-> IF n = 0 THEN b ELSE F[it[n - 1]]]
  BY <1>3, <1>4
<1> QED BY <1>5

\* The n-th of the values that f gives, one from the other, is the m-th.
Returns(w, f, U, m, n) ==
    /\ m \in Nat /\ n \in Nat /\ m < n /\ n <= Cardinality(U)
    /\ w \in [0..n -> U] /\ w[m] = w[n]
    /\ \A k \in 0..n : k # 0 => w[k] = f[w[k - 1]]

\* What comes out of f over and over comes back after at most as many turns
\* as there are elements.
LEMMA ComesBack ==
    ASSUME NEW U, IsFiniteSet(U), U # {}, NEW f \in [U -> U]
    PROVE  \E w, m, n : Returns(w, f, U, m, n)
<1>1. PICK N, x : N = Cardinality(U) /\ x \in U
  OBVIOUS
<1>2. N \in Nat
  BY <1>1, FS_CardinalityType
<1>3. PICK w : Iterates(w, f, x, N)
  BY <1>2, IteratesOften
<1>4. /\ w = [k \in 0..N |-> w[k]] /\ w[0] = x
      /\ \A k \in 0..N : k # 0 => w[k] = f[w[k - 1]]
  BY <1>2, <1>3 DEF Iterates
<1>5. \A k \in 0..N : w[k] \in U
  <2> DEFINE Bad == {k \in 0..N : w[k] \notin U}
  <2>1. ASSUME Bad # {} PROVE FALSE
    <3>1. Bad \in SUBSET Nat
      BY <1>2
    <3>2. PICK m \in Bad : \A k \in Bad : m <= k
      <4> HIDE DEF Bad
      <4> QED BY <2>1, <3>1, LeastNat
    <3>3. m \in 0..N /\ w[m] \notin U /\ m # 0
      BY <1>1, <1>4
    <3>4. m - 1 \in 0..N /\ m - 1 \notin Bad
      <4> HIDE DEF Bad
      <4> QED BY <1>2, <3>1, <3>2, <3>3
    <3>5. w[m - 1] \in U /\ w[m] = f[w[m - 1]]
      BY <1>4, <3>3, <3>4
    <3> QED BY <3>3, <3>5
  <2> QED BY <2>1
<1>6. w \in [0..N -> U]
  BY <1>4, <1>5
<1>7. \E a, b \in 0..N : a # b /\ w[a] = w[b]
  <2> SUFFICES ASSUME \A a, b \in 0..N : w[a] = w[b] => a = b PROVE FALSE
    OBVIOUS
  <2>1. PICK D : D = 0..N
    OBVIOUS
  <2>2. w \in Injection(D, U)
    BY <1>6, <2>1 DEF Injection, IsInjective
  <2>3. Cardinality(D) <= Cardinality(U)
    BY <2>2, FS_Injection
  <2>4. Cardinality(D) = N + 1
    BY <1>2, <2>1, FS_Interval
  <2> QED BY <1>1, <1>2, <2>3, <2>4
<1>8. PICK m, n \in 0..N : m < n /\ w[m] = w[n]
  BY <1>2, <1>7
<1>9. PICK v : v = [k \in 0..n |-> w[k]]
  OBVIOUS
<1>10. n \in Nat /\ m \in Nat /\ n <= N /\ m \in 0..n /\ \A k \in 0..n : k \in 0..N
  BY <1>2, <1>8
<1>11. v \in [0..n -> U] /\ v[m] = v[n]
  BY <1>5, <1>8, <1>9, <1>10
<1>12. \A k \in 0..n : k # 0 => v[k] = f[v[k - 1]]
  <2> SUFFICES ASSUME NEW k \in 0..n, k # 0 PROVE v[k] = f[v[k - 1]]
    OBVIOUS
  <2>1. k - 1 \in 0..n
    BY <1>10
  <2> QED BY <1>4, <1>9, <1>10, <2>1
<1>13. Returns(v, f, U, m, n)
  BY <1>1, <1>8, <1>10, <1>11, <1>12 DEF Returns
<1> QED BY <1>13

\* The edges of a graph, between nodes.
Feeds(g, x, y) == \E i \in DOMAIN g.edges : g.edges[i].from = x /\ g.edges[i].to = y

\* Nodes that are all fed by one another hold a cycle.
LEMMA FedByOneAnother ==
    ASSUME NEW g, IsFiniteSet(NodeIds(g)), NEW U \in SUBSET NodeIds(g), U # {},
           \A x \in U : \E y \in U : Feeds(g, y, x)
    PROVE  FeedsItself(g)
<1>1. PICK ids : ids = NodeIds(g)
  OBVIOUS
<1>2. IsFiniteSet(U) /\ Cardinality(U) \in Nat /\ Cardinality(ids) \in Nat
      /\ Cardinality(U) <= Cardinality(ids)
  BY <1>1, FS_Subset, FS_CardinalityType
<1>3. PICK f : f = [x \in U |-> CHOOSE y \in U : Feeds(g, y, x)]
  OBVIOUS
<1>4. f \in [U -> U] /\ \A x \in U : Feeds(g, f[x], x)
  BY <1>3
<1>5. PICK w, m, n : /\ m \in Nat /\ n \in Nat /\ m < n /\ n <= Cardinality(U)
                     /\ w \in [0..n -> U] /\ w[m] = w[n]
                     /\ \A k \in 0..n : k # 0 => w[k] = f[w[k - 1]]
  <2>1. PICK w, m, n : Returns(w, f, U, m, n)
    BY <1>2, <1>4, ComesBack
  <2> QED BY <2>1 DEF Returns
<1>6. PICK d : d = n - m
  OBVIOUS
<1>7. d \in 1..Cardinality(ids)
  BY <1>2, <1>5, <1>6
<1>8. PICK path : path = [k \in 0..d |-> w[n - k]]
  OBVIOUS
<1>9. \A k \in 0..d : n - k \in 0..n
  BY <1>5, <1>6
<1>10. path \in [0..d -> ids]
  BY <1>1, <1>5, <1>8, <1>9
<1>11. path[0] = path[d]
  BY <1>5, <1>6, <1>8
<1>12. ASSUME NEW k \in 1..d PROVE Feeds(g, path[k - 1], path[k])
  <2>1. k \in 0..d /\ k - 1 \in 0..d
    BY <1>7
  <2>2. PICK j : j = n - (k - 1)
    OBVIOUS
  <2>3. j \in 0..n /\ j # 0 /\ j - 1 = n - k
    BY <1>5, <1>6, <2>2
  <2>4. w[j] = f[w[j - 1]] /\ w[j - 1] \in U
    BY <1>5, <1>9, <2>1, <2>3
  <2>5. path[k - 1] = w[j] /\ path[k] = w[j - 1]
    BY <1>8, <2>1, <2>2, <2>3
  <2> QED BY <1>4, <2>4, <2>5
<1> QED BY <1>1, <1>7, <1>10, <1>11, <1>12 DEF FeedsItself, Feeds

\* Nodes that can be ranked along the edges hold none.
LEMMA RankedAlong ==
    ASSUME NEW g, IsFiniteSet(NodeIds(g)), NEW rank \in [NodeIds(g) -> Nat],
           \A x, y \in NodeIds(g) : Feeds(g, x, y) => rank[x] < rank[y]
    PROVE  ~FeedsItself(g)
<1> SUFFICES ASSUME FeedsItself(g) PROVE FALSE
  OBVIOUS
<1>1. PICK ids : ids = NodeIds(g)
  OBVIOUS
<1>2. Cardinality(ids) \in Nat
  BY <1>1, FS_CardinalityType
<1>3. PICK n \in 1..Cardinality(ids) : \E path \in [0..n -> ids] :
         path[0] = path[n] /\ \A k \in 1..n : Feeds(g, path[k - 1], path[k])
  BY <1>1 DEF FeedsItself, Feeds
<1>4. PICK path \in [0..n -> ids] :
         path[0] = path[n] /\ \A k \in 1..n : Feeds(g, path[k - 1], path[k])
  BY <1>3
<1>5. n \in Nat /\ n >= 1 /\ \A k \in 0..n : rank[path[k]] \in Nat
  BY <1>1, <1>2, <1>3, <1>4
<1> DEFINE Bad == {k \in 1..n : ~(rank[path[k]] > rank[path[0]])}
<1>6. n \in Bad
  BY <1>4, <1>5
<1>7. Bad \in SUBSET Nat
  BY <1>5
<1>8. PICK m \in Bad : \A k \in Bad : m <= k
  <2> HIDE DEF Bad
  <2> QED BY <1>6, <1>7, LeastNat
<1>9. m \in 1..n /\ ~(rank[path[m]] > rank[path[0]])
  OBVIOUS
<1>10. m - 1 \in 0..n /\ m \in 0..n
  BY <1>5, <1>9
<1>11. path[m - 1] \in ids /\ path[m] \in ids /\ Feeds(g, path[m - 1], path[m])
  BY <1>4, <1>9, <1>10
<1>12. rank[path[m - 1]] < rank[path[m]]
  BY <1>1, <1>11
<1>13. CASE m = 1
  BY <1>5, <1>9, <1>10, <1>12, <1>13
<1>14. CASE m # 1
  <2>1. m - 1 \in 1..n /\ m - 1 \notin Bad
    <3> HIDE DEF Bad
    <3> QED BY <1>5, <1>7, <1>8, <1>9, <1>14
  <2>2. rank[path[m - 1]] > rank[path[0]]
    BY <2>1
  <2>3. rank[path[m - 1]] \in Nat /\ rank[path[m]] \in Nat /\ rank[path[0]] \in Nat
    BY <1>5, <1>10
  <2> QED BY <1>9, <1>12, <2>2, <2>3
<1> QED BY <1>13, <1>14

\* The queue after its head is taken and others are added.
Requeued(q, r, a) ==
    /\ Once(q)
    /\ \A x : Queued(q, x) <=> (Queued(r, x) /\ x # r[1]) \/ Queued(a, x)

LEMMA HeadTaken ==
    ASSUME NEW S, NEW r \in Seq(S), r # <<>>, NEW a \in Seq(S), NEW q, q = Tail(r) \o a,
           Once(r), Once(a), \A i \in 1..Len(a) : ~Queued(r, a[i])
    PROVE  Requeued(q, r, a) /\ q \in Seq(S) /\ Head(r) = r[1] /\ r[1] \in S
<1>1. PICK m, n : m = Len(r) - 1 /\ n = Len(a)
  OBVIOUS
<1>2. /\ m \in Nat /\ n \in Nat /\ q \in Seq(S) /\ Len(q) = m + n /\ Head(r) = r[1] /\ r[1] \in S
      /\ Len(r) = m + 1
      /\ \A k \in 1..m : q[k] = r[k + 1]
      /\ \A k \in 1..n : q[m + k] = a[k]
  BY <1>1
<1>3. \A k \in 1..Len(q) : k \in 1..m \/ k - m \in 1..n
  BY <1>2
<1>4. ASSUME NEW k \in 1..Len(q)
      PROVE  \/ k \in 1..m /\ k + 1 \in 1..Len(r) /\ q[k] = r[k + 1]
             \/ k - m \in 1..n /\ q[k] = a[k - m]
  <2>1. CASE k \in 1..m
    BY <1>2, <2>1
  <2>2. CASE k - m \in 1..n
    <3>1. m + (k - m) = k
      BY <1>2
    <3>2. PICK i \in 1..n : i = k - m
      BY <2>2
    <3> QED BY <1>2, <3>1, <3>2
  <2> QED BY <1>3, <2>1, <2>2
<1>5. ASSUME NEW i \in 1..Len(q), NEW j \in 1..Len(q), q[i] = q[j] PROVE i = j
  <2>1. CASE i \in 1..m /\ j \in 1..m
    <3>1. i + 1 \in 1..Len(r) /\ j + 1 \in 1..Len(r) /\ r[i + 1] = r[j + 1]
      BY <1>2, <1>5, <2>1
    <3>2. i + 1 = j + 1
      BY <3>1 DEF Once
    <3> QED BY <3>2
  <2>2. CASE i - m \in 1..n /\ j - m \in 1..n
    <3>1. PICK u, v \in 1..n : u = i - m /\ v = j - m
      BY <2>2
    <3>2. m + u = i /\ m + v = j
      BY <1>2, <3>1
    <3>3. a[u] = a[v]
      BY <1>2, <1>5, <3>1, <3>2
    <3>4. u = v
      BY <1>1, <3>1, <3>3 DEF Once
    <3> QED BY <3>2, <3>4
  <2>3. ASSUME NEW u \in 1..m, NEW v \in 1..n, r[u + 1] = a[v] PROVE FALSE
    <3>1. u + 1 \in 1..Len(r)
      BY <1>2
    <3>2. Queued(r, a[v])
      BY <2>3, <3>1 DEF Queued
    <3> QED BY <1>1, <3>2
  <2> QED BY <1>4, <1>5, <2>1, <2>2, <2>3
<1>6. Once(q)
  BY <1>5 DEF Once
<1>7. ASSUME NEW x, Queued(q, x) PROVE (Queued(r, x) /\ x # r[1]) \/ Queued(a, x)
  <2>1. PICK k \in 1..Len(q) : q[k] = x
    BY <1>7 DEF Queued
  <2>2. CASE k \in 1..m /\ k + 1 \in 1..Len(r) /\ x = r[k + 1]
    <3>1. 1 \in 1..Len(r) /\ k + 1 # 1
      BY <1>2, <2>2
    <3>2. x # r[1]
      BY <2>2, <3>1 DEF Once
    <3> QED BY <2>2, <3>2 DEF Queued
  <2>3. CASE k - m \in 1..n /\ x = a[k - m]
    BY <1>1, <2>3 DEF Queued
  <2> QED BY <1>4, <2>1, <2>2, <2>3
<1>8. ASSUME NEW x, Queued(r, x), x # r[1] PROVE Queued(q, x)
  <2>1. PICK k \in 1..Len(r) : r[k] = x
    BY <1>8 DEF Queued
  <2>2. k # 1
    BY <1>8, <2>1
  <2>3. PICK j : j = k - 1
    OBVIOUS
  <2>4. j \in 1..m /\ j + 1 = k /\ j \in 1..Len(q)
    BY <1>2, <2>1, <2>2, <2>3
  <2>5. q[j] = x
    BY <1>2, <2>1, <2>4
  <2> QED BY <2>4, <2>5 DEF Queued
<1>9. ASSUME NEW x, Queued(a, x) PROVE Queued(q, x)
  <2>1. PICK k \in 1..n : a[k] = x
    BY <1>1, <1>9 DEF Queued
  <2>2. m + k \in 1..Len(q) /\ q[m + k] = x
    BY <1>2, <2>1
  <2> QED BY <2>2 DEF Queued
<1> QED BY <1>2, <1>6, <1>7, <1>8, <1>9 DEF Requeued

-----------------------------------------------------------------------------
(* _has_cycle *)

\* The nodes n still waits for when those of V have been visited.
Waits(g, n, V) == {p \in NodeIds(g) \ V : n \in Successors(g, p)}

KahnState(g) == [ready : Seq(NodeIds(g)), left : [NodeIds(g) -> Int], visited : Nat]

\* V has been visited, in the order of rank.
VisitedSoFar(g, s, V, rank) ==
    /\ V \in SUBSET NodeIds(g) /\ s.visited = Cardinality(V)
    /\ Once(s.ready)
    /\ \A n \in NodeIds(g) : /\ s.left[n] = Cardinality(Waits(g, n, V))
                             /\ Queued(s.ready, n) => n \notin V
                             /\ Waits(g, n, V) = {} <=> n \in V \/ Queued(s.ready, n)
    /\ rank \in [V -> Nat] /\ \A n \in V : rank[n] < s.visited
    /\ \A n \in V : \A p \in NodeIds(g) : n \in Successors(g, p) => p \in V /\ rank[p] < rank[n]

\* After k turns of the loop.
KahnInv(g, s, k) ==
    /\ s \in KahnState(g)
    /\ s.visited = k \/ s.ready = <<>>
    /\ \E V, rank : VisitedSoFar(g, s, V, rank)

\* One turn of it.
LEMMA VisitGoesOn ==
    ASSUME NEW g, IsFiniteSet(NodeIds(g)), NEW s, s \in KahnState(g), s.ready # <<>>,
           NEW V, NEW rank, VisitedSoFar(g, s, V, rank), NEW t, t = Visit(g, s)
    PROVE  t \in KahnState(g) /\ t.visited = s.visited + 1 /\ \E W, r : VisitedSoFar(g, t, W, r)
<1>1. PICK ids, h, next, left, fresh, W, a, q :
        /\ ids = NodeIds(g) /\ h = Head(s.ready) /\ next = Successors(g, h)
        /\ left = [n \in ids |-> IF n \in next THEN s.left[n] - 1 ELSE s.left[n]]
        /\ fresh = {n \in next : left[n] = 0} /\ W = V \cup {h}
        /\ a = SetToSeq(fresh) /\ q = Tail(s.ready) \o a
  OBVIOUS
<1>2. t = [ready |-> q, left |-> left, visited |-> s.visited + 1]
  BY <1>1 DEF Visit
<1>3. /\ s.ready \in Seq(ids) /\ s.left \in [ids -> Int] /\ s.visited \in Nat /\ IsFiniteSet(ids)
  BY <1>1 DEF KahnState
<1>4. next \in SUBSET ids /\ fresh \in SUBSET ids /\ left \in [ids -> Int]
  <2>1. next \in SUBSET ids
    BY <1>1 DEF Successors
  <2>2. \A n \in ids : s.left[n] \in Int /\ s.left[n] - 1 \in Int
    BY <1>3
  <2> QED BY <1>1, <2>1, <2>2
<1>5. IsFiniteSet(fresh)
  BY <1>3, <1>4, FS_Subset
<1>6. /\ a \in Seq(fresh) /\ Once(a)
      /\ \A x \in fresh : Queued(a, x)
  BY <1>1, <1>5, ListedOnce DEF QueueOf
<1>7. a \in Seq(ids) /\ \A i \in 1..Len(a) : a[i] \in fresh
  BY <1>4, <1>6
<1>8. h \in ids /\ Queued(s.ready, h) /\ h = s.ready[1]
  <2>1. 1 \in 1..Len(s.ready) /\ h = s.ready[1]
    BY <1>1, <1>3
  <2> QED BY <1>3, <2>1 DEF Queued
<1>9. V \in SUBSET ids /\ h \notin V /\ IsFiniteSet(V) /\ s.visited = Cardinality(V)
  BY <1>1, <1>3, <1>8, FS_Subset DEF VisitedSoFar
<1>10. W \in SUBSET ids /\ Cardinality(W) = s.visited + 1
  BY <1>1, <1>8, <1>9, FS_AddElement
<1>11. ASSUME NEW n \in ids
       PROVE  /\ Waits(g, n, W) = Waits(g, n, V) \ {h} /\ (h \in Waits(g, n, V) <=> n \in next)
              /\ IsFiniteSet(Waits(g, n, V)) /\ IsFiniteSet(Waits(g, n, W))
  <2>1. Waits(g, n, W) = Waits(g, n, V) \ {h} /\ (h \in Waits(g, n, V) <=> n \in next)
    BY <1>1, <1>8, <1>9 DEF Waits
  <2>2. Waits(g, n, V) \subseteq ids /\ Waits(g, n, W) \subseteq ids
    BY <1>1 DEF Waits
  <2> QED BY <1>3, <2>1, <2>2, FS_Subset
<1>12. ASSUME NEW n \in ids PROVE left[n] = Cardinality(Waits(g, n, W))
  <2>1. s.left[n] = Cardinality(Waits(g, n, V))
    BY <1>1 DEF VisitedSoFar
  <2>2. CASE n \in next
    <3>1. PICK x, y : x = Waits(g, n, V) /\ y = Waits(g, n, W)
      OBVIOUS
    <3>2. IsFiniteSet(x) /\ h \in x /\ y = x \ {h}
      BY <1>11, <2>2, <3>1
    <3>3. Cardinality(y) = Cardinality(x) - 1
      BY <3>2, FS_RemoveElement
    <3> QED BY <1>1, <2>1, <2>2, <3>1, <3>3
  <2>3. CASE n \notin next
    <3>1. Waits(g, n, W) = Waits(g, n, V)
      BY <1>11, <2>3
    <3> QED BY <1>1, <2>1, <2>3, <3>1
  <2> QED BY <2>2, <2>3
<1>13. ASSUME NEW n \in ids
       PROVE  n \in fresh <=> Waits(g, n, V) # {} /\ Waits(g, n, W) = {}
  <2>1. left[n] = 0 <=> Waits(g, n, W) = {}
    BY <1>11, <1>12, FS_EmptySet
  <2> QED BY <1>1, <1>11, <2>1
<1>14. \A n \in ids : Waits(g, n, V) = {} <=> n \in V \/ Queued(s.ready, n)
  BY <1>1 DEF VisitedSoFar
<1>15. Requeued(q, s.ready, a) /\ q \in Seq(ids)
  <2>1. \A i \in 1..Len(a) : ~Queued(s.ready, a[i])
    BY <1>4, <1>7, <1>13, <1>14
  <2>2. Once(s.ready)
    BY DEF VisitedSoFar
  <2>3. PICK r : r = s.ready
    OBVIOUS
  <2>4. /\ r \in Seq(ids) /\ r # <<>> /\ a \in Seq(ids) /\ q = Tail(r) \o a
        /\ Once(r) /\ Once(a) /\ \A i \in 1..Len(a) : ~Queued(r, a[i])
    BY <1>1, <1>3, <1>6, <1>7, <2>1, <2>2, <2>3
  <2> QED BY <2>3, <2>4, HeadTaken
<1>16. t \in KahnState(g) /\ t.visited = s.visited + 1
  BY <1>1, <1>2, <1>3, <1>4, <1>15 DEF KahnState
<1>17. \A x : Queued(q, x) <=> (Queued(s.ready, x) /\ x # h) \/ Queued(a, x)
  BY <1>8, <1>15 DEF Requeued
<1>18. \A n \in ids : Queued(a, n) <=> n \in fresh
  BY <1>6, <1>7 DEF Queued
<1>19. ASSUME NEW n \in ids
       PROVE  /\ Queued(q, n) => n \notin W
              /\ Waits(g, n, W) = {} <=> n \in W \/ Queued(q, n)
  <2>1. Queued(s.ready, n) => n \notin V
    BY <1>1 DEF VisitedSoFar
  <2>2. n \in W <=> n \in V \/ n = h
    BY <1>1
  <2>3. Waits(g, n, V) = {} => Waits(g, n, W) = {}
    BY <1>11
  <2> QED BY <1>8, <1>13, <1>14, <1>17, <1>18, <2>1, <2>2, <2>3
<1>20. PICK r : r = [n \in W |-> IF n = h THEN s.visited ELSE rank[n]]
  OBVIOUS
<1>21. rank \in [V -> Nat] /\ \A n \in V : rank[n] \in Nat /\ rank[n] < s.visited
  BY DEF VisitedSoFar
<1>22. r \in [W -> Nat] /\ \A n \in W : r[n] < s.visited + 1
  BY <1>1, <1>3, <1>20, <1>21
<1>23. ASSUME NEW n \in W, NEW p \in ids, n \in Successors(g, p)
       PROVE  p \in W /\ r[p] < r[n]
  <2>1. CASE n = h
    <3>1. Waits(g, h, V) = {}
      BY <1>8, <1>14
    <3>2. p \in V
      BY <1>1, <1>23, <2>1, <3>1 DEF Waits
    <3>3. p # h /\ p \in W
      BY <1>1, <1>9, <3>2
    <3> QED BY <1>20, <1>21, <2>1, <3>2, <3>3
  <2>2. CASE n # h
    <3>1. n \in V
      BY <1>1, <2>2
    <3>2. p \in V /\ rank[p] < rank[n]
      BY <1>1, <1>23, <3>1 DEF VisitedSoFar
    <3>3. p # h /\ p \in W
      BY <1>1, <1>9, <3>2
    <3> QED BY <1>20, <2>2, <3>2, <3>3
  <2> QED BY <2>1, <2>2
<1>24. t.ready = q /\ t.left = left /\ t.visited = s.visited + 1
  BY <1>2
<1>25. Once(q)
  BY <1>15 DEF Requeued
<1>26. VisitedSoFar(g, t, W, r)
  <2>1. \A n \in ids : /\ t.left[n] = Cardinality(Waits(g, n, W))
                       /\ Queued(t.ready, n) => n \notin W
                       /\ Waits(g, n, W) = {} <=> n \in W \/ Queued(t.ready, n)
    BY <1>12, <1>19, <1>24
  <2>2. r \in [W -> Nat] /\ \A n \in W : r[n] < t.visited
    BY <1>22, <1>24
  <2>3. \A n \in W : \A p \in ids : n \in Successors(g, p) => p \in W /\ r[p] < r[n]
    BY <1>23
  <2>4. W \in SUBSET ids /\ t.visited = Cardinality(W) /\ Once(t.ready)
    BY <1>10, <1>24, <1>25
  <2> QED BY <1>1, <2>1, <2>2, <2>3, <2>4 DEF VisitedSoFar
<1> QED BY <1>16, <1>26

\* A turn with nothing ready changes nothing.
LEMMA VisitKeeps ==
    ASSUME NEW g, IsFiniteSet(NodeIds(g)), NEW s, NEW k \in Nat, KahnInv(g, s, k),
           NEW t, t = Visit(g, s)
    PROVE  KahnInv(g, t, k + 1)
<1>1. s \in KahnState(g)
  BY DEF KahnInv
<1>2. PICK V, rank : VisitedSoFar(g, s, V, rank)
  BY DEF KahnInv
<1>3. CASE s.ready = <<>>
  <2>1. t = s
    BY <1>3 DEF Visit
  <2> QED BY <1>1, <1>2, <1>3, <2>1 DEF KahnInv
<1>4. CASE s.ready # <<>>
  <2>1. t \in KahnState(g) /\ t.visited = s.visited + 1 /\ \E W, r : VisitedSoFar(g, t, W, r)
    BY <1>1, <1>2, <1>4, VisitGoesOn
  <2>2. s.visited = k
    BY <1>4 DEF KahnInv
  <2> QED BY <2>1, <2>2 DEF KahnInv
<1> QED BY <1>3, <1>4

\* A turn is a turn whatever the state.
LEMMA VisitType ==
    ASSUME NEW g, IsFiniteSet(NodeIds(g)), NEW s \in KahnState(g)
    PROVE  Visit(g, s) \in KahnState(g)
<1>1. CASE s.ready = <<>>
  BY <1>1 DEF Visit
<1>2. CASE s.ready # <<>>
  <2>1. PICK ids, next, left, fresh, a, q :
          /\ ids = NodeIds(g) /\ next = Successors(g, Head(s.ready))
          /\ left = [n \in ids |-> IF n \in next THEN s.left[n] - 1 ELSE s.left[n]]
          /\ fresh = {n \in next : left[n] = 0}
          /\ a = SetToSeq(fresh) /\ q = Tail(s.ready) \o a
    OBVIOUS
  <2>2. Visit(g, s) = [ready |-> q, left |-> left, visited |-> s.visited + 1]
    BY <1>2, <2>1 DEF Visit
  <2>3. s.ready \in Seq(ids) /\ s.left \in [ids -> Int] /\ s.visited \in Nat
    BY <2>1 DEF KahnState
  <2>4. fresh \in SUBSET ids /\ IsFiniteSet(fresh)
    <3>1. next \in SUBSET ids
      BY <2>1 DEF Successors
    <3>2. fresh \in SUBSET ids
      BY <2>1, <3>1
    <3> QED BY <2>1, <3>2, FS_Subset
  <2>5. a \in Seq(fresh)
    BY <2>1, <2>4, ListedOnce DEF QueueOf
  <2>6. a \in Seq(ids)
    BY <2>4, <2>5
  <2>7. q \in Seq(ids)
    BY <1>2, <2>1, <2>3, <2>6
  <2>8. \A n \in ids : s.left[n] \in Int /\ s.left[n] - 1 \in Int
    BY <2>3
  <2>9. left \in [ids -> Int]
    BY <2>1, <2>8
  <2> QED BY <2>1, <2>2, <2>3, <2>7, <2>9 DEF KahnState
<1> QED BY <1>1, <1>2

\* The state the loop starts in.
KahnStart(g, s) ==
    /\ s.left = [n \in NodeIds(g) |-> Indegree(g, n)]
    /\ s.ready = SetToSeq({n \in NodeIds(g) : s.left[n] = 0})
    /\ s.visited = 0
    /\ s = [ready |-> s.ready, left |-> s.left, visited |-> s.visited]

LEMMA VisitsBegin ==
    ASSUME NEW g, IsFiniteSet(NodeIds(g)), NEW s, KahnStart(g, s)
    PROVE  KahnInv(g, s, 0)
<1>1. PICK ids, q, left, free :
        /\ ids = NodeIds(g) /\ q = s.ready /\ left = s.left
        /\ free = {n \in ids : left[n] = 0}
  OBVIOUS
<1>2. /\ left = [n \in ids |-> Indegree(g, n)] /\ q = SetToSeq(free)
      /\ s = [ready |-> q, left |-> left, visited |-> 0] /\ s.visited = 0
  BY <1>1 DEF KahnStart
<1>3. ASSUME NEW n \in ids
      PROVE  /\ Waits(g, n, {}) \in SUBSET ids /\ IsFiniteSet(Waits(g, n, {}))
             /\ left[n] = Cardinality(Waits(g, n, {})) /\ left[n] \in Nat
  <2>1. Waits(g, n, {}) \in SUBSET ids
    BY <1>1 DEF Waits
  <2>2. IsFiniteSet(Waits(g, n, {}))
    BY <1>1, <2>1, FS_Subset
  <2>3. Waits(g, n, {}) = {p \in ids : n \in Successors(g, p)}
    BY <1>1 DEF Waits
  <2>4. left[n] = Cardinality(Waits(g, n, {}))
    BY <1>1, <1>2, <2>3 DEF Indegree
  <2> QED BY <2>1, <2>2, <2>4, FS_CardinalityType
<1>4. IsFiniteSet(free) /\ free \in SUBSET ids
  BY <1>1, FS_Subset
<1>5. q \in Seq(free) /\ Once(q) /\ \A x \in free : Queued(q, x)
  BY <1>2, <1>4, ListedOnce DEF QueueOf
<1>6. q \in Seq(ids) /\ \A n \in ids : Queued(q, n) <=> n \in free
  <2>1. q \in Seq(ids) /\ \A i \in 1..Len(q) : q[i] \in free
    BY <1>4, <1>5
  <2> QED BY <1>5, <2>1 DEF Queued
<1>7. left \in [ids -> Int]
  BY <1>2, <1>3
<1>8. s \in KahnState(g)
  BY <1>1, <1>2, <1>6, <1>7 DEF KahnState
<1>9. ASSUME NEW n \in ids
      PROVE  /\ left[n] = Cardinality(Waits(g, n, {}))
             /\ Waits(g, n, {}) = {} <=> n \in {} \/ Queued(q, n)
  <2>1. left[n] = 0 <=> Waits(g, n, {}) = {}
    BY <1>3, FS_EmptySet
  <2> QED BY <1>1, <1>3, <1>6, <2>1
<1>10. PICK rank : rank = [n \in {} |-> 0]
  OBVIOUS
<1>11. PICK V : V = {}
  OBVIOUS
<1>12. VisitedSoFar(g, s, V, rank)
  <2>1. V \in SUBSET ids /\ s.visited = Cardinality(V) /\ Once(s.ready)
    BY <1>1, <1>2, <1>5, <1>11, FS_EmptySet
  <2>2. rank \in [V -> Nat] /\ \A n \in V : rank[n] < s.visited
    BY <1>10, <1>11
  <2>3. \A n \in ids : /\ s.left[n] = Cardinality(Waits(g, n, V))
                       /\ Queued(s.ready, n) => n \notin V
                       /\ Waits(g, n, V) = {} <=> n \in V \/ Queued(s.ready, n)
    BY <1>1, <1>9, <1>11
  <2> QED BY <1>1, <1>11, <2>1, <2>2, <2>3 DEF VisitedSoFar
<1> QED BY <1>2, <1>8, <1>12 DEF KahnInv

\* The loop, as a fold over its turns.
KahnStep(g) == [p \in KahnState(g) \X Nat |-> Visit(g, p[1])]

\* Where it ends.
KahnEnd(g, last) ==
    /\ KahnInv(g, last, Cardinality(NodeIds(g)))
    /\ HasCycle(g) <=> last.visited # Cardinality(NodeIds(g))

LEMMA LoopEnds ==
    ASSUME NEW g, IsFiniteSet(NodeIds(g))
    PROVE  \E last : KahnEnd(g, last)
<1>1. PICK ids, N, turns, left, first :
        /\ ids = NodeIds(g) /\ N = Cardinality(ids) /\ turns = [i \in 1..N |-> i]
        /\ left = [n \in ids |-> Indegree(g, n)]
        /\ first = [ready |-> SetToSeq({n \in ids : left[n] = 0}), left |-> left, visited |-> 0]
  OBVIOUS
<1>2. N \in Nat
  BY <1>1, FS_CardinalityType
<1>3. turns \in Seq(Nat) /\ Len(turns) = N /\ DOMAIN turns = 1..N
  BY <1>1, <1>2
<1>4. KahnStart(g, first)
  BY <1>1 DEF KahnStart
<1>5. KahnInv(g, first, 0) /\ first \in KahnState(g)
  BY <1>4, VisitsBegin DEF KahnInv
<1>6. KahnStep(g) \in [KahnState(g) \X Nat -> KahnState(g)]
  <2>1. \A p \in KahnState(g) \X Nat : Visit(g, p[1]) \in KahnState(g)
    BY VisitType
  <2> QED BY <2>1 DEF KahnStep
<1> DEFINE Is(it) == it = [t \in SUBSET DOMAIN turns |->
                             IF t = {} THEN first ELSE Visit(g, it[t \ {Max(t)}])]
           fold == CHOOSE it : Is(it)
<1>7. PICK K : K = KahnState(g)
  OBVIOUS
<1>8. PICK F : F = KahnStep(g)
  OBVIOUS
<1>9. PICK it : IsFold(it, F, first, turns, K, Nat)
  <2>1. F \in [K \X Nat -> K] /\ first \in K
    BY <1>5, <1>6, <1>7, <1>8
  <2> QED BY <1>3, <2>1, FoldExists
<1>10. Is(it)
  <2>1. it = [t \in SUBSET DOMAIN turns |->
               IF t = {} THEN first ELSE F[<<it[t \ {Max(t)}], turns[Max(t)]>>]]
    BY <1>9 DEF IsFold, FoldsTo
  <2>2. \A t \in SUBSET DOMAIN turns : t # {} =>
           F[<<it[t \ {Max(t)}], turns[Max(t)]>>] = Visit(g, it[t \ {Max(t)}])
    BY <1>7, <1>8, <1>9 DEF IsFold, KahnStep
  <2> QED BY <2>1, <2>2
<1>11. Is(fold)
  BY <1>10
<1>12. HasCycle(g) <=> fold[DOMAIN turns].visited # N
  BY <1>1 DEF HasCycle, FoldLeft, MapThenFoldSet
<1> DEFINE P == {t \in SUBSET (1..N) : KahnInv(g, fold[t], Cardinality(t))}
<1>13. {} \in P
  <2>1. fold[{}] = first
    BY <1>11
  <2> HIDE DEF fold
  <2> QED BY <1>5, <2>1, FS_EmptySet
<1>14. ASSUME NEW t \in SUBSET (1..N), t # {}, t \ {Max(t)} \in P PROVE t \in P
  <2>1. fold[t] = Visit(g, fold[t \ {Max(t)}])
    BY <1>3, <1>11, <1>14
  <2>2. IsFiniteSet(t) /\ Cardinality(t \ {Max(t)}) = Cardinality(t) - 1
    BY <1>2, <1>14, IndexSets
  <2>3. PICK before, after, k : /\ before = fold[t \ {Max(t)}] /\ after = fold[t]
                                /\ k = Cardinality(t \ {Max(t)})
    OBVIOUS
  <2> HIDE DEF fold
  <2>4. KahnInv(g, before, k) /\ after = Visit(g, before)
    BY <1>14, <2>1, <2>3
  <2>5. k \in Nat /\ k + 1 = Cardinality(t)
    BY <1>14, <2>2, <2>3, FS_CardinalityType, FS_EmptySet
  <2>6. KahnInv(g, after, k + 1)
    BY <2>4, <2>5, VisitKeeps
  <2> QED BY <2>3, <2>5, <2>6
<1>15. 1..N \in P
  <2>1. \A t \in SUBSET (1..N) : t \in P
    <3> HIDE DEF P, fold
    <3> QED BY <1>2, <1>13, <1>14, IndexInduction
  <2> HIDE DEF P
  <2> QED BY <2>1
<1>16. PICK last : last = fold[1..N]
  OBVIOUS
<1>17. KahnInv(g, last, N)
  <2>1. KahnInv(g, fold[1..N], Cardinality(1..N))
    BY <1>15
  <2>2. Cardinality(1..N) = N
    BY <1>2, FS_Interval
  <2> HIDE DEF fold
  <2> QED BY <1>16, <2>1, <2>2
<1>18. KahnEnd(g, last)
  <2> HIDE DEF fold
  <2> QED BY <1>1, <1>3, <1>12, <1>16, <1>17 DEF KahnEnd
<1> QED BY <1>18

\* _has_cycle answers whether a node feeds itself.
LEMMA CycleFound ==
    ASSUME NEW g, IsFiniteSet(NodeIds(g))
    PROVE  HasCycle(g) <=> FeedsItself(g)
<1>1. PICK last : KahnEnd(g, last)
  BY LoopEnds
<1>2. PICK ids, N : ids = NodeIds(g) /\ N = Cardinality(ids)
  OBVIOUS
<1>3. PICK V, rank : VisitedSoFar(g, last, V, rank)
  BY <1>1 DEF KahnEnd, KahnInv
<1>4. V \in SUBSET ids /\ last.visited = Cardinality(V) /\ IsFiniteSet(ids) /\ IsFiniteSet(V)
      /\ N \in Nat /\ Cardinality(V) \in Nat
  BY <1>2, <1>3, FS_Subset, FS_CardinalityType DEF VisitedSoFar
<1>5. \A x, y \in ids : Feeds(g, x, y) <=> y \in Successors(g, x)
  BY <1>2 DEF Feeds, Successors
<1>6. CASE Cardinality(V) = N
  <2>1. V = ids
    BY <1>2, <1>4, <1>6, FS_Subset
  <2>2. rank \in [NodeIds(g) -> Nat]
        /\ \A x, y \in NodeIds(g) : Feeds(g, x, y) => rank[x] < rank[y]
    BY <1>2, <1>3, <1>5, <2>1 DEF VisitedSoFar
  <2>3. ~FeedsItself(g)
    BY <2>2, RankedAlong
  <2>4. ~HasCycle(g)
    BY <1>1, <1>2, <1>4, <1>6 DEF KahnEnd
  <2> QED BY <2>3, <2>4
<1>7. CASE Cardinality(V) # N
  <2>1. HasCycle(g)
    BY <1>1, <1>2, <1>4, <1>7 DEF KahnEnd
  <2>2. last.ready = <<>>
    BY <1>1, <1>2, <1>4, <1>7 DEF KahnEnd, KahnInv
  <2>3. PICK U : U = ids \ V
    OBVIOUS
  <2>4. U # {}
    BY <1>2, <1>4, <1>7, <2>3
  <2>5. ASSUME NEW x \in U PROVE \E y \in U : Feeds(g, y, x)
    <3>1. ~Queued(last.ready, x)
      BY <2>2 DEF Queued
    <3>2. Waits(g, x, V) # {}
      BY <1>2, <1>3, <2>3, <3>1 DEF VisitedSoFar
    <3> QED BY <1>2, <1>5, <2>3, <3>2 DEF Waits
  <2>6. U \in SUBSET NodeIds(g)
    BY <1>2, <2>3
  <2>7. FeedsItself(g)
    BY <2>4, <2>5, <2>6, FedByOneAnother
  <2> QED BY <2>1, <2>7
<1> QED BY <1>6, <1>7

\* validate_strategy_graph reports nothing of the graphs that can run, and of
\* no other.
LEMMA ValidIsRunnable ==
    ASSUME NEW g, IsFiniteSet(NodeIds(g))
    PROVE  Valid(g) <=> Runnable(g)
<1>1. HasCycle(g) <=> FeedsItself(g)
  BY CycleFound
<1> DEFINE A == IF g.outputs = <<>> THEN {"missing_output"} ELSE {}
           B == UNION {NodeErrors(g.nodes[i]) : i \in DOMAIN g.nodes}
           C == UNION {EdgeErrors(g, g.edges[i]) : i \in DOMAIN g.edges}
           D == IF HasCycle(g) THEN {"cycle_detected"} ELSE {}
           F(i) == FindPort(g, g.outputs[i].node, "outputs", g.outputs[i].port)
           E == {"missing_output" : i \in {j \in DOMAIN g.outputs : F(j) = NoPort}}
<1>2. Errors(g) = A \union B \union C \union D \union E
  BY DEF Errors
<1>3. A = {} <=> g.outputs # <<>>
  OBVIOUS
<1>4. B = {} <=> \A i \in DOMAIN g.nodes : NodeErrors(g.nodes[i]) = {}
  OBVIOUS
<1>5. C = {} <=> \A i \in DOMAIN g.edges : EdgeErrors(g, g.edges[i]) = {}
  OBVIOUS
<1>6. D = {} <=> ~FeedsItself(g)
  BY <1>1
<1>7. E = {} <=> \A i \in DOMAIN g.outputs : F(i) # NoPort
  <2> HIDE DEF F
  <2> QED OBVIOUS
<1>8. Valid(g) <=> A = {} /\ B = {} /\ C = {} /\ D = {} /\ E = {}
  <2> HIDE DEF A, B, C, D, E
  <2> QED BY <1>2 DEF Valid
<1> HIDE DEF A, B, C, D, E
<1> QED BY <1>3, <1>4, <1>5, <1>6, <1>7, <1>8 DEF Runnable

-----------------------------------------------------------------------------
(* The verdict on a published graph *)

\* A thread's requests, and what it knows of the graph it publishes, c being
\* the statement it is at and r the row it has inserted.
Judged(q, c, r) ==
    /\ Len(q) \in Nat /\ q = [i \in 1..Len(q) |-> q[i]]
    /\ \A i \in 1..Len(q) : q[i].op = "publish" => IsFiniteSet(NodeIds(q[i].graph))
    /\ c # "idle" => Len(q) # 0
    /\ c \in {"key", "sequence"} => Runnable(q[1].graph)
    /\ r.table = "versions" => Runnable(r.graph)

VerdictInv == VerdictIsRight /\ \A t \in Threads : Judged(todo[t], pc[t], inserted[t])

LEMMA FirstRequest ==
    ASSUME NEW q, Len(q) \in Nat, q = [i \in 1..Len(q) |-> q[i]], q # <<>>
    PROVE  /\ 1 \in 1..Len(q) /\ Head(q) = q[1] /\ Len(q) # 0
           /\ Len(Tail(q)) = Len(q) - 1
           /\ Tail(q) = [i \in 1..(Len(q) - 1) |-> q[i + 1]]
<1>1. PICK S : S = {q[i] : i \in 1..Len(q)}
  OBVIOUS
<1>2. q \in Seq(S)
  BY <1>1
<1>3. 1 \in 1..Len(q) /\ Head(q) = q[1] /\ Len(q) # 0
  BY <1>2
<1>4. PICK p : p = Tail(q)
  OBVIOUS
<1>5. p \in Seq(S) /\ Len(p) = Len(q) - 1 /\ \A i \in 1..Len(p) : p[i] = q[i + 1]
  BY <1>2, <1>4
<1>6. p = [i \in 1..Len(p) |-> p[i]]
  BY <1>5
<1> QED BY <1>3, <1>4, <1>5, <1>6

\* One request less.
LEMMA NextRequest ==
    ASSUME NEW q, NEW c, NEW r, Judged(q, c, r), q # <<>>
    PROVE  Judged(Tail(q), "idle", NoRow)
<1>1. Len(q) \in Nat /\ q = [i \in 1..Len(q) |-> q[i]]
  BY DEF Judged
<1>2. PICK n, p : n = Len(q) - 1 /\ p = Tail(q)
  OBVIOUS
<1>3. n \in Nat /\ Len(p) = n /\ p = [i \in 1..n |-> q[i + 1]]
  BY <1>1, <1>2, FirstRequest
<1>4. \A i \in 1..n : i + 1 \in 1..Len(q)
  BY <1>1, <1>2
<1>5. \A i \in 1..n : p[i].op = "publish" => IsFiniteSet(NodeIds(p[i].graph))
  BY <1>3, <1>4 DEF Judged
<1>6. Judged(p, "idle", NoRow)
  BY <1>3, <1>5 DEF Judged, NoRow
<1> QED BY <1>2, <1>6

\* A step of one thread, that leaves it with q, c and r.
TurnsTo(t, q, c, r) ==
    /\ todo' = [todo EXCEPT ![t] = q] /\ pc' = [pc EXCEPT ![t] = c]
    /\ inserted' = [inserted EXCEPT ![t] = r]

LEMMA TurnJudged ==
    ASSUME PerThread, VerdictInv, NEW t \in Threads, NEW q, NEW c, NEW r, TurnsTo(t, q, c, r),
           Judged(q, c, r), VerdictIsRight'
    PROVE  VerdictInv'
<1>1. ASSUME NEW u \in Threads PROVE Judged(todo'[u], pc'[u], inserted'[u])
  <2>1. CASE u = t
    <3>1. todo'[u] = q /\ pc'[u] = c /\ inserted'[u] = r
      BY <2>1 DEF PerThread, TurnsTo
    <3> QED BY <3>1
  <2>2. CASE u # t
    <3>1. todo'[u] = todo[u] /\ pc'[u] = pc[u] /\ inserted'[u] = inserted[u]
      BY <2>2 DEF PerThread, TurnsTo
    <3> QED BY <3>1 DEF VerdictInv
  <2> QED BY <2>1, <2>2
<1> QED BY <1>1 DEF VerdictInv

LEMMA EndJudged ==
    ASSUME PerThread, VerdictInv, NEW t \in Threads, EndTransaction(t), todo[t] # <<>>,
           VerdictIsRight'
    PROVE  VerdictInv'
<1>1. PICK q, r, p : q = todo[t] /\ r = inserted[t] /\ p = Tail(q)
  OBVIOUS
<1>2. Judged(q, pc[t], r) /\ q # <<>>
  BY <1>1 DEF VerdictInv
<1>3. Judged(p, "idle", NoRow)
  BY <1>1, <1>2, NextRequest
<1>4. TurnsTo(t, p, "idle", NoRow)
  BY <1>1 DEF EndTransaction, TurnsTo
<1> QED BY <1>3, <1>4, TurnJudged

\* What every thread has, where it is.
LEMMA JudgedAt ==
    ASSUME VerdictInv, NEW t \in Threads
    PROVE  /\ Judged(todo[t], pc[t], inserted[t])
           /\ pc[t] # "idle" => todo[t] # <<>>
           /\ todo[t] # <<>> => Job(t) = todo[t][1] /\ 1 \in 1..Len(todo[t])
<1>1. Judged(todo[t], pc[t], inserted[t])
  BY DEF VerdictInv
<1>2. PICK q : q = todo[t]
  OBVIOUS
<1>3. Len(q) \in Nat /\ q = [i \in 1..Len(q) |-> q[i]] /\ (pc[t] # "idle" => Len(q) # 0)
  BY <1>1, <1>2 DEF Judged
<1>4. q # <<>> => Head(q) = q[1] /\ 1 \in 1..Len(q)
  BY <1>3, FirstRequest
<1>5. pc[t] # "idle" => q # <<>>
  BY <1>3
<1> QED BY <1>1, <1>2, <1>4, <1>5 DEF Job

\* A graph is turned down if it cannot run, and goes on if it can.
LEMMA ValidateJudged ==
    ASSUME StoreInv, VerdictInv, NEW t \in Threads, Validate(t)
    PROVE  VerdictInv'
<1>1. PerThread /\ VerdictIsRight /\ UNCHANGED versions
  BY DEF StoreInv, VerdictInv, Validate
<1>2. PICK q, g : q = todo[t] /\ g = Job(t).graph
  OBVIOUS
<1>3. q # <<>> /\ Judged(q, pc[t], inserted[t]) /\ g = q[1].graph /\ 1 \in 1..Len(q)
      /\ q[1].op = "publish"
  BY <1>2, JudgedAt DEF Validate
<1>4. IsFiniteSet(NodeIds(g))
  BY <1>3 DEF Judged
<1>5. Valid(g) <=> Runnable(g)
  BY <1>4, ValidIsRunnable
<1>6. CASE Valid(g) /\ pc' = [pc EXCEPT ![t] = "key"] /\ UNCHANGED <<todo, locks, inserted, refused>>
  <2>1. TurnsTo(t, q, "key", inserted[t])
    BY <1>1, <1>2, <1>6 DEF TurnsTo, PerThread
  <2>2. Judged(q, "key", inserted[t])
    <3>1. Runnable(q[1].graph)
      BY <1>3, <1>5, <1>6
    <3>2. Len(q) # 0
      BY <1>3
    <3> QED BY <1>3, <3>1, <3>2 DEF Judged
  <2>3. VerdictIsRight'
    BY <1>1, <1>6 DEF VerdictIsRight
  <2>4. PICK r : r = inserted[t]
    OBVIOUS
  <2> QED BY <1>1, <2>1, <2>2, <2>3, <2>4, TurnJudged
<1>7. CASE ~Valid(g) /\ refused' = refused \union {g} /\ EndTransaction(t)
  <2>1. VerdictIsRight'
    BY <1>1, <1>5, <1>7 DEF VerdictIsRight
  <2> QED BY <1>1, <1>2, <1>3, <1>7, <2>1, EndJudged
<1> QED BY <1>2, <1>6, <1>7 DEF Validate

\* A key that is new keeps its graph until the number is taken.
LEMMA PublishKeyJudged ==
    ASSUME StoreInv, VerdictInv, NEW t \in Threads, PublishKey(t)
    PROVE  VerdictInv'
<1>1. PerThread /\ VerdictIsRight'
  BY DEF StoreInv, VerdictInv, PublishKey, VerdictIsRight
<1>2. pc[t] = "key" /\ todo[t] # <<>> /\ Judged(todo[t], "key", inserted[t])
  BY JudgedAt DEF PublishKey
<1>3. CASE EndTransaction(t)
  BY <1>1, <1>2, <1>3, EndJudged
<1>4. CASE pc' = [pc EXCEPT ![t] = "sequence"] /\ UNCHANGED <<todo, inserted, answers>>
  <2>1. PICK q, r : q = todo[t] /\ r = inserted[t]
    OBVIOUS
  <2>2. TurnsTo(t, q, "sequence", r)
    BY <1>1, <1>4, <2>1 DEF TurnsTo, PerThread
  <2>3. Judged(q, "sequence", r)
    BY <1>2, <2>1 DEF Judged
  <2> QED BY <1>1, <2>2, <2>3, TurnJudged
<1> QED BY <1>3, <1>4 DEF PublishKey, AnswerAgain

LEMMA PublishNumberJudged ==
    ASSUME StoreInv, VerdictInv, NEW t \in Threads, PublishNumber(t)
    PROVE  VerdictInv'
<1>1. PerThread /\ VerdictIsRight'
  BY DEF StoreInv, VerdictInv, PublishNumber, VerdictIsRight
<1>2. pc[t] = "sequence" /\ todo[t] # <<>> /\ Judged(todo[t], "sequence", inserted[t])
      /\ Job(t) = todo[t][1]
  BY JudgedAt DEF PublishNumber
<1>3. CASE EndTransaction(t)
  BY <1>1, <1>2, <1>3, EndJudged
<1>4. CASE ~EndTransaction(t)
  <2>1. PICK q, r : /\ q = todo[t] /\ r.table = "versions" /\ r.graph = Job(t).graph
                    /\ inserted' = [inserted EXCEPT ![t] = r]
    <3>1. PICK r : r = [table |-> "versions", id |-> nextId.versions, key |-> Job(t).key,
                        hash |-> RequestHash(Job(t)), strategy |-> Job(t).strategy,
                        version |-> MaxVersion(Job(t).strategy) + 1,
                        graph |-> Job(t).graph, graphHash |-> GraphHash(Job(t).graph)]
      OBVIOUS
    <3>2. inserted' = [inserted EXCEPT ![t] = r]
      BY <1>4, <3>1 DEF PublishNumber
    <3>3. r.table = "versions" /\ r.graph = Job(t).graph
      BY <3>1
    <3> QED BY <3>2, <3>3
  <2>2. pc' = [pc EXCEPT ![t] = "commit"] /\ UNCHANGED todo
    BY <1>4 DEF PublishNumber
  <2>3. TurnsTo(t, q, "commit", r)
    BY <1>1, <2>1, <2>2 DEF TurnsTo, PerThread
  <2>4. Judged(q, "commit", r)
    BY <1>2, <2>1 DEF Judged
  <2> QED BY <1>1, <2>3, <2>4, TurnJudged
<1> QED BY <1>3, <1>4

LEMMA CommitStoreJudged ==
    ASSUME StoreInv, VerdictInv, NEW t \in Threads, CommitStore(t)
    PROVE  VerdictInv'
<1>1. PerThread /\ VerdictIsRight /\ UNCHANGED refused
  BY DEF StoreInv, VerdictInv, CommitStore
<1>2. todo[t] # <<>> /\ Judged(todo[t], pc[t], inserted[t]) /\ EndTransaction(t)
  BY JudgedAt DEF CommitStore
<1>3. VerdictIsRight'
  <2>1. \A v \in versions' : v \in versions \/ (v = inserted[t] /\ inserted[t].table = "versions")
    BY DEF CommitStore
  <2> QED BY <1>1, <1>2, <2>1 DEF VerdictIsRight, Judged
<1> QED BY <1>1, <1>2, <1>3, EndJudged

\* The statements that have nothing to do with graphs: the transaction ends,
\* or goes on with another row or none.
Aside(t) ==
    \/ EndTransaction(t)
    \/ /\ UNCHANGED todo
       /\ \E c, r : /\ c \notin {"key", "sequence"} /\ pc' = [pc EXCEPT ![t] = c]
                    /\ r = inserted[t] \/ r.table # "versions"
                    /\ inserted' = [inserted EXCEPT ![t] = r]

LEMMA OtherJudged ==
    ASSUME StoreInv, VerdictInv, NEW t \in Threads, UNCHANGED <<versions, refused>>, todo[t] # <<>>,
           Aside(t)
    PROVE  VerdictInv'
<1>1. PerThread /\ VerdictIsRight'
  BY DEF StoreInv, VerdictInv, VerdictIsRight
<1>2. CASE EndTransaction(t)
  BY <1>1, <1>2, EndJudged
<1>3. CASE UNCHANGED todo /\ ~EndTransaction(t)
  <2>1. PICK q, c, r : /\ q = todo[t] /\ c \notin {"key", "sequence"}
                       /\ pc' = [pc EXCEPT ![t] = c]
                       /\ r = inserted[t] \/ r.table # "versions"
                       /\ inserted' = [inserted EXCEPT ![t] = r]
    BY <1>3 DEF Aside
  <2>2. Judged(q, pc[t], inserted[t]) /\ Len(q) # 0
    <3>1. Judged(q, pc[t], inserted[t]) /\ 1 \in 1..Len(q)
      BY <2>1, JudgedAt
    <3> QED BY <3>1
  <2>3. Judged(q, c, r)
    BY <2>1, <2>2 DEF Judged
  <2>4. TurnsTo(t, q, c, r)
    BY <1>1, <1>3, <2>1 DEF TurnsTo, PerThread
  <2> QED BY <1>1, <2>3, <2>4, TurnJudged
<1> QED BY <1>2, <1>3 DEF Aside

\* The row stays as it is.
LEMMA AsideAt ==
    ASSUME PerThread, NEW t \in Threads, NEW c, c \notin {"key", "sequence"},
           pc' = [pc EXCEPT ![t] = c], UNCHANGED <<todo, inserted>>
    PROVE  Aside(t)
<1>1. PICK r : r = inserted[t]
  OBVIOUS
<1>2. inserted' = [inserted EXCEPT ![t] = r]
  BY <1>1 DEF PerThread
<1> QED BY <1>1, <1>2 DEF Aside

\* Another row is inserted.
LEMMA AsideWith ==
    ASSUME NEW t \in Threads, NEW c, c \notin {"key", "sequence"}, pc' = [pc EXCEPT ![t] = c],
           NEW r, r.table # "versions", inserted' = [inserted EXCEPT ![t] = r], UNCHANGED todo
    PROVE  Aside(t)
BY DEF Aside

\* The listings.
LEMMA CeilingAside ==
    ASSUME PerThread, NEW t \in Threads, NEW of, NEW rows, Ceiling(t, of, rows)
    PROVE  Aside(t)
<1>1. pc' = [pc EXCEPT ![t] = "page"] /\ UNCHANGED <<todo, inserted>>
  BY DEF Ceiling
<1> QED BY <1>1, AsideAt

LEMMA ReadAside ==
    ASSUME PerThread, NEW t \in Threads, pc[t] = "page",
           EndTransaction(t) \/ UNCHANGED <<todo, pc, locks, inserted>>
    PROVE  Aside(t)
<1>1. CASE EndTransaction(t)
  BY <1>1 DEF Aside
<1>2. CASE UNCHANGED <<todo, pc, locks, inserted>>
  <2>1. pc' = [pc EXCEPT ![t] = "page"]
    BY <1>2 DEF PerThread
  <2> QED BY <1>2, <2>1, AsideAt
<1> QED BY <1>1, <1>2

LEMMA StatementAside ==
    ASSUME PerThread, VerdictInv, NEW t \in Threads,
           \/ CreateStrategy(t)
           \/ Break(t)
           \/ RunKey(t)
           \/ RunInput(t)
           \/ PersistRun(t)
           \/ CommitRun(t)
           \/ ListVersions(t)
           \/ ListRuns(t)
           \/ ListTrades(t)
    PROVE  Aside(t) /\ todo[t] # <<>> /\ UNCHANGED <<versions, refused>>
<1>1. CASE CreateStrategy(t)
  <2>1. \/ EndTransaction(t)
        \/ /\ pc' = [pc EXCEPT ![t] = "commit"] /\ UNCHANGED todo
           /\ inserted' = [inserted EXCEPT ![t] =
                 [table |-> "strategies", id |-> nextId.strategies, key |-> Job(t).key,
                  hash |-> RequestHash(Job(t))]]
    BY <1>1 DEF CreateStrategy, AnswerAgain
  <2>2. PICK r : r = [table |-> "strategies", id |-> nextId.strategies, key |-> Job(t).key,
                      hash |-> RequestHash(Job(t))]
    OBVIOUS
  <2>3. r.table # "versions"
    BY <2>2
  <2>4. CASE EndTransaction(t)
    BY <1>1, <2>4 DEF Aside, CreateStrategy
  <2>5. CASE ~EndTransaction(t)
    <3>1. Aside(t)
      BY <2>1, <2>2, <2>3, <2>5, AsideWith
    <3> QED BY <1>1, <3>1 DEF CreateStrategy
  <2> QED BY <2>4, <2>5
<1>2. CASE Break(t)
  <2>1. pc[t] # "idle"
    BY <1>2 DEF Break
  <2> QED BY <1>2, <2>1, JudgedAt DEF Break, Aside
<1>3. CASE RunKey(t)
  <2>1. \/ EndTransaction(t)
        \/ pc' = [pc EXCEPT ![t] = "input"] /\ UNCHANGED <<todo, inserted>>
    BY <1>3 DEF RunKey, AnswerAgain
  <2>2. Aside(t)
    BY <2>1, AsideAt DEF Aside
  <2> QED BY <1>3, <2>2 DEF RunKey
<1>4. CASE RunInput(t)
  <2>1. PICK r : r = RunRow(Job(t), input[t], <<>>)
    OBVIOUS
  <2>2. \/ EndTransaction(t)
        \/ /\ pc' = [pc EXCEPT ![t] = "commit"] /\ UNCHANGED todo
           /\ inserted' = [inserted EXCEPT ![t] = r]
    BY <1>4, <2>1 DEF RunInput
  <2>3. r.table # "versions"
    BY <2>1 DEF RunRow
  <2>4. Aside(t)
    <3>1. CASE EndTransaction(t)
      BY <3>1 DEF Aside
    <3>2. CASE ~EndTransaction(t)
      BY <2>2, <2>3, <3>2, AsideWith
    <3> QED BY <3>1, <3>2
  <2>5. pc[t] # "idle"
    BY <1>4 DEF RunInput
  <2> QED BY <1>4, <2>4, <2>5, JudgedAt DEF RunInput
<1>5. CASE CommitRun(t)
  <2>1. pc[t] # "idle"
    BY <1>5 DEF CommitRun
  <2> QED BY <1>5, <2>1, JudgedAt DEF CommitRun, Aside
<1>6. CASE ListVersions(t)
  <2>1. PICK rows : Ceiling(t, "versions", rows) \/ (pc[t] = "page" /\ ReadPage(t, rows))
    BY <1>6 DEF ListVersions
  <2>2. Aside(t)
    BY <2>1, CeilingAside, ReadAside DEF ReadPage
  <2> QED BY <1>6, <2>2 DEF ListVersions
<1>7. CASE ListRuns(t)
  <2>1. Ceiling(t, "runs", runs) \/ (pc[t] = "page" /\ ReadPage(t, runs))
    BY <1>7 DEF ListRuns
  <2>2. Aside(t)
    BY <2>1, CeilingAside, ReadAside DEF ReadPage
  <2> QED BY <1>7, <2>2 DEF ListRuns
<1>8. CASE ListTrades(t)
  <2>1. CASE OpenTrades(t)
    <3>1. EndTransaction(t) \/ (pc' = [pc EXCEPT ![t] = "page"] /\ UNCHANGED <<todo, inserted>>)
      BY <2>1 DEF OpenTrades
    <3>2. Aside(t)
      BY <3>1, AsideAt DEF Aside
    <3> QED BY <1>8, <3>2 DEF ListTrades
  <2>2. CASE ReadTrades(t)
    <3>1. Aside(t)
      BY <2>2, ReadAside DEF ReadTrades
    <3> QED BY <1>8, <3>1 DEF ListTrades
  <2> QED BY <1>8, <2>1, <2>2 DEF ListTrades
<1>9. CASE PersistRun(t)
  <2>1. PICK hash : hash = InputHash(Job(t).what, tape, signals)
    OBVIOUS
  <2>2. PICK r : r = RunRow(Job(t), hash, replay.book.trades)
    OBVIOUS
  <2>3. \/ EndTransaction(t)
        \/ /\ pc' = [pc EXCEPT ![t] = "commit"] /\ UNCHANGED todo
           /\ inserted' = [inserted EXCEPT ![t] = r]
    BY <1>9, <2>1, <2>2 DEF PersistRun, AnswerAgain
  <2>4. r.table # "versions"
    BY <2>2 DEF RunRow
  <2>5. Aside(t)
    <3>1. CASE EndTransaction(t)
      BY <3>1 DEF Aside
    <3>2. CASE ~EndTransaction(t)
      BY <2>3, <2>4, <3>2, AsideWith
    <3> QED BY <3>1, <3>2
  <2> QED BY <1>9, <2>5 DEF PersistRun
<1> QED BY <1>1, <1>2, <1>3, <1>4, <1>5, <1>6, <1>7, <1>8, <1>9

LEMMA VerdictInvInit == SubmissionInit => VerdictInv
<1> SUFFICES ASSUME SubmissionInit PROVE VerdictInv
  OBVIOUS
<1>1. PICK s \in Settings : todo = s.todo /\ versions = s.versions
  BY DEF SubmissionInit
<1>2. /\ \A v \in s.versions : Runnable(v.graph)
      /\ \A t \in Threads :
           /\ Len(s.todo[t]) \in Nat
           /\ s.todo[t] = [i \in 1..Len(s.todo[t]) |-> s.todo[t][i]]
           /\ \A i \in 1..Len(s.todo[t]) :
                s.todo[t][i].op = "publish" => IsFiniteSet(NodeIds(s.todo[t][i].graph))
  BY SettingsAssumption
<1>3. /\ pc = [t \in Threads |-> "idle"] /\ inserted = [t \in Threads |-> NoRow]
      /\ refused = {}
  BY DEF SubmissionInit
<1>4. ASSUME NEW t \in Threads PROVE Judged(todo[t], pc[t], inserted[t])
  <2>1. pc[t] = "idle" /\ inserted[t].table = "none"
    BY <1>3 DEF NoRow
  <2>2. PICK q : q = s.todo[t]
    OBVIOUS
  <2>3. /\ Len(q) \in Nat /\ q = [i \in 1..Len(q) |-> q[i]]
        /\ \A i \in 1..Len(q) : q[i].op = "publish" => IsFiniteSet(NodeIds(q[i].graph))
    BY <1>2, <2>2
  <2> QED BY <1>1, <2>1, <2>2, <2>3 DEF Judged
<1> QED BY <1>1, <1>2, <1>3, <1>4 DEF VerdictInv, VerdictIsRight

LEMMA VerdictInvSteps ==
    ASSUME StoreInv, VerdictInv, [SubmissionNext]_submissionVars
    PROVE  VerdictInv'
<1>1. PerThread
  BY DEF StoreInv
<1>2. CASE UNCHANGED storeVars
  BY <1>2 DEF VerdictInv, VerdictIsRight, storeVars
<1>3. ASSUME NEW t \in Threads,
             \/ CreateStrategy(t)
             \/ Break(t)
             \/ RunKey(t)
             \/ RunInput(t)
             \/ PersistRun(t)
             \/ CommitRun(t)
             \/ ListVersions(t)
             \/ ListRuns(t)
             \/ ListTrades(t)
      PROVE  VerdictInv'
  <2>1. Aside(t) /\ todo[t] # <<>> /\ UNCHANGED <<versions, refused>>
    BY <1>1, <1>3, StatementAside
  <2> QED BY <2>1, OtherJudged
<1>4. ASSUME NEW t \in Threads, Validate(t) \/ PublishKey(t) \/ PublishNumber(t) \/ CommitStore(t)
      PROVE  VerdictInv'
  BY <1>4, ValidateJudged, PublishKeyJudged, PublishNumberJudged, CommitStoreJudged
<1>5. CASE \E d \in Datasets : Seal(d)
  BY <1>2, <1>5 DEF Seal
<1>6. CASE StartReplay \/ ReplaySignal \/ FinishReplay
  BY <1>2, <1>6 DEF StartReplay, ReplaySignal, FinishReplay
<1>7. CASE UNCHANGED submissionVars
  BY <1>2, <1>7 DEF submissionVars
<1> QED BY <1>3, <1>4, <1>5, <1>6, <1>7 DEF SubmissionNext, StoreStep

(* A graph is published only if it can run and turned down only if it      *)
(* cannot (validate_strategy_graph): the count of _has_cycle finds a cycle *)
(* if and only if a node feeds itself along some path, in a graph of any   *)
(* number of nodes.                                                        *)
THEOREM GraphsAreJudgedRightly == SubmissionSpec => []VerdictIsRight
<1>1. SubmissionInit => VerdictInv
  BY VerdictInvInit
<1>2. SubmissionInv /\ VerdictInv /\ [SubmissionNext]_submissionVars => VerdictInv'
  BY VerdictInvSteps DEF SubmissionInv
<1>3. VerdictInv => VerdictIsRight
  BY DEF VerdictInv
<1> QED BY <1>1, <1>2, <1>3, SubmissionInvariant, PTL DEF SubmissionSpec
=============================================================================
