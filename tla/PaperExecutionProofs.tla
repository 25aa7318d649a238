------------------------ MODULE PaperExecutionProofs ------------------------
(***************************************************************************)
(* Proofs about PaperExecution, for every set of intents, workers,         *)
(* evaluators, scopes and positions and every attempt budget.              *)
(***************************************************************************)
EXTENDS PaperExecution, FiniteSums

\* Zero is not the number of an intent, and an order has a position.
LEMMA IntentsFacts ==
    /\ Intents \subseteq Nat /\ 0 \notin Intents
    /\ \A i \in Intents : BotOf[i] \in Bots
    /\ \A i \in Intents : OrderOf[i].position \in Positions
  BY PaperConstants DEF Intents, Bots, Order

\* The empty tables and idle processes satisfy the inductive invariant.
LEMMA InitIInv == Init => IInv
  <1> SUFFICES ASSUME Init PROVE IInv
    OBVIOUS
  <1> USE PaperConstants, IntentsFacts
  <1>1. TypeOK
    BY DEF Init, TypeOK, Idle, At, Memory, Stage, IntentStatus, JobStatus
  <1>2. /\ Barrier /\ IntentStages /\ EvaluatorMemory
        /\ OneFillPerIntent /\ LocksAreOpen
    BY DEF Init, Barrier, IntentStages, EvaluatorMemory, OneFillPerIntent, LocksAreOpen,
           HoldsShare, Procs, Idle, At
  <1>3. WorkerMemory
    BY DEF Init, WorkerMemory, Remembers, Locking, Procs, Idle, At
  <1>4. BudgetAccounting /\ NoShortPosition
    BY DEF Init, BudgetAccounting, NoShortPosition
  <1> QED
    BY <1>1, <1>2, <1>3, <1>4 DEF IInv

-----------------------------------------------------------------------------
(* Type correctness.                                                       *)

\* What a process remembers in each place of its work is well formed.
LEMMA IdleType == Idle \in Memory
  BY DEF Memory, Idle, At

\* The memories that worker and evaluator steps store are of type Memory.
LEMMA AtType ==
    ASSUME NEW i \in Intents, NEW g \in Nat,
           NEW pc \in {"claiming", "executing", "locked", "cleared", "failing", "picked"}
    PROVE  At(pc, i, g) \in Memory
  BY DEF Memory, At

\* A decision not yet committed is of type Memory.
LEMMA DecidedType ==
    ASSUME NEW i \in Intents, NEW d \in {"approved", "risk_rejected"}
    PROVE  Decided(i, d) \in Memory
  BY DEF Memory, Decided

\* The memory of a worker that has read the position is of type Memory.
LEMMA FillingType ==
    ASSUME NEW i \in Intents, NEW g \in Nat, NEW q \in Int
    PROVE  Filling(i, g, q) \in Memory
  BY DEF Memory, Filling

\* Replacing one memory keeps the type of proc.
LEMMA ProcType ==
    ASSUME TypeOK, NEW p, NEW m \in Memory, proc' = [proc EXCEPT ![p] = m]
    PROVE  proc' \in [Procs -> Memory]
  BY DEF TypeOK

\* What a process in the middle of its work remembers.
LEMMA Busy ==
    ASSUME IInv, NEW p \in Procs, proc[p].pc # "idle"
    PROVE  proc[p].i \in Intents /\ proc[p].gen \in Nat /\ proc[p].seen \in Int
  BY DEF IInv, TypeOK, Memory, EvaluatorMemory, WorkerMemory, Remembers, Procs

\* The jobs already made are finitely many.
LEMMA BornCount == Cardinality({k \in Intents : born[k] > 0}) \in Nat
  <1>1. IsFiniteSet(Intents)
    BY PaperConstants, FS_Interval DEF Intents
  <1>2. IsFiniteSet({k \in Intents : born[k] > 0})
    BY <1>1, FS_Subset
  <1> QED
    BY <1>2, FS_CardinalityType

\* Type correctness is preserved by every step.
LEMMA NextTypeOK ==
    ASSUME IInv, [Next]_vars
    PROVE  TypeOK'
  <1>a. TypeOK
    BY DEF IInv
  <1> USE DEF TypeOK, IntentStatus, JobStatus
  <1>1. ASSUME NEW i \in Intents, CreateIntent(i) PROVE TypeOK'
    BY <1>a, <1>1 DEF CreateIntent, lease, ledger, operators, locks
  <1>2. ASSUME NEW i \in Intents, LeaseExpires(i) PROVE TypeOK'
    BY <1>a, <1>2 DEF LeaseExpires, ledger, operators, locks
  <1>3. ASSUME NEW i \in Intents, RetryComesDue(i) PROVE TypeOK'
    BY <1>a, <1>3 DEF RetryComesDue, ledger, operators, locks
  <1>4. ASSUME NEW s \in Scopes, NEW st \in {"armed", "released"}, InsertSwitch(s, st)
        PROVE  TypeOK'
    BY <1>a, <1>4, PaperConstants DEF InsertSwitch, lease, ledger, locks
  <1>5. ASSUME NEW s \in Scopes, CommitSwitch(s) PROVE TypeOK'
    BY <1>a, <1>5 DEF CommitSwitch, lease, ledger, locks
  <1>6. ASSUME NEW b \in Bots, NEW s \in Stage, ChangeStage(b, s) PROVE TypeOK'
    BY <1>a, <1>6, PaperConstants DEF ChangeStage, lease, ledger, locks
  <1>7. ASSUME NEW e \in Evaluators, PickIntent(e) PROVE TypeOK'
    <2>1. PICK i \in Intents : proc' = [proc EXCEPT ![e] = At("picked", i, 0)]
      BY <1>7 DEF PickIntent, Undecided
    <2>2. proc' \in [Procs -> Memory]
      BY <1>a, <2>1, AtType, ProcType
    <2> QED
      BY <1>a, <1>7, <2>2 DEF PickIntent, lease, ledger, operators, locks
  <1>8. ASSUME NEW e \in Evaluators, Decide(e) PROVE TypeOK'
    <2>1. proc[e].i \in Intents
      BY <1>8, Busy DEF Decide, Procs
    <2>2. Decided(proc[e].i, RiskDecision(proc[e].i)) \in Memory
      BY <2>1, DecidedType DEF RiskDecision
    <2>3. proc' \in [Procs -> Memory]
      BY <1>a, <1>8, <2>2, ProcType DEF Decide
    <2> QED
      BY <1>a, <1>8, <2>3 DEF Decide, lease, ledger, operators, locks
  <1>9. ASSUME NEW e \in Evaluators, CommitEvaluate(e) PROVE TypeOK'
    <2>1. proc[e].i \in Intents
      BY <1>9, Busy DEF CommitEvaluate, Procs
    <2>2. proc[e].decision \in {"approved", "risk_rejected"}
      BY <1>a, <1>9 DEF CommitEvaluate, IInv, EvaluatorMemory, Memory, Procs
    <2>3. proc' \in [Procs -> Memory]
      BY <1>a, <1>9, IdleType, ProcType DEF CommitEvaluate
    <2>4. /\ intent' \in [Intents -> IntentStatus]
          /\ job' \in [Intents -> JobStatus]
          /\ born' \in [Intents -> Nat]
      BY <1>a, <1>9, <2>1, <2>2, BornCount DEF CommitEvaluate
    <2> QED
      BY <1>a, <1>9, <2>3, <2>4 DEF CommitEvaluate, ledger, operators, locks
  <1>10. ASSUME NEW w \in Workers, BeginClaim(w) PROVE TypeOK'
    <2>1. CASE First = {}
      BY <1>a, <1>10, <2>1 DEF BeginClaim, lease, ledger, operators
    <2>2. ASSUME NEW i \in First, jobLock' = [jobLock EXCEPT ![i] = w],
                 proc' = [proc EXCEPT ![w] = At("claiming", i, 0)]
          PROVE  TypeOK'
      <3>1. i \in Intents
        BY DEF First, Candidates
      <3>2. proc' \in [Procs -> Memory]
        BY <1>a, <2>2, <3>1, AtType, ProcType
      <3> QED
        BY <1>a, <1>10, <2>2, <3>2 DEF BeginClaim, lease, ledger, operators
    <2> QED
      BY <1>10, <2>1, <2>2 DEF BeginClaim
  <1>11. ASSUME NEW w \in Workers, CommitClaim(w) PROVE TypeOK'
    <2>1. proc[w].i \in Intents
      BY <1>11, Busy DEF CommitClaim, Procs
    <2>2. CASE HasBudget(proc[w].i)
      <3>1. /\ job' = [job EXCEPT ![proc[w].i] = "running"]
            /\ owner' = [owner EXCEPT ![proc[w].i] = w]
            /\ gen' = [gen EXCEPT ![proc[w].i] = @ + 1]
            /\ attempts' = [attempts EXCEPT ![proc[w].i] = @ + 1]
            /\ leaseDue' = [leaseDue EXCEPT ![proc[w].i] = FALSE]
            /\ retryDue' = [retryDue EXCEPT ![proc[w].i] = FALSE]
            /\ jobLock' = [jobLock EXCEPT ![proc[w].i] = None]
            /\ proc' = [proc EXCEPT ![w] = At("executing", proc[w].i, gen[proc[w].i] + 1)]
        BY <1>11, <2>2 DEF CommitClaim
      <3>2. gen[proc[w].i] + 1 \in Nat
        BY <1>a, <2>1
      <3>3. proc' \in [Procs -> Memory]
        BY <1>a, <2>1, <3>1, <3>2, AtType, ProcType
      <3>4. gen' \in [Intents -> Nat]
        BY <1>a, <2>1, <3>1
      <3>5. attempts' \in [Intents -> 0..MaxAttempts]
        BY <1>a, <2>1, <2>2, <3>1, PaperConstants DEF HasBudget
      <3>6. leaseDue' \in [Intents -> BOOLEAN] /\ retryDue' \in [Intents -> BOOLEAN]
        BY <1>a, <3>1
      <3>7. /\ job' \in [Intents -> JobStatus]
            /\ owner' \in [Intents -> Workers \cup {None}]
            /\ jobLock' \in [Intents -> Workers \cup {None}]
        BY <1>a, <3>1
      <3> QED
        BY <1>a, <1>11, <3>3, <3>4, <3>5, <3>6, <3>7 DEF CommitClaim, ledger, operators
    <2>3. CASE ~HasBudget(proc[w].i)
      <3>1. proc' \in [Procs -> Memory]
        BY <1>a, <1>11, <2>3, IdleType, ProcType DEF CommitClaim
      <3> QED
        BY <1>a, <1>11, <2>3, <3>1 DEF CommitClaim, ledger, operators
    <2> QED
      BY <2>2, <2>3
  <1>12. ASSUME NEW w \in Workers, ExecutorRaises(w) PROVE TypeOK'
    <2>1. At("failing", proc[w].i, proc[w].gen) \in Memory
      BY <1>12, Busy, AtType DEF ExecutorRaises, Procs
    <2>2. proc' \in [Procs -> Memory]
      BY <1>a, <1>12, <2>1, ProcType DEF ExecutorRaises
    <2> QED
      BY <1>a, <1>12, <2>2 DEF ExecutorRaises, lease, ledger, operators, locks
  <1>13. ASSUME NEW w \in Workers, BeginComplete(w) PROVE TypeOK'
    <2>1. At("locked", proc[w].i, proc[w].gen) \in Memory
      BY <1>13, Busy, AtType DEF BeginComplete, Procs
    <2>2. proc' \in [Procs -> Memory]
      BY <1>a, <1>13, <2>1, IdleType, ProcType DEF BeginComplete
    <2>3. jobLock' \in [Intents -> Workers \cup {None}]
      BY <1>a, <1>13 DEF BeginComplete
    <2> QED
      BY <1>a, <1>13, <2>2, <2>3 DEF BeginComplete, lease, ledger, operators
  <1>14. ASSUME NEW w \in Workers, Defer(w) PROVE TypeOK'
    <2>1. proc[w].i \in Intents
      BY <1>14, Busy DEF Defer, Procs
    <2>2. attempts[proc[w].i] \in 0..MaxAttempts
      BY <1>a, <2>1
    <2>3. Refund(attempts[proc[w].i]) \in 0..MaxAttempts
      BY <2>2, PaperConstants DEF Refund
    <2>4. attempts' \in [Intents -> 0..MaxAttempts]
      BY <1>a, <1>14, <2>3 DEF Defer
    <2>5. deferrals' \in [Intents -> Nat]
      BY <1>a, <1>14, <2>1 DEF Defer
    <2>6. leaseDue' \in [Intents -> BOOLEAN] /\ retryDue' \in [Intents -> BOOLEAN]
      BY <1>a, <1>14 DEF Defer
    <2>7. proc' \in [Procs -> Memory]
      BY <1>a, <1>14, IdleType, ProcType DEF Defer
    <2>8. /\ job' \in [Intents -> JobStatus]
          /\ owner' \in [Intents -> Workers \cup {None}]
          /\ jobLock' \in [Intents -> Workers \cup {None}]
      BY <1>a, <1>14 DEF Defer
    <2> QED
      BY <1>a, <1>14, <2>4, <2>5, <2>6, <2>7, <2>8 DEF Defer, ledger, operators
  <1>15. ASSUME NEW w \in Workers, ClearSwitch(w) PROVE TypeOK'
    <2>1. At("cleared", proc[w].i, proc[w].gen) \in Memory
      BY <1>15, Busy, AtType DEF ClearSwitch, Procs
    <2>2. proc' \in [Procs -> Memory]
      BY <1>a, <1>15, <2>1, ProcType DEF ClearSwitch
    <2> QED
      BY <1>a, <1>15, <2>2 DEF ClearSwitch, lease, ledger, operators, locks
  <1>16. ASSUME NEW w \in Workers, LockPosition(w) PROVE TypeOK'
    <2>1. proc[w].i \in Intents /\ proc[w].gen \in Nat
      BY <1>16, Busy DEF LockPosition, Procs
    <2>2. position[OrderOf[proc[w].i].position] \in Int
      BY <1>a, <2>1, IntentsFacts
    <2>3. Filling(proc[w].i, proc[w].gen, position[OrderOf[proc[w].i].position]) \in Memory
      BY <2>1, <2>2, FillingType
    <2>4. proc' \in [Procs -> Memory]
      BY <1>a, <1>16, <2>3, ProcType DEF LockPosition
    <2>5. posLock' \in [Positions -> Workers \cup {None}]
      BY <1>a, <1>16 DEF LockPosition
    <2> QED
      BY <1>a, <1>16, <2>4, <2>5 DEF LockPosition, lease, ledger, operators
  <1>17. ASSUME NEW w \in Workers, NEW q \in FillQuantities, CommitFill(w, q) PROVE TypeOK'
    <2>1. proc[w].i \in Intents /\ proc[w].gen \in Nat /\ proc[w].seen \in Int
      BY <1>17, Busy DEF CommitFill, Procs
    <2>2. proc[w].seen + Signed(proc[w].i, q) \in Int
      BY <2>1, PaperConstants DEF Signed
    <2>3. position' \in [Positions -> Int]
      BY <1>a, <1>17, <2>2 DEF CommitFill
    <2>4. [gen |-> proc[w].gen, quantity |-> q] \in [gen : Nat, quantity : FillQuantities]
      BY <2>1
    <2>5. fills' \in [Intents -> SUBSET [gen : Nat, quantity : FillQuantities]]
      <3> DEFINE F == [gen : Nat, quantity : FillQuantities]
                 f == [gen |-> proc[w].gen, quantity |-> q]
      <3>1. fills' = [fills EXCEPT ![proc[w].i] = @ \cup {f}]
        BY <1>17 DEF CommitFill
      <3>2. f \in F /\ fills \in [Intents -> SUBSET F]
        BY <1>a, <2>4
      <3> HIDE DEF F, f
      <3>3. fills' \in [Intents -> SUBSET F]
        BY <2>1, <3>1, <3>2
      <3> QED
        BY <3>3 DEF F
    <2>6. leaseDue' \in [Intents -> BOOLEAN]
      BY <1>a, <1>17 DEF CommitFill
    <2>7. proc' \in [Procs -> Memory]
      BY <1>a, <1>17, IdleType, ProcType DEF CommitFill
    <2>8. /\ intent' \in [Intents -> IntentStatus]
          /\ job' \in [Intents -> JobStatus]
          /\ owner' \in [Intents -> Workers \cup {None}]
          /\ jobLock' \in [Intents -> Workers \cup {None}]
          /\ posLock' \in [Positions -> Workers \cup {None}]
      BY <1>a, <1>17 DEF CommitFill
    <2> QED
      BY <1>a, <1>17, <2>3, <2>5, <2>6, <2>7, <2>8 DEF CommitFill, operators
  <1>18. ASSUME NEW w \in Workers, CompleteRaises(w) PROVE TypeOK'
    <2>1. At("failing", proc[w].i, proc[w].gen) \in Memory
      BY <1>18, Busy, AtType DEF CompleteRaises, Procs
    <2>2. proc' \in [Procs -> Memory]
      BY <1>a, <1>18, <2>1, ProcType DEF CompleteRaises
    <2>3. /\ jobLock' \in [Intents -> Workers \cup {None}]
          /\ posLock' \in [Positions -> Workers \cup {None}]
      BY <1>a, <1>18 DEF CompleteRaises
    <2> QED
      BY <1>a, <1>18, <2>2, <2>3 DEF CompleteRaises, lease, ledger, operators
  <1>19. ASSUME NEW w \in Workers, Fail(w) PROVE TypeOK'
    <2>1. proc' \in [Procs -> Memory]
      BY <1>a, <1>19, IdleType, ProcType DEF Fail, BudgetSpent
    <2>2. CASE HoldsLease(w, proc[w].i)
      <3>1. retryDue' = [retryDue EXCEPT ![proc[w].i] = FALSE] /\ leaseDue' = leaseDue
        BY <1>19, <2>2 DEF Fail, BudgetSpent
      <3>2. retryDue' \in [Intents -> BOOLEAN] /\ leaseDue' \in [Intents -> BOOLEAN]
        BY <1>a, <3>1
      <3>3. /\ job' \in [Intents -> JobStatus]
            /\ owner' \in [Intents -> Workers \cup {None}]
            /\ UNCHANGED <<gen, attempts, deferrals>>
        BY <1>a, <1>19, <2>2 DEF Fail, BudgetSpent
      <3> QED
        BY <1>a, <1>19, <2>1, <3>2, <3>3 DEF Fail, BudgetSpent, ledger, operators, locks
    <2>3. CASE ~HoldsLease(w, proc[w].i)
      BY <1>a, <1>19, <2>1, <2>3 DEF Fail, BudgetSpent, lease, ledger, operators, locks
    <2> QED
      BY <2>2, <2>3
  <1>20. ASSUME NEW p \in Procs, Crash(p) PROVE TypeOK'
    <2>1. proc' \in [Procs -> Memory]
      BY <1>a, <1>20, IdleType, ProcType DEF Crash
    <2>2. /\ jobLock' \in [Intents -> Workers \cup {None}]
          /\ posLock' \in [Positions -> Workers \cup {None}]
      BY <1>a, <1>20 DEF Crash
    <2>3. crashes' \in 0..MaxCrashes
      BY <1>a, <1>20, PaperConstants DEF Crash
    <2> QED
      BY <1>a, <1>20, <2>1, <2>2, <2>3 DEF Crash, lease, ledger, operators
  <1>21. CASE UNCHANGED vars
    BY <1>a, <1>21 DEF vars, lease, ledger, operators, locks
  <1> QED
    BY <1>1, <1>2, <1>3, <1>4, <1>5, <1>6, <1>7, <1>8, <1>9, <1>10, <1>11, <1>12, <1>13,
       <1>14, <1>15, <1>16, <1>17, <1>18, <1>19, <1>20, <1>21
       DEF Next, RunOnce, Evaluate

-----------------------------------------------------------------------------
(* Frames: what a step of one process must leave alone, and what is then   *)
(* left to show of the process and of the job it works on.                 *)

\* The conjuncts of the invariant that speak of one intent.
LedgerOf(i) ==
    /\ job[i] # "absent" => intent[i] \in {"approved", "paper_filled"}
    /\ job[i] = "running" => attempts[i] > 0
    /\ IF job[i] = "succeeded"
       THEN /\ intent[i] = "paper_filled"
            /\ \E q \in FillQuantities : fills[i] = {[gen |-> gen[i], quantity |-> q]}
       ELSE intent[i] # "paper_filled" /\ fills[i] = {}
    /\ gen[i] = attempts[i] + deferrals[i]
    /\ attempts[i] <= MaxAttempts
    /\ job[i] = "dead_letter" => attempts[i] = MaxAttempts

\* The locks a worker holds are the ones its place in run_once accounts for.
OwnLocks(w) ==
    /\ \A i \in Intents : jobLock[i] = w => proc[w].pc \in Locking /\ proc[w].i = i
    /\ \A p \in Positions : posLock[p] = w =>
         proc[w].pc = "filling" /\ OrderOf[proc[w].i].position = p

\* The inductive invariant, one intent and one worker at a time.
LEMMA EachOne ==
    ASSUME IInv
    PROVE  /\ \A i \in Intents : LedgerOf(i)
           /\ \A w \in Workers : Remembers(w) /\ OwnLocks(w)
  <1>1. \A i \in Intents : LedgerOf(i)
    BY DEF IInv, LedgerOf, IntentStages, OneFillPerIntent, BudgetAccounting
  <1>2. \A w \in Workers : Remembers(w)
    BY DEF IInv, WorkerMemory
  <1>3. \A w \in Workers : OwnLocks(w)
    BY PaperConstants DEF IInv, TypeOK, LocksAreOpen, OwnLocks, Locking
  <1> QED
    BY <1>1, <1>2, <1>3

\* A step that touches the row and the ledger of one intent at most.
LEMMA LedgerFrame ==
    ASSUME IInv, NEW j,
           \A i \in Intents \ {j} :
               /\ intent'[i] = intent[i] /\ job'[i] = job[i] /\ gen'[i] = gen[i]
               /\ attempts'[i] = attempts[i] /\ deferrals'[i] = deferrals[i]
               /\ fills'[i] = fills[i],
           j \in Intents => LedgerOf(j)'
    PROVE  IntentStages' /\ OneFillPerIntent' /\ BudgetAccounting'
  <1>1. ASSUME NEW i \in Intents PROVE LedgerOf(i)'
    <2>1. CASE i = j
      BY <2>1
    <2>2. CASE i # j
      BY <2>2, EachOne DEF LedgerOf
    <2> QED
      BY <2>1, <2>2
  <1> QED
    BY <1>1 DEF LedgerOf, IntentStages, OneFillPerIntent, BudgetAccounting

\* A step of process x that leaves the kill switch table alone.
LEMMA BarrierFrame ==
    ASSUME IInv, NEW x, NEW m,
           UNCHANGED <<switch, inserted>>,
           proc' = [proc EXCEPT ![x] = m],
           m.pc \in {"claiming", "cleared", "filling", "deciding"} =>
               ShareLockFree /\ (m.decision # "risk_rejected" => ~Armed(m.i))
    PROVE  Barrier'
  <1> SUFFICES ASSUME NEW p \in Procs, HoldsShare(p)'
               PROVE  /\ ShareLockFree'
                      /\ proc'[p].decision # "risk_rejected" => ~(\E s \in ScopesOf[proc'[p].i] : switch'[s] = "armed")
    BY DEF Barrier, Armed
  <1>1. CASE p = x
    BY <1>1 DEF IInv, TypeOK, HoldsShare, ShareLockFree, Armed
  <1>2. CASE p # x
    BY <1>2 DEF IInv, TypeOK, Barrier, HoldsShare, ShareLockFree, Armed
  <1> QED
    BY <1>1, <1>2

\* What a step of worker w leaves alone: other workers' memory, locks, and
\* the rows and positions they have locked.
OthersKept(w) ==
    /\ \A v \in Workers \ {w} : proc'[v] = proc[v]
    /\ \A i \in Intents : jobLock'[i] # jobLock[i] => {jobLock[i], jobLock'[i]} \subseteq {w, None}
    /\ \A p \in Positions : posLock'[p] # posLock[p] => {posLock[p], posLock'[p]} \subseteq {w, None}
    /\ \A i \in Intents : jobLock[i] \notin {w, None} =>
         job'[i] = job[i] /\ gen'[i] = gen[i] /\ (Due(i) => Due(i)')
    /\ \A p \in Positions : posLock[p] \notin {w, None} => position'[p] = position[p]

\* A step that leaves the other workers' rows and locks alone keeps what they
\* remember true.
LEMMA WorkerFrame ==
    ASSUME IInv, TypeOK', NEW w, OthersKept(w), w \in Workers => Remembers(w)' /\ OwnLocks(w)'
    PROVE  WorkerMemory' /\ LocksAreOpen'
  <1> USE PaperConstants
  <1>1. ASSUME NEW v \in Workers, v # w PROVE Remembers(v)'
    <2>1. Remembers(v) /\ proc'[v] = proc[v]
      BY <1>1, EachOne DEF OthersKept
    <2>2. CASE proc[v].pc \notin Locking
      BY <2>1, <2>2 DEF Remembers, Locking
    <2>3. CASE proc[v].pc \in Locking
      <3> DEFINE i == proc[v].i
      <3>1. i \in Intents /\ jobLock[i] = v
        BY <1>1, <2>1, <2>3, Busy DEF Remembers, Locking, Procs
      <3>2. jobLock'[i] = v /\ job'[i] = job[i] /\ gen'[i] = gen[i] /\ (Due(i) => Due(i)')
        BY <1>1, <3>1 DEF OthersKept
      <3>3. proc[v].pc = "filling" =>
              LET p == OrderOf[proc[v].i].position IN
              posLock'[p] = v /\ proc[v].seen = position'[p]
        BY <1>1, <2>1, <3>1, IntentsFacts DEF OthersKept, Remembers
      <3>4. proc[v].pc = "claiming" => Due(proc[v].i)'
        BY <2>1, <3>2 DEF Remembers
      <3> HIDE DEF i
      <3> QED
        BY <2>1, <3>2, <3>3, <3>4 DEF Remembers, i
    <2> QED
      BY <2>2, <2>3
  <1>2. ASSUME NEW v \in Workers, v # w PROVE OwnLocks(v)'
    <2>1. OwnLocks(v) /\ proc'[v] = proc[v]
      BY <1>2, EachOne DEF OthersKept
    <2>2. \A i \in Intents : jobLock'[i] = v => jobLock[i] = v
      BY <1>2 DEF OthersKept
    <2>3. \A p \in Positions : posLock'[p] = v => posLock[p] = v
      BY <1>2 DEF OthersKept
    <2> QED
      BY <2>1, <2>2, <2>3 DEF OwnLocks
  <1>3. \A v \in Workers : Remembers(v)' /\ OwnLocks(v)'
    BY <1>1, <1>2
  <1>4. WorkerMemory'
    BY <1>3 DEF WorkerMemory
  <1>5. LocksAreOpen'
    BY <1>3 DEF LocksAreOpen, OwnLocks, Locking, TypeOK
  <1> QED
    BY <1>4, <1>5

\* A step that decides nothing an open evaluation has locked.
LEMMA EvaluatorFrame ==
    ASSUME IInv,
           \A e \in Evaluators : proc'[e] = proc[e],
           \A i \in Intents : intent[i] = "created" => intent'[i] = "created"
    PROVE  EvaluatorMemory'
  <1>1. \A e \in Evaluators : proc[e].pc # "idle" => proc[e].i \in Intents
    BY Busy DEF Procs
  <1> QED
    BY <1>1 DEF IInv, EvaluatorMemory

-----------------------------------------------------------------------------
(* Preservation of the inductive invariant, by group of actions.           *)

Safety == /\ Barrier
          /\ IntentStages
          /\ EvaluatorMemory
          /\ WorkerMemory
          /\ OneFillPerIntent
          /\ BudgetAccounting
          /\ LocksAreOpen
          /\ NoShortPosition

\* Bots, operators and the clock.
LEMMA EnvironmentStep ==
    ASSUME IInv, TypeOK',
           \/ \E i \in Intents : CreateIntent(i) \/ LeaseExpires(i) \/ RetryComesDue(i)
           \/ \E s \in Scopes : \/ \E state \in {"armed", "released"} : InsertSwitch(s, state)
                                \/ CommitSwitch(s)
           \/ \E b \in Bots : \E s \in Stage : ChangeStage(b, s)
    PROVE  Safety'
  <1> USE PaperConstants
  <1>a. TypeOK
    BY DEF IInv
  <1>1. /\ UNCHANGED <<proc, job, gen, attempts, deferrals, fills, position, jobLock, posLock>>
        /\ \A i \in Intents : intent'[i] # intent[i] => intent[i] = "absent" /\ intent'[i] = "created"
    BY <1>a DEF CreateIntent, LeaseExpires, RetryComesDue, InsertSwitch, CommitSwitch, ChangeStage,
           TypeOK, lease, ledger, operators, locks
  <1>2. \A i \in Intents : Due(i) => Due(i)'
    <2>1. CASE UNCHANGED <<leaseDue, retryDue>>
      BY <1>1, <2>1 DEF Due
    <2>2. ASSUME NEW i \in Intents, LeaseExpires(i) PROVE \A k \in Intents : Due(k) => Due(k)'
      BY <1>a, <1>1, <2>2 DEF LeaseExpires, Due, TypeOK
    <2>3. ASSUME NEW i \in Intents, RetryComesDue(i) PROVE \A k \in Intents : Due(k) => Due(k)'
      BY <1>a, <1>1, <2>3 DEF RetryComesDue, Due, TypeOK
    <2> QED
      BY <2>1, <2>2, <2>3 DEF CreateIntent, InsertSwitch, CommitSwitch, ChangeStage, lease
  <1>3. Barrier'
    <2>1. CASE UNCHANGED <<switch, inserted>>
      BY <1>1, <2>1 DEF IInv, Barrier, HoldsShare, ShareLockFree, Armed
    <2>2. ASSUME NEW s \in Scopes, NEW state, InsertSwitch(s, state) PROVE Barrier'
      BY <1>1, <2>2 DEF InsertSwitch, Barrier, HoldsShare
    <2>3. ASSUME NEW s \in Scopes, CommitSwitch(s) PROVE Barrier'
      <3>1. ~ShareLockFree
        BY <2>3 DEF CommitSwitch, ShareLockFree
      <3>2. \A p \in Procs : ~HoldsShare(p)
        BY <3>1 DEF IInv, Barrier
      <3> QED
        BY <1>1, <3>2 DEF Barrier, HoldsShare
    <2> QED
      BY <2>1, <2>2, <2>3 DEF CreateIntent, LeaseExpires, RetryComesDue, ChangeStage, operators
  <1>4. IntentStages' /\ OneFillPerIntent' /\ BudgetAccounting'
    <2>1. \A i \in Intents : LedgerOf(i)
      BY EachOne
    <2>2. \A i \in Intents : LedgerOf(i)'
      BY <1>1, <2>1 DEF LedgerOf
    <2> QED
      BY <2>2 DEF LedgerOf, IntentStages, OneFillPerIntent, BudgetAccounting
  <1>5. EvaluatorMemory'
    BY <1>1, EvaluatorFrame
  <1>6. WorkerMemory' /\ LocksAreOpen'
    <2>1. OthersKept(None)
      BY <1>1, <1>2 DEF OthersKept
    <2> QED
      BY <2>1, WorkerFrame
  <1>7. NoShortPosition'
    BY <1>1 DEF IInv, NoShortPosition
  <1> QED
    BY <1>3, <1>4, <1>5, <1>6, <1>7 DEF Safety

\* Risk evaluation.
LEMMA EvaluatorStep ==
    ASSUME IInv, TypeOK', NEW e \in Evaluators, Evaluate(e)
    PROVE  Safety'
  <1> USE PaperConstants
  <1>a. TypeOK /\ e \in Procs /\ e \notin Workers
    BY DEF IInv, Procs
  <1>1. CASE PickIntent(e)
    <2>1. PICK i \in Undecided : proc' = [proc EXCEPT ![e] = At("picked", i, 0)]
      BY <1>1 DEF PickIntent
    <2>2. UNCHANGED <<intent, lease, ledger, operators, locks>>
      BY <1>1 DEF PickIntent
    <2>3. Barrier'
      BY <2>1, <2>2, BarrierFrame DEF At, operators
    <2>4. IntentStages' /\ OneFillPerIntent' /\ BudgetAccounting'
      BY <2>2, EachOne, LedgerFrame DEF lease, ledger, LedgerOf
    <2>5. EvaluatorMemory'
      <3>1. /\ i \in Intents /\ intent[i] = "created" /\ \A f \in Evaluators : proc[f].i # i
        BY DEF Undecided
      <3>2. proc'[e] = At("picked", i, 0) /\ \A f \in Evaluators \ {e} : proc'[f] = proc[f]
        BY <1>a, <2>1 DEF TypeOK, Procs
      <3> QED
        BY <2>2, <3>1, <3>2, IntentsFacts DEF IInv, EvaluatorMemory, At
    <2>6. WorkerMemory' /\ LocksAreOpen'
      <3>1. OthersKept(None)
        BY <1>a, <2>1, <2>2 DEF OthersKept, Due, lease, ledger, locks, TypeOK, Procs
      <3> QED
        BY <3>1, WorkerFrame
    <2>7. NoShortPosition'
      BY <2>2 DEF IInv, NoShortPosition, ledger
    <2> QED
      BY <2>3, <2>4, <2>5, <2>6, <2>7 DEF Safety
  <1>2. CASE Decide(e)
    <2> DEFINE i == proc[e].i
    <2>1. /\ proc[e].pc = "picked" /\ ShareLockFree
          /\ proc' = [proc EXCEPT ![e] = Decided(i, RiskDecision(i))]
          /\ UNCHANGED <<intent, lease, ledger, operators, locks>>
      BY <1>2 DEF Decide
    <2>2. RiskDecision(i) \in {"approved", "risk_rejected"}
          /\ (RiskDecision(i) # "risk_rejected" => ~Armed(i))
      BY DEF RiskDecision
    <2> HIDE DEF i
    <2>3. Barrier'
      <3> DEFINE m == Decided(i, RiskDecision(i))
      <3>1. m.pc = "deciding" /\ m.decision = RiskDecision(i) /\ m.i = i
        BY DEF Decided
      <3>2. proc' = [proc EXCEPT ![e] = m]
        BY <2>1
      <3> HIDE DEF m
      <3> QED
        BY <2>1, <2>2, <3>1, <3>2, BarrierFrame DEF operators
    <2>4. IntentStages' /\ OneFillPerIntent' /\ BudgetAccounting'
      BY <2>1, EachOne, LedgerFrame DEF lease, ledger, LedgerOf
    <2>5. EvaluatorMemory'
      <3>1. proc'[e] = Decided(i, RiskDecision(i)) /\ \A f \in Evaluators \ {e} : proc'[f] = proc[f]
        BY <1>a, <2>1 DEF TypeOK, Procs
      <3> QED
        BY <2>1, <2>2, <3>1 DEF IInv, EvaluatorMemory, Decided, i
    <2>6. WorkerMemory' /\ LocksAreOpen'
      <3>1. OthersKept(None)
        BY <1>a, <2>1 DEF OthersKept, Due, lease, ledger, locks, TypeOK, Procs
      <3> QED
        BY <3>1, WorkerFrame
    <2>7. NoShortPosition'
      BY <2>1 DEF IInv, NoShortPosition, ledger
    <2> QED
      BY <2>3, <2>4, <2>5, <2>6, <2>7 DEF Safety
  <1>3. CASE CommitEvaluate(e)
    <2>i. PICK i \in Intents : i = proc[e].i
      BY <1>a, <1>3, Busy DEF CommitEvaluate
    <2>1. /\ proc[e].pc = "deciding"
          /\ intent' = [intent EXCEPT ![i] = proc[e].decision]
          /\ proc' = [proc EXCEPT ![e] = Idle]
          /\ UNCHANGED <<owner, gen, attempts, leaseDue, retryDue, deferrals, ledger, operators, locks>>
          /\ \/ job' = [job EXCEPT ![i] = "pending"] /\ proc[e].decision = "approved"
             \/ job' = job
      BY <1>3, <2>i DEF CommitEvaluate, WantsJob
    <2>2. /\ i \in Intents /\ intent[i] = "created"
          /\ proc[e].decision \in {"approved", "risk_rejected"}
      BY <1>a, <2>i, <2>1 DEF IInv, EvaluatorMemory, TypeOK, Memory
    <2>3. job[i] = "absent" /\ fills[i] = {} /\ LedgerOf(i)
      BY <2>2, EachOne DEF LedgerOf
    <2>4. /\ intent'[i] = proc[e].decision /\ \A k \in Intents \ {i} : intent'[k] = intent[k]
          /\ \A k \in Intents \ {i} : job'[k] = job[k]
          /\ job'[i] \in {"pending", "absent"}
          /\ job'[i] # "absent" => proc[e].decision = "approved"
      BY <1>a, <2>1, <2>2, <2>3 DEF TypeOK
    <2>5. proc'[e] = Idle /\ \A p \in Procs \ {e} : proc'[p] = proc[p]
      BY <1>a, <2>1 DEF TypeOK
    <2>6. Barrier'
      BY <2>1, BarrierFrame DEF Idle, At, operators
    <2>7. IntentStages' /\ OneFillPerIntent' /\ BudgetAccounting'
      <3>1. LedgerOf(i)'
        BY <2>1, <2>2, <2>3, <2>4 DEF LedgerOf, ledger
      <3> QED
        BY <2>1, <2>4, <3>1, LedgerFrame DEF ledger
    <2>8. EvaluatorMemory'
      <3>1. \A f \in Evaluators \ {e} : proc'[f] = proc[f] /\ (proc[f].pc # "idle" => proc[f].i \in Intents \ {i})
        BY <1>a, <2>i, <2>2, <2>5, Busy, IntentsFacts DEF IInv, EvaluatorMemory, Procs
      <3> QED
        BY <2>4, <2>5, <3>1 DEF IInv, EvaluatorMemory, Idle, At
    <2>9. WorkerMemory' /\ LocksAreOpen'
      <3>1. \A k \in Intents : jobLock[k] # None => k # i
        <4>1. SUFFICES ASSUME NEW k \in Intents, jobLock[k] # None PROVE job[k] # "absent"
          BY <2>3
        <4>2. jobLock[k] \in Workers
          BY <1>a, <4>1 DEF TypeOK
        <4>3. proc[jobLock[k]].pc \in Locking /\ proc[jobLock[k]].i = k
          BY <4>1, <4>2, EachOne DEF OwnLocks
        <4>4. Remembers(jobLock[k])
          BY <4>2, EachOne
        <4> QED
          BY <4>3, <4>4 DEF Remembers, Due, Locking
      <3>2. \A k \in Intents \ {i} : Due(k) => Due(k)'
        BY <2>1, <2>4 DEF Due
      <3>3. OthersKept(None)
        BY <1>a, <2>1, <2>4, <2>5, <3>1, <3>2 DEF OthersKept, ledger, locks, Procs
      <3> QED
        BY <3>3, WorkerFrame
    <2>10. NoShortPosition'
      BY <2>1 DEF IInv, NoShortPosition, ledger
    <2> QED
      BY <2>6, <2>7, <2>8, <2>9, <2>10 DEF Safety
  <1> QED
    BY <1>1, <1>2, <1>3 DEF Evaluate

\* What a worker's own step does to its memory.
LEMMA OwnMemory ==
    ASSUME TypeOK, NEW w \in Workers, NEW m, proc' = [proc EXCEPT ![w] = m]
    PROVE  /\ proc'[w] = m
           /\ \A v \in Workers \ {w} : proc'[v] = proc[v]
           /\ \A e \in Evaluators : proc'[e] = proc[e]
  BY PaperConstants DEF TypeOK, Procs

\* A worker's step that changes locks and memory only.
LEMMA QuietStep ==
    ASSUME IInv, TypeOK', NEW w \in Workers, NEW m,
           UNCHANGED <<intent, lease, ledger, operators>>,
           proc' = [proc EXCEPT ![w] = m],
           m.pc \in {"claiming", "cleared", "filling", "deciding"} =>
               ShareLockFree /\ (m.decision # "risk_rejected" => ~Armed(m.i)),
           \A i \in Intents : jobLock'[i] # jobLock[i] => {jobLock[i], jobLock'[i]} \subseteq {w, None},
           \A p \in Positions : posLock'[p] # posLock[p] => {posLock[p], posLock'[p]} \subseteq {w, None},
           Remembers(w)', OwnLocks(w)'
    PROVE  Safety'
  <1>a. TypeOK
    BY DEF IInv
  <1>1. Barrier'
    BY BarrierFrame DEF operators
  <1>2. IntentStages' /\ OneFillPerIntent' /\ BudgetAccounting'
    BY EachOne, LedgerFrame DEF lease, ledger, LedgerOf
  <1>3. EvaluatorMemory'
    BY <1>a, OwnMemory, EvaluatorFrame
  <1>4. \A v \in Workers \ {w} : proc'[v] = proc[v]
    BY <1>a, OwnMemory
  <1>5. OthersKept(w)
    BY <1>4 DEF OthersKept, Due, lease, ledger
  <1>6. WorkerMemory' /\ LocksAreOpen'
    BY <1>5, WorkerFrame
  <1>7. NoShortPosition'
    BY DEF IInv, NoShortPosition, ledger
  <1> QED
    BY <1>1, <1>2, <1>3, <1>6, <1>7 DEF Safety

\* claim: the switch table is locked and the first candidate row read.
LEMMA BeginClaimStep ==
    ASSUME IInv, TypeOK', NEW w \in Workers, BeginClaim(w)
    PROVE  Safety'
  <1> USE PaperConstants
  <1>a. TypeOK /\ Remembers(w) /\ OwnLocks(w)
    BY EachOne DEF IInv
  <1>b. /\ proc[w].pc = "idle" /\ ShareLockFree
        /\ UNCHANGED <<intent, lease, ledger, operators, posLock>>
    BY DEF BeginClaim
  <1>1. CASE UNCHANGED <<jobLock, proc>>
    <2>1. proc' = [proc EXCEPT ![w] = proc[w]]
      BY <1>1, <1>a DEF TypeOK
    <2>2. Remembers(w)' /\ OwnLocks(w)'
      BY <1>1, <1>a, <1>b DEF Remembers, OwnLocks, Due, lease, ledger
    <2> QED
      BY <1>1, <1>b, <2>1, <2>2, QuietStep
  <1>2. ASSUME NEW i \in First, jobLock' = [jobLock EXCEPT ![i] = w],
               proc' = [proc EXCEPT ![w] = At("claiming", i, 0)]
        PROVE  Safety'
    <2>1. i \in Intents /\ Due(i) /\ ~Armed(i) /\ jobLock[i] = None
      BY DEF First, Candidates
    <2>2. proc'[w] = At("claiming", i, 0)
      BY <1>a, <1>2, OwnMemory
    <2>3. jobLock'[i] = w /\ \A k \in Intents \ {i} : jobLock'[k] = jobLock[k]
      BY <1>a, <1>2, <2>1 DEF TypeOK
    <2>4. Due(i)'
      BY <1>b, <2>1 DEF Due, lease
    <2>5. Remembers(w)'
      BY <2>1, <2>2, <2>3, <2>4, IntentsFacts DEF Remembers, At, Locking
    <2>6. OwnLocks(w)'
      BY <1>a, <1>b, <2>2, <2>3 DEF OwnLocks, At, Locking
    <2> DEFINE m == At("claiming", i, 0)
    <2>7. m.i = i /\ proc' = [proc EXCEPT ![w] = m]
      BY <1>2 DEF At
    <2> HIDE DEF m
    <2> QED
      BY <1>b, <2>1, <2>3, <2>5, <2>6, <2>7, QuietStep
  <1> QED
    BY <1>1, <1>2 DEF BeginClaim

\* The executor raises: only the worker's memory changes.
LEMMA ExecutorRaisesStep ==
    ASSUME IInv, TypeOK', NEW w \in Workers, ExecutorRaises(w)
    PROVE  Safety'
  <1>a. TypeOK /\ Remembers(w) /\ OwnLocks(w)
    BY EachOne DEF IInv
  <1>b. /\ proc[w].pc = "executing"
        /\ UNCHANGED <<intent, lease, ledger, operators, locks>>
        /\ proc' = [proc EXCEPT ![w] = At("failing", proc[w].i, proc[w].gen)]
    BY DEF ExecutorRaises
  <1>1. proc'[w] = At("failing", proc[w].i, proc[w].gen)
    BY <1>a, <1>b, OwnMemory
  <1>2. Remembers(w)' /\ OwnLocks(w)'
    BY <1>a, <1>b, <1>1 DEF Remembers, OwnLocks, At, Locking, locks
  <1> DEFINE m == At("failing", proc[w].i, proc[w].gen)
  <1>3. m.pc = "failing" /\ proc' = [proc EXCEPT ![w] = m]
    BY <1>b DEF At
  <1> HIDE DEF m
  <1> QED
    BY <1>b, <1>2, <1>3, QuietStep DEF locks

\* complete: the lease is checked and the job row locked.
LEMMA BeginCompleteStep ==
    ASSUME IInv, TypeOK', NEW w \in Workers, BeginComplete(w)
    PROVE  Safety'
  <1> USE PaperConstants
  <1>a. TypeOK /\ Remembers(w) /\ OwnLocks(w)
    BY EachOne DEF IInv
  <1>b. PICK i \in Intents : i = proc[w].i
    BY Busy DEF BeginComplete, Procs
  <1>c. /\ proc[w].pc = "executing" /\ jobLock[i] = None
        /\ UNCHANGED <<intent, lease, ledger, operators, posLock>>
    BY <1>b DEF BeginComplete
  <1>1. CASE HoldsLease(w, i) /\ PaperReady(i)
    <2>1. /\ jobLock' = [jobLock EXCEPT ![i] = w]
          /\ proc' = [proc EXCEPT ![w] = At("locked", i, proc[w].gen)]
      BY <1>b, <1>1 DEF BeginComplete
    <2>2. proc'[w] = At("locked", i, proc[w].gen)
      BY <1>a, <2>1, OwnMemory
    <2>3. jobLock'[i] = w /\ \A k \in Intents \ {i} : jobLock'[k] = jobLock[k]
      BY <1>a, <2>1 DEF TypeOK
    <2>4. job'[i] = "running" /\ gen'[i] = proc[w].gen
      BY <1>c, <1>1 DEF HoldsLease, lease
    <2>5. Remembers(w)'
      BY <2>2, <2>3, <2>4, IntentsFacts DEF Remembers, At, Locking
    <2>6. OwnLocks(w)'
      BY <1>a, <1>c, <2>2, <2>3 DEF OwnLocks, At, Locking
    <2> DEFINE m == At("locked", i, proc[w].gen)
    <2>7. m.pc = "locked" /\ proc' = [proc EXCEPT ![w] = m]
      BY <2>1 DEF At
    <2> HIDE DEF m
    <2> QED
      BY <1>c, <2>3, <2>5, <2>6, <2>7, QuietStep
  <1>2. CASE ~(HoldsLease(w, i) /\ PaperReady(i))
    <2>1. jobLock' = jobLock /\ proc' = [proc EXCEPT ![w] = Idle]
      BY <1>b, <1>2 DEF BeginComplete
    <2>2. proc'[w] = Idle
      BY <1>a, <2>1, OwnMemory
    <2>3. Remembers(w)' /\ OwnLocks(w)'
      BY <1>a, <1>c, <2>1, <2>2 DEF Remembers, OwnLocks, Idle, At, Locking
    <2> QED
      BY <1>c, <2>1, <2>3, QuietStep DEF Idle, At
  <1> QED
    BY <1>1, <1>2

\* complete: the switch table is locked, so that no switch can be armed before
\* the commit.
LEMMA ClearSwitchStep ==
    ASSUME IInv, TypeOK', NEW w \in Workers, ClearSwitch(w)
    PROVE  Safety'
  <1>a. TypeOK /\ Remembers(w) /\ OwnLocks(w)
    BY EachOne DEF IInv
  <1>b. /\ proc[w].pc = "locked" /\ ShareLockFree /\ ~Armed(proc[w].i)
        /\ UNCHANGED <<intent, lease, ledger, operators, locks>>
        /\ proc' = [proc EXCEPT ![w] = At("cleared", proc[w].i, proc[w].gen)]
    BY DEF ClearSwitch
  <1>1. proc'[w] = At("cleared", proc[w].i, proc[w].gen)
    BY <1>a, <1>b, OwnMemory
  <1>2. Remembers(w)' /\ OwnLocks(w)'
    BY <1>a, <1>b, <1>1 DEF Remembers, OwnLocks, At, Locking, locks, lease
  <1> DEFINE m == At("cleared", proc[w].i, proc[w].gen)
  <1>3. m.i = proc[w].i /\ proc' = [proc EXCEPT ![w] = m]
    BY <1>b DEF At
  <1> HIDE DEF m
  <1> QED
    BY <1>b, <1>2, <1>3, QuietStep DEF locks

\* complete: the position is locked and its quantity read.
LEMMA LockPositionStep ==
    ASSUME IInv, TypeOK', NEW w \in Workers, LockPosition(w)
    PROVE  Safety'
  <1> USE PaperConstants
  <1>a. TypeOK /\ Remembers(w) /\ OwnLocks(w)
    BY EachOne DEF IInv
  <1>b. PICK i \in Intents : i = proc[w].i
    BY Busy DEF LockPosition, Procs
  <1>c. PICK p \in Positions : p = OrderOf[i].position
    BY IntentsFacts
  <1>d. /\ proc[w].pc = "cleared" /\ posLock[p] = None
        /\ posLock' = [posLock EXCEPT ![p] = w]
        /\ proc' = [proc EXCEPT ![w] = Filling(i, proc[w].gen, position[p])]
        /\ UNCHANGED <<intent, lease, ledger, operators, jobLock>>
    BY <1>b, <1>c DEF LockPosition, PositionFree
  <1>1. proc'[w] = Filling(i, proc[w].gen, position[p])
    BY <1>a, <1>d, OwnMemory
  <1>2. posLock'[p] = w /\ \A x \in Positions \ {p} : posLock'[x] = posLock[x]
    BY <1>a, <1>d DEF TypeOK
  <1>3. Remembers(w)'
    BY <1>a, <1>b, <1>c, <1>d, <1>1, <1>2, IntentsFacts
       DEF Remembers, Filling, Locking, lease, ledger
  <1>4. OwnLocks(w)'
    BY <1>a, <1>b, <1>c, <1>d, <1>1, <1>2 DEF OwnLocks, Filling, Locking
  <1>5. ShareLockFree /\ ~Armed(i)
    BY <1>a, <1>b, <1>d DEF IInv, Barrier, HoldsShare, Procs, Remembers
  <1> DEFINE m == Filling(i, proc[w].gen, position[p])
  <1>6. m.i = i /\ proc' = [proc EXCEPT ![w] = m]
    BY <1>d DEF Filling
  <1>7. \A x \in Positions : posLock'[x] # posLock[x] => {posLock[x], posLock'[x]} \subseteq {w, None}
    BY <1>d, <1>2
  <1> HIDE DEF m
  <1> QED
    BY <1>d, <1>3, <1>4, <1>5, <1>6, <1>7, QuietStep

\* A completion that raises rolls back and releases its locks.
LEMMA CompleteRaisesStep ==
    ASSUME IInv, TypeOK', NEW w \in Workers, CompleteRaises(w)
    PROVE  Safety'
  <1> USE PaperConstants
  <1>a. TypeOK /\ Remembers(w) /\ OwnLocks(w)
    BY EachOne DEF IInv
  <1>b. PICK i \in Intents : i = proc[w].i
    BY Busy DEF CompleteRaises, Procs
  <1>c. /\ proc[w].pc \in {"locked", "cleared", "filling"}
        /\ jobLock' = [jobLock EXCEPT ![i] = None]
        /\ posLock' = [p \in Positions |-> IF posLock[p] = w THEN None ELSE posLock[p]]
        /\ proc' = [proc EXCEPT ![w] = At("failing", i, proc[w].gen)]
        /\ UNCHANGED <<intent, lease, ledger, operators>>
    BY <1>b DEF CompleteRaises
  <1>1. proc'[w] = At("failing", i, proc[w].gen)
    BY <1>a, <1>c, OwnMemory
  <1>2. /\ jobLock[i] = w /\ jobLock'[i] = None
        /\ \A k \in Intents \ {i} : jobLock'[k] = jobLock[k] /\ jobLock[k] # w
    BY <1>a, <1>b, <1>c DEF TypeOK, Remembers, OwnLocks, Locking
  <1>3. \A p \in Positions : posLock'[p] # w /\ (posLock'[p] # posLock[p] => posLock[p] = w /\ posLock'[p] = None)
    BY <1>c
  <1>4. Remembers(w)'
    BY <1>1, IntentsFacts DEF Remembers, At, Locking
  <1>5. OwnLocks(w)'
    BY <1>2, <1>3 DEF OwnLocks
  <1> DEFINE m == At("failing", i, proc[w].gen)
  <1>6. m.pc = "failing" /\ proc' = [proc EXCEPT ![w] = m]
    BY <1>c DEF At
  <1>7. /\ \A x \in Positions : posLock'[x] # posLock[x] => {posLock[x], posLock'[x]} \subseteq {w, None}
        /\ \A k \in Intents : jobLock'[k] # jobLock[k] => {jobLock[k], jobLock'[k]} \subseteq {w, None}
    BY <1>2, <1>3
  <1> HIDE DEF m
  <1> QED
    BY <1>c, <1>4, <1>5, <1>6, <1>7, QuietStep

\* A worker's step that changes the row of job i, which no other worker has
\* locked, ends the worker's transaction and leaves it with memory m.
LEMMA RowStep ==
    ASSUME IInv, TypeOK', NEW w \in Workers, NEW i \in Intents, NEW m,
           UNCHANGED operators,
           jobLock[i] \in {w, None},
           jobLock' = [jobLock EXCEPT ![i] = None],
           proc' = [proc EXCEPT ![w] = m],
           m.pc \in {"idle", "executing"}, m.decision = "none",
           m.pc = "idle" <=> m.i = 0,
           \A k \in Intents \ {i} :
               /\ intent'[k] = intent[k] /\ job'[k] = job[k] /\ gen'[k] = gen[k]
               /\ attempts'[k] = attempts[k] /\ deferrals'[k] = deferrals[k]
               /\ fills'[k] = fills[k] /\ leaseDue'[k] = leaseDue[k] /\ retryDue'[k] = retryDue[k],
           intent[i] # "created",
           LedgerOf(i)',
           \A k \in Intents \ {i} : jobLock[k] # w,
           \A p \in Positions :
               /\ posLock'[p] # w
               /\ posLock[p] # w => posLock'[p] = posLock[p] /\ position'[p] = position[p]
               /\ posLock[p] = w => posLock'[p] = None,
           NoShortPosition'
    PROVE  Safety'
  <1> USE PaperConstants
  <1>a. TypeOK
    BY DEF IInv
  <1>1. Barrier'
    BY BarrierFrame DEF operators
  <1>2. IntentStages' /\ OneFillPerIntent' /\ BudgetAccounting'
    BY LedgerFrame
  <1>3. EvaluatorMemory'
    BY <1>a, OwnMemory, EvaluatorFrame
  <1>4. proc'[w] = m /\ \A v \in Workers \ {w} : proc'[v] = proc[v]
    BY <1>a, OwnMemory
  <1>5. jobLock'[i] = None /\ \A k \in Intents \ {i} : jobLock'[k] = jobLock[k]
    BY <1>a DEF TypeOK
  <1>6. \A k \in Intents \ {i} : Due(k) => Due(k)'
    BY DEF Due
  <1>7. OthersKept(w)
    <2>1. \A p \in Positions : posLock'[p] # posLock[p] => {posLock[p], posLock'[p]} \subseteq {w, None}
      OBVIOUS
    <2>2. \A k \in Intents : jobLock'[k] # jobLock[k] => {jobLock[k], jobLock'[k]} \subseteq {w, None}
      BY <1>5
    <2> QED
      BY <1>4, <1>6, <2>1, <2>2 DEF OthersKept
  <1>8. Remembers(w)'
    BY <1>4 DEF Remembers, Locking
  <1>9. OwnLocks(w)'
    BY <1>5 DEF OwnLocks
  <1>10. WorkerMemory' /\ LocksAreOpen'
    BY <1>7, <1>8, <1>9, WorkerFrame
  <1> QED
    BY <1>1, <1>2, <1>3, <1>10 DEF Safety

\* claim commits: a new lease with a new generation, and no armed switch.
LEMMA CommitClaimStep ==
    ASSUME IInv, TypeOK', NEW w \in Workers, CommitClaim(w)
    PROVE  Safety'
  <1> USE PaperConstants
  <1>a. TypeOK /\ Remembers(w) /\ OwnLocks(w)
    BY EachOne DEF IInv
  <1>b. PICK i \in Intents : i = proc[w].i
    BY Busy DEF CommitClaim, Procs
  <1>c. /\ proc[w].pc = "claiming"
        /\ jobLock' = [jobLock EXCEPT ![i] = None]
        /\ UNCHANGED <<intent, deferrals, ledger, operators, posLock>>
    BY <1>b DEF CommitClaim
  <1>d. /\ jobLock[i] = w /\ Due(i) /\ LedgerOf(i)
        /\ \A k \in Intents \ {i} : jobLock[k] # w
        /\ \A p \in Positions : posLock[p] # w
    BY <1>a, <1>b, <1>c, EachOne DEF Remembers, OwnLocks, Locking
  <1>e. job[i] \in {"pending", "retry_wait", "running"}
    BY <1>d DEF Due
  <1>f. intent[i] # "created" /\ NoShortPosition'
    BY <1>c, <1>d, <1>e DEF LedgerOf, IInv, NoShortPosition, ledger
  <1>1. CASE HasBudget(i)
    <2>1. /\ job' = [job EXCEPT ![i] = "running"]
          /\ gen' = [gen EXCEPT ![i] = @ + 1]
          /\ attempts' = [attempts EXCEPT ![i] = @ + 1]
          /\ leaseDue' = [leaseDue EXCEPT ![i] = FALSE]
          /\ retryDue' = [retryDue EXCEPT ![i] = FALSE]
          /\ proc' = [proc EXCEPT ![w] = At("executing", i, gen[i] + 1)]
      BY <1>b, <1>1 DEF CommitClaim
    <2>2. /\ job'[i] = "running" /\ gen'[i] = gen[i] + 1 /\ attempts'[i] = attempts[i] + 1
          /\ \A k \in Intents \ {i} :
               job'[k] = job[k] /\ gen'[k] = gen[k] /\ attempts'[k] = attempts[k]
      BY <1>a, <2>1 DEF TypeOK
    <2>3. \A k \in Intents \ {i} : leaseDue'[k] = leaseDue[k] /\ retryDue'[k] = retryDue[k]
      BY <1>a, <2>1 DEF TypeOK
    <2>4. attempts[i] \in Nat /\ gen[i] \in Nat /\ deferrals[i] \in Nat
      BY <1>a DEF TypeOK
    <2>5. LedgerOf(i)'
      BY <1>c, <1>d, <1>e, <1>1, <2>2, <2>4 DEF LedgerOf, HasBudget, ledger
    <2> DEFINE m == At("executing", i, gen[i] + 1)
    <2>6. /\ m.pc = "executing" /\ m.decision = "none" /\ m.i = i
          /\ proc' = [proc EXCEPT ![w] = m]
      BY <2>1 DEF At
    <2> HIDE DEF m
    <2>7. \A k \in Intents \ {i} :
            /\ intent'[k] = intent[k] /\ job'[k] = job[k] /\ gen'[k] = gen[k]
            /\ attempts'[k] = attempts[k] /\ deferrals'[k] = deferrals[k]
            /\ fills'[k] = fills[k] /\ leaseDue'[k] = leaseDue[k] /\ retryDue'[k] = retryDue[k]
      BY <1>c, <2>2, <2>3 DEF ledger
    <2>8. \A x \in Positions :
            /\ posLock'[x] # w
            /\ posLock[x] # w => posLock'[x] = posLock[x] /\ position'[x] = position[x]
            /\ posLock[x] = w => posLock'[x] = None
      BY <1>c, <1>d DEF ledger
    <2> QED
      BY <1>c, <1>d, <1>f, <2>5, <2>6, <2>7, <2>8, IntentsFacts, RowStep
  <1>2. CASE ~HasBudget(i)
    <2>1. proc' = [proc EXCEPT ![w] = Idle] /\ UNCHANGED <<job, gen, attempts, leaseDue, retryDue>>
      BY <1>b, <1>2 DEF CommitClaim
    <2>2. LedgerOf(i)'
      BY <1>c, <1>d, <2>1 DEF LedgerOf, ledger
    <2>3. Idle.pc = "idle" /\ Idle.decision = "none" /\ Idle.i = 0
      BY DEF Idle, At
    <2> QED
      BY <1>c, <1>d, <1>f, <2>1, <2>2, <2>3, RowStep DEF ledger
  <1> QED
    BY <1>1, <1>2

\* A job deferred by a switch gets its attempt back.
LEMMA DeferStep ==
    ASSUME IInv, TypeOK', NEW w \in Workers, Defer(w)
    PROVE  Safety'
  <1> USE PaperConstants
  <1>a. TypeOK /\ Remembers(w) /\ OwnLocks(w)
    BY EachOne DEF IInv
  <1>b. PICK i \in Intents : i = proc[w].i
    BY Busy DEF Defer, Procs
  <1>c. /\ proc[w].pc = "locked"
        /\ job' = [job EXCEPT ![i] = "retry_wait"]
        /\ attempts' = [attempts EXCEPT ![i] = Refund(@)]
        /\ deferrals' = [deferrals EXCEPT ![i] = @ + 1]
        /\ leaseDue' = [leaseDue EXCEPT ![i] = FALSE]
        /\ retryDue' = [retryDue EXCEPT ![i] = FALSE]
        /\ jobLock' = [jobLock EXCEPT ![i] = None]
        /\ proc' = [proc EXCEPT ![w] = Idle]
        /\ UNCHANGED <<intent, gen, ledger, operators, posLock>>
    BY <1>b DEF Defer
  <1>d. /\ jobLock[i] = w /\ job[i] = "running" /\ LedgerOf(i)
        /\ \A k \in Intents \ {i} : jobLock[k] # w
        /\ \A p \in Positions : posLock[p] # w
    BY <1>a, <1>b, <1>c, EachOne DEF Remembers, OwnLocks, Locking
  <1>e. intent[i] # "created" /\ NoShortPosition'
    BY <1>c, <1>d DEF LedgerOf, IInv, NoShortPosition, ledger
  <1>1. /\ job'[i] = "retry_wait" /\ attempts'[i] = Refund(attempts[i])
        /\ deferrals'[i] = deferrals[i] + 1
        /\ \A k \in Intents \ {i} :
             job'[k] = job[k] /\ attempts'[k] = attempts[k] /\ deferrals'[k] = deferrals[k]
    BY <1>a, <1>c DEF TypeOK
  <1>2. \A k \in Intents \ {i} : leaseDue'[k] = leaseDue[k] /\ retryDue'[k] = retryDue[k]
    BY <1>a, <1>c DEF TypeOK
  <1>3. attempts[i] \in Nat /\ deferrals[i] \in Nat /\ gen[i] \in Nat /\ attempts[i] > 0
    BY <1>a, <1>d DEF TypeOK, LedgerOf
  <1>4. LedgerOf(i)'
    BY <1>c, <1>d, <1>1, <1>3 DEF LedgerOf, Refund, ledger
  <1>5. Idle.pc = "idle" /\ Idle.decision = "none" /\ Idle.i = 0
    BY DEF Idle, At
  <1>6. \A k \in Intents \ {i} :
          /\ intent'[k] = intent[k] /\ job'[k] = job[k] /\ gen'[k] = gen[k]
          /\ attempts'[k] = attempts[k] /\ deferrals'[k] = deferrals[k]
          /\ fills'[k] = fills[k] /\ leaseDue'[k] = leaseDue[k] /\ retryDue'[k] = retryDue[k]
    BY <1>c, <1>1, <1>2 DEF ledger
  <1>7. \A x \in Positions :
          /\ posLock'[x] # w
          /\ posLock[x] # w => posLock'[x] = posLock[x] /\ position'[x] = position[x]
          /\ posLock[x] = w => posLock'[x] = None
    BY <1>c, <1>d DEF ledger
  <1> QED
    BY <1>c, <1>d, <1>e, <1>4, <1>5, <1>6, <1>7, RowStep

\* fail: the job waits for a retry or is dead-lettered.
LEMMA FailStep ==
    ASSUME IInv, TypeOK', NEW w \in Workers, Fail(w)
    PROVE  Safety'
  <1> USE PaperConstants
  <1>a. TypeOK /\ Remembers(w) /\ OwnLocks(w)
    BY EachOne DEF IInv
  <1>b. PICK i \in Intents : i = proc[w].i
    BY Busy DEF Fail, BudgetSpent, Procs
  <1>c. /\ proc[w].pc = "failing" /\ jobLock[i] = None
        /\ proc' = [proc EXCEPT ![w] = Idle]
        /\ UNCHANGED <<intent, ledger, operators, locks>>
    BY <1>b DEF Fail, BudgetSpent
  <1>1. CASE HoldsLease(w, i)
    <2>1. /\ job[i] = "running" /\ LedgerOf(i)
          /\ \A k \in Intents \ {i} : jobLock[k] # w
          /\ \A p \in Positions : posLock[p] # w
      BY <1>a, <1>c, <1>1, EachOne DEF OwnLocks, Locking, HoldsLease
    <2>2. /\ job' = [job EXCEPT ![i] = IF attempts[i] >= MaxAttempts
                                       THEN "dead_letter" ELSE "retry_wait"]
          /\ retryDue' = [retryDue EXCEPT ![i] = FALSE]
          /\ UNCHANGED <<gen, attempts, leaseDue, deferrals>>
      BY <1>b, <1>1 DEF Fail, BudgetSpent
    <2>3. /\ job'[i] \in {"dead_letter", "retry_wait"}
          /\ job'[i] = "dead_letter" => attempts[i] >= MaxAttempts
          /\ \A k \in Intents \ {i} : job'[k] = job[k]
      BY <1>a, <2>2 DEF TypeOK
    <2>4. \A k \in Intents \ {i} : retryDue'[k] = retryDue[k]
      BY <1>a, <2>2 DEF TypeOK
    <2>5. attempts[i] \in 0..MaxAttempts
      BY <1>a DEF TypeOK
    <2>6. LedgerOf(i)'
      BY <1>c, <2>1, <2>2, <2>3, <2>5 DEF LedgerOf, ledger
    <2>7. intent[i] # "created" /\ NoShortPosition'
      BY <1>c, <2>1 DEF LedgerOf, IInv, NoShortPosition, ledger
    <2>8. jobLock' = [jobLock EXCEPT ![i] = None]
      BY <1>a, <1>c DEF TypeOK, locks
    <2>9. Idle.pc = "idle" /\ Idle.decision = "none" /\ Idle.i = 0
      BY DEF Idle, At
    <2> QED
      BY <1>c, <2>1, <2>2, <2>3, <2>4, <2>6, <2>7, <2>8, <2>9, RowStep DEF ledger, locks
  <1>2. CASE ~HoldsLease(w, i)
    <2>1. UNCHANGED lease
      BY <1>b, <1>2 DEF Fail, BudgetSpent
    <2>2. proc'[w] = Idle
      BY <1>a, <1>c, OwnMemory
    <2>3. Remembers(w)' /\ OwnLocks(w)'
      BY <1>a, <1>c, <2>2 DEF Remembers, OwnLocks, Idle, At, Locking, locks
    <2> QED
      BY <1>c, <2>1, <2>3, QuietStep DEF Idle, At, locks
  <1> QED
    BY <1>1, <1>2

\* complete commits: fill, position, intent and job change together.
LEMMA CommitFillStep ==
    ASSUME IInv, TypeOK', NEW w \in Workers, NEW q \in FillQuantities, CommitFill(w, q)
    PROVE  Safety'
  <1> USE PaperConstants
  <1>a. TypeOK /\ Remembers(w) /\ OwnLocks(w)
    BY EachOne DEF IInv
  <1>b. PICK i \in Intents : i = proc[w].i
    BY Busy DEF CommitFill, Procs
  <1>c. PICK p \in Positions : p = OrderOf[i].position
    BY IntentsFacts
  <1>d. /\ proc[w].pc = "filling" /\ Covered(i, q, proc[w].seen)
        /\ fills' = [fills EXCEPT ![i] = @ \cup {[gen |-> proc[w].gen, quantity |-> q]}]
        /\ position' = [position EXCEPT ![p] = proc[w].seen + Signed(i, q)]
        /\ intent' = [intent EXCEPT ![i] = "paper_filled"]
        /\ job' = [job EXCEPT ![i] = "succeeded"]
        /\ leaseDue' = [leaseDue EXCEPT ![i] = FALSE]
        /\ jobLock' = [jobLock EXCEPT ![i] = None]
        /\ posLock' = [posLock EXCEPT ![p] = None]
        /\ proc' = [proc EXCEPT ![w] = Idle]
        /\ UNCHANGED <<gen, attempts, retryDue, deferrals, operators>>
    BY <1>b, <1>c DEF CommitFill
  <1>e. /\ jobLock[i] = w /\ job[i] = "running" /\ gen[i] = proc[w].gen /\ LedgerOf(i)
        /\ posLock[p] = w /\ proc[w].seen = position[p]
        /\ \A k \in Intents \ {i} : jobLock[k] # w
        /\ \A x \in Positions \ {p} : posLock[x] # w
    BY <1>a, <1>b, <1>c, <1>d, EachOne DEF Remembers, OwnLocks, Locking
  <1>f. fills[i] = {} /\ intent[i] # "created"
    BY <1>e DEF LedgerOf
  <1>1. /\ intent'[i] = "paper_filled" /\ job'[i] = "succeeded"
        /\ fills'[i] = {[gen |-> gen[i], quantity |-> q]}
        /\ \A k \in Intents \ {i} :
             intent'[k] = intent[k] /\ job'[k] = job[k] /\ fills'[k] = fills[k]
    BY <1>a, <1>d, <1>e, <1>f DEF TypeOK
  <1>2. \A k \in Intents \ {i} : leaseDue'[k] = leaseDue[k]
    BY <1>a, <1>d DEF TypeOK
  <1>3. LedgerOf(i)'
    BY <1>d, <1>e, <1>1 DEF LedgerOf
  <1>4. /\ posLock'[p] = None /\ position'[p] = position[p] + Signed(i, q)
        /\ \A x \in Positions \ {p} : posLock'[x] = posLock[x] /\ position'[x] = position[x]
    BY <1>a, <1>d, <1>e DEF TypeOK
  <1>5. NoShortPosition'
    <2>1. position[p] \in Int /\ position[p] >= 0 /\ q \in Nat
      BY <1>a DEF IInv, NoShortPosition, TypeOK
    <2>2. OrderOf[i].side = "sell" => q <= position[p]
      BY <1>d, <1>e DEF Covered
    <2>3. OrderOf[i].side \in {"buy", "sell"}
      BY DEF Order
    <2>4. position[p] + Signed(i, q) >= 0
      BY <2>1, <2>2, <2>3 DEF Signed
    <2> QED
      BY <1>4, <2>4 DEF IInv, NoShortPosition
  <1>6. Idle.pc = "idle" /\ Idle.decision = "none" /\ Idle.i = 0
    BY DEF Idle, At
  <1>7. \A k \in Intents \ {i} :
          /\ intent'[k] = intent[k] /\ job'[k] = job[k] /\ gen'[k] = gen[k]
          /\ attempts'[k] = attempts[k] /\ deferrals'[k] = deferrals[k]
          /\ fills'[k] = fills[k] /\ leaseDue'[k] = leaseDue[k] /\ retryDue'[k] = retryDue[k]
    BY <1>d, <1>1, <1>2
  <1>8. \A x \in Positions :
          /\ posLock'[x] # w
          /\ posLock[x] # w => posLock'[x] = posLock[x] /\ position'[x] = position[x]
          /\ posLock[x] = w => posLock'[x] = None
    BY <1>e, <1>4
  <1> QED
    BY <1>d, <1>e, <1>f, <1>3, <1>5, <1>6, <1>7, <1>8, RowStep

\* A crash forgets a process's memory and releases its locks.
LEMMA CrashStep ==
    ASSUME IInv, TypeOK', NEW x \in Procs, Crash(x)
    PROVE  Safety'
  <1> USE PaperConstants
  <1>a. TypeOK
    BY DEF IInv
  <1>b. /\ proc' = [proc EXCEPT ![x] = Idle]
        /\ jobLock' = [i \in Intents |-> IF jobLock[i] = x THEN None ELSE jobLock[i]]
        /\ posLock' = [p \in Positions |-> IF posLock[p] = x THEN None ELSE posLock[p]]
        /\ UNCHANGED <<intent, lease, ledger, operators>>
    BY DEF Crash
  <1>c. /\ Idle.pc = "idle" /\ Idle.decision = "none" /\ Idle.i = 0
        /\ proc'[x] = Idle /\ \A p \in Procs \ {x} : proc'[p] = proc[p]
    BY <1>a, <1>b DEF Idle, At, TypeOK
  <1>d. /\ \A i \in Intents : /\ jobLock'[i] # jobLock[i] => {jobLock[i], jobLock'[i]} \subseteq {x, None}
                              /\ x \in Workers => jobLock'[i] # x
        /\ \A p \in Positions : /\ posLock'[p] # posLock[p] => {posLock[p], posLock'[p]} \subseteq {x, None}
                                /\ x \in Workers => posLock'[p] # x
    BY <1>b
  <1>1. CASE x \in Workers
    <2>1. Remembers(x)'
      BY <1>c DEF Remembers, Locking
    <2>2. OwnLocks(x)'
      BY <1>d, <1>1 DEF OwnLocks
    <2> QED
      BY <1>b, <1>c, <1>d, <1>1, <2>1, <2>2, QuietStep
  <1>2. CASE x \in Evaluators
    <2>1. x \notin Workers /\ jobLock' = jobLock /\ posLock' = posLock
      BY <1>a, <1>b, <1>2 DEF TypeOK
    <2>2. Barrier'
      BY <1>b, <1>c, BarrierFrame DEF operators
    <2>3. IntentStages' /\ OneFillPerIntent' /\ BudgetAccounting'
      BY <1>b, EachOne, LedgerFrame DEF lease, ledger, LedgerOf
    <2>4. EvaluatorMemory'
      BY <1>b, <1>c, <1>2 DEF IInv, EvaluatorMemory, Procs
    <2>5. OthersKept(None)
      BY <1>b, <1>c, <2>1 DEF OthersKept, Due, lease, ledger, Procs
    <2>6. WorkerMemory' /\ LocksAreOpen'
      BY <2>5, WorkerFrame
    <2>7. NoShortPosition'
      BY <1>b DEF IInv, NoShortPosition, ledger
    <2> QED
      BY <2>2, <2>3, <2>4, <2>6, <2>7 DEF Safety
  <1> QED
    BY <1>1, <1>2 DEF Procs

\* Every step preserves the inductive invariant.
LEMMA NextIInv == IInv /\ [Next]_vars => IInv'
  <1> SUFFICES ASSUME IInv, [Next]_vars PROVE IInv'
    OBVIOUS
  <1>1. TypeOK'
    BY NextTypeOK
  <1>2. ASSUME \/ \E i \in Intents : CreateIntent(i) \/ LeaseExpires(i) \/ RetryComesDue(i)
               \/ \E s \in Scopes : \/ \E state \in {"armed", "released"} : InsertSwitch(s, state)
                                    \/ CommitSwitch(s)
               \/ \E b \in Bots : \E s \in Stage : ChangeStage(b, s)
        PROVE  Safety'
    BY <1>1, <1>2, EnvironmentStep
  <1>3. ASSUME NEW e \in Evaluators, Evaluate(e) PROVE Safety'
    BY <1>1, <1>3, EvaluatorStep
  <1>4. ASSUME NEW w \in Workers, RunOnce(w) PROVE Safety'
    <2>1. CASE BeginClaim(w)
      BY <1>1, <2>1, BeginClaimStep
    <2>2. CASE CommitClaim(w)
      BY <1>1, <2>2, CommitClaimStep
    <2>3. CASE ExecutorRaises(w)
      BY <1>1, <2>3, ExecutorRaisesStep
    <2>4. CASE BeginComplete(w)
      BY <1>1, <2>4, BeginCompleteStep
    <2>5. CASE Defer(w)
      BY <1>1, <2>5, DeferStep
    <2>6. CASE ClearSwitch(w)
      BY <1>1, <2>6, ClearSwitchStep
    <2>7. CASE LockPosition(w)
      BY <1>1, <2>7, LockPositionStep
    <2>8. ASSUME NEW q \in FillQuantities, CommitFill(w, q) PROVE Safety'
      BY <1>1, <2>8, CommitFillStep
    <2>9. CASE CompleteRaises(w)
      BY <1>1, <2>9, CompleteRaisesStep
    <2>10. CASE Fail(w)
      BY <1>1, <2>10, FailStep
    <2> QED
      BY <1>4, <2>1, <2>2, <2>3, <2>4, <2>5, <2>6, <2>7, <2>8, <2>9, <2>10, Zenon DEF RunOnce
  <1>5. ASSUME NEW p \in Procs, Crash(p) PROVE Safety'
    BY <1>1, <1>5, CrashStep
  <1>6. ASSUME UNCHANGED vars PROVE Safety'
    <2>1. UNCHANGED <<intent, job, owner, gen, attempts, leaseDue, retryDue, deferrals, fills,
                      position, switch, inserted, jobLock, posLock, proc>>
      BY <1>6 DEF vars, lease, ledger, operators, locks
    <2>2. Barrier'
      BY <2>1 DEF IInv, Barrier, HoldsShare, ShareLockFree, Armed
    <2>3. IntentStages' /\ OneFillPerIntent' /\ BudgetAccounting'
      BY <2>1 DEF IInv, IntentStages, OneFillPerIntent, BudgetAccounting
    <2>4. EvaluatorMemory'
      BY <2>1 DEF IInv, EvaluatorMemory
    <2>5. WorkerMemory'
      BY <2>1 DEF IInv, WorkerMemory, Remembers, Due
    <2>6. LocksAreOpen' /\ NoShortPosition'
      BY <2>1 DEF IInv, LocksAreOpen, NoShortPosition
    <2> QED
      BY <2>2, <2>3, <2>4, <2>5, <2>6 DEF Safety
  <1>7. Safety'
    BY <1>2, <1>3, <1>4, <1>5, <1>6, Zenon DEF Next
  <1> QED
    BY <1>1, <1>7 DEF IInv, Safety

-----------------------------------------------------------------------------
(* Theorems                                                                *)

\* The strengthened invariant holds in every reachable state.
THEOREM Inductive == Spec => []IInv
  BY InitIInv, NextIInv, PTL DEF Spec

\* Type correctness of the tables, the locks and the processes' memory.
THEOREM TypeCorrect == Spec => []TypeOK
  <1>1. IInv => TypeOK
    BY DEF IInv
  <1> QED
    BY Inductive, <1>1, PTL

\* complete_claimed_paper_execution_job fills an intent at most once, under
\* the last lease, for any number of workers, crashes and expired leases.
THEOREM FilledOnce == Spec => []OneFillPerIntent
  <1>1. IInv => OneFillPerIntent
    BY DEF IInv
  <1> QED
    BY Inductive, <1>1, PTL

\* Charges, refunds and dead-lettering agree with attempt_count.
THEOREM Budget == Spec => []BudgetAccounting
  <1>1. IInv => BudgetAccounting
    BY DEF IInv
  <1> QED
    BY Inductive, <1>1, PTL

\* No position_projections row ever goes below zero.
THEOREM NeverShort == Spec => []NoShortPosition
  <1>1. IInv => NoShortPosition
    BY DEF IInv
  <1> QED
    BY Inductive, <1>1, PTL

\* No lock outlives its transaction.
THEOREM OpenLocks == Spec => []LocksAreOpen
  <1>1. IInv => LocksAreOpen
    BY DEF IInv
  <1> QED
    BY Inductive, <1>1, PTL

\* What the tables' CHECKs do not say: jobs are made for intents of paper bots
\* only, and a job that waits has an attempt left.
WaitsWithBudget ==
    \A i \in Intents :
        /\ job[i] = "absent" => attempts[i] = 0
        /\ job[i] \in {"pending", "retry_wait"} => attempts[i] < MaxAttempts
        /\ job[i] # "absent" => ModeOf[BotOf[i]] = "paper"

\* A claim spends an attempt and leaves the job running; a failure looks at
\* the budget before the job waits again, and a deferral gives one back.
LEMMA WaitsWithBudgetStep ==
    ASSUME IInv, WaitsWithBudget, [Next]_vars
    PROVE  WaitsWithBudget'
  <1>a. TypeOK /\ MaxAttempts \in Nat \ {0}
    BY PaperConstants DEF IInv
  <1>1. ASSUME NEW e \in Evaluators, CommitEvaluate(e)
        PROVE  WaitsWithBudget'
    BY <1>a, <1>1 DEF CommitEvaluate, WantsJob, WaitsWithBudget, TypeOK
  <1>2. ASSUME NEW w \in Workers, CommitClaim(w)
        PROVE  WaitsWithBudget'
    <2>1. Due(proc[w].i) /\ job[proc[w].i] # "absent"
      BY <1>2, EachOne DEF CommitClaim, Remembers, IInv, Due
    <2> QED
      BY <1>a, <1>2, <2>1 DEF CommitClaim, WaitsWithBudget, TypeOK
  <1>3. ASSUME NEW w \in Workers, Defer(w)
        PROVE  WaitsWithBudget'
    <2>0. proc[w].i \in Intents
      BY <1>3, Busy DEF Defer, Procs
    <2>1. job[proc[w].i] = "running" /\ proc[w].i \in Intents
      BY <1>3, <2>0, EachOne DEF Defer, Remembers, Locking
    <2>2. attempts[proc[w].i] \in 1..MaxAttempts
      BY <1>a, <2>1 DEF IInv, IntentStages, TypeOK
    <2>3. Refund(attempts[proc[w].i]) = attempts[proc[w].i] - 1
      BY <2>2 DEF Refund
    <2>4. job' = [job EXCEPT ![proc[w].i] = "retry_wait"]
          /\ attempts' = [attempts EXCEPT ![proc[w].i] = Refund(attempts[proc[w].i])]
      BY <1>a, <1>3, <2>1 DEF Defer, TypeOK
    <2> QED
      BY <1>a, <2>1, <2>2, <2>3, <2>4 DEF WaitsWithBudget, TypeOK
  <1>4. ASSUME NEW w \in Workers, NEW q \in FillQuantities, CommitFill(w, q)
        PROVE  WaitsWithBudget'
    <2>1. job[proc[w].i] = "running"
      BY <1>4, EachOne DEF CommitFill, Remembers, IInv, Locking
    <2> QED
      BY <1>a, <1>4, <2>1 DEF CommitFill, WaitsWithBudget, TypeOK
  <1>5. ASSUME NEW w \in Workers, Fail(w)
        PROVE  WaitsWithBudget'
    BY <1>a, <1>5 DEF Fail, BudgetSpent, HoldsLease, WaitsWithBudget, TypeOK, lease
  <1>6. \/ job' = job /\ attempts' = attempts
        \/ \E e \in Evaluators : CommitEvaluate(e)
        \/ \E w \in Workers : \/ CommitClaim(w) \/ Defer(w) \/ Fail(w)
                             \/ \E q \in FillQuantities : CommitFill(w, q)
    BY DEF Next, Evaluate, RunOnce, CreateIntent, LeaseExpires, RetryComesDue, InsertSwitch,
           CommitSwitch, ChangeStage, PickIntent, Decide, BeginClaim, ExecutorRaises,
           BeginComplete, ClearSwitch, LockPosition, CompleteRaises, Crash, vars, lease
  <1>7. ASSUME job' = job, attempts' = attempts
        PROVE  WaitsWithBudget'
    BY <1>7 DEF WaitsWithBudget
  <1> QED
    BY <1>1, <1>2, <1>3, <1>4, <1>5, <1>6, <1>7

\* For any number of workers, deferrals and crashes, every unfinished job can
\* still be claimed, except one whose last lease lapsed.
THEOREM OnlyLapsesStrand == Spec => []OnlyLostLeasesStrand
  <1>1. Init => WaitsWithBudget
    BY PaperConstants DEF Init, WaitsWithBudget
  <1>2. IInv /\ WaitsWithBudget => OnlyLostLeasesStrand
    <2> SUFFICES ASSUME IInv, WaitsWithBudget, NEW i \in Intents,
                        job[i] \in {"pending", "retry_wait", "running"}
                 PROVE  /\ intent[i] = "approved" /\ ModeOf[BotOf[i]] = "paper"
                        /\ \/ HasBudget(i)
                           \/ job[i] = "running" /\ ~leaseDue[i]
                           \/ Stranded(i)
      BY DEF OnlyLostLeasesStrand
    <2>1. intent[i] = "approved"
      BY DEF IInv, IntentStages, OneFillPerIntent
    <2>2. ModeOf[BotOf[i]] = "paper"
      BY DEF WaitsWithBudget
    <2>3. job[i] \in {"pending", "retry_wait"} => HasBudget(i)
      BY DEF WaitsWithBudget, HasBudget
    <2> QED
      BY <2>1, <2>2, <2>3 DEF Stranded, IInv, TypeOK
  <1> QED
    BY <1>1, <1>2, Inductive, WaitsWithBudgetStep, PTL DEF Spec

\* LOCK TABLE kill_switches IN SHARE MODE makes every armed switch a barrier:
\* no approval, no lease and no fill gets past it.
THEOREM SwitchBarrier == Spec => KillSwitchBarrier
  <1>1. ASSUME IInv, [Next]_vars, NEW i \in Intents, Armed(i)
        PROVE  /\ intent'[i] = "approved" => intent[i] = "approved"
               /\ gen'[i] = gen[i]
               /\ fills'[i] = fills[i]
    <2> USE <1>1
    <2>a. TypeOK
      BY DEF IInv
    <2>1. ASSUME NEW p \in Procs, HoldsShare(p), proc[p].decision # "risk_rejected"
          PROVE  proc[p].i # i
      BY <2>1 DEF IInv, Barrier
    <2>2. intent'[i] = "approved" => intent[i] = "approved"
      <3>1. ASSUME NEW e \in Evaluators, CommitEvaluate(e)
            PROVE  intent'[i] = "approved" => intent[i] = "approved"
        BY <2>a, <2>1, <3>1 DEF CommitEvaluate, HoldsShare, Procs, TypeOK
      <3>2. \/ \E e \in Evaluators : CommitEvaluate(e)
            \/ intent' = intent
            \/ \E k \in Intents : intent' = [intent EXCEPT ![k] = "created"]
            \/ \E k : intent' = [intent EXCEPT ![k] = "paper_filled"]
        BY DEF Next, Evaluate, RunOnce, CreateIntent, LeaseExpires, RetryComesDue, InsertSwitch,
               CommitSwitch, ChangeStage, PickIntent, Decide, BeginClaim, CommitClaim,
               ExecutorRaises, BeginComplete, Defer, ClearSwitch, LockPosition, CommitFill,
               CompleteRaises, Fail, Crash, vars
      <3> QED
        BY <2>a, <3>1, <3>2 DEF TypeOK
    <2>3. gen'[i] = gen[i]
      <3>1. ASSUME NEW w \in Workers, CommitClaim(w) PROVE gen'[i] = gen[i]
        <4>1. proc[w].i # i
          BY <2>1, <3>1, EachOne DEF CommitClaim, HoldsShare, Procs, Remembers
        <4> QED
          BY <2>a, <3>1, <4>1 DEF CommitClaim, TypeOK
      <3>2. gen' = gen \/ \E w \in Workers : CommitClaim(w)
        BY DEF Next, Evaluate, RunOnce, CreateIntent, LeaseExpires, RetryComesDue, InsertSwitch,
               CommitSwitch, ChangeStage, PickIntent, Decide, CommitEvaluate, BeginClaim,
               ExecutorRaises, BeginComplete, Defer, ClearSwitch, LockPosition, CommitFill,
               CompleteRaises, Fail, Crash, vars, lease
      <3> QED
        BY <3>1, <3>2
    <2>4. fills'[i] = fills[i]
      <3>1. ASSUME NEW w \in Workers, NEW q \in FillQuantities, CommitFill(w, q)
            PROVE  fills'[i] = fills[i]
        <4>1. proc[w].i # i
          BY <2>1, <3>1, EachOne DEF CommitFill, HoldsShare, Procs, Remembers
        <4> QED
          BY <2>a, <3>1, <4>1 DEF CommitFill, TypeOK
      <3>2. fills' = fills \/ \E w \in Workers : \E q \in FillQuantities : CommitFill(w, q)
        BY DEF Next, Evaluate, RunOnce, CreateIntent, LeaseExpires, RetryComesDue, InsertSwitch,
               CommitSwitch, ChangeStage, PickIntent, Decide, CommitEvaluate, BeginClaim, CommitClaim,
               ExecutorRaises, BeginComplete, Defer, ClearSwitch, LockPosition,
               CompleteRaises, Fail, Crash, vars, ledger
      <3> QED
        BY <3>1, <3>2
    <2> QED
      BY <2>2, <2>3, <2>4
  <1>2. IInv /\ [Next]_vars =>
          [\A i \in Intents : Armed(i) =>
             /\ intent'[i] = "approved" => intent[i] = "approved"
             /\ gen'[i] = gen[i]
             /\ fills'[i] = fills[i]]_vars
    BY <1>1
  <1> QED
    BY Inductive, <1>2, PTL DEF Spec, KillSwitchBarrier

\* An unexpired lease is never taken over.
THEOREM LeaseRespected == Spec => LiveLeaseKept
  <1>1. ASSUME IInv, [Next]_vars, NEW i \in Intents, job[i] = "running", ~leaseDue[i]
        PROVE  gen'[i] = gen[i]
    <2> USE <1>1
    <2>1. ASSUME NEW w \in Workers, CommitClaim(w) PROVE gen'[i] = gen[i]
      <3>1. Due(proc[w].i)
        BY <2>1, EachOne DEF CommitClaim, Remembers
      <3>2. proc[w].i # i
        BY <3>1 DEF Due
      <3> QED
        BY <2>1, <3>2 DEF CommitClaim, IInv, TypeOK
    <2>2. gen' = gen \/ \E w \in Workers : CommitClaim(w)
      BY DEF Next, Evaluate, RunOnce, CreateIntent, LeaseExpires, RetryComesDue, InsertSwitch,
             CommitSwitch, ChangeStage, PickIntent, Decide, CommitEvaluate, BeginClaim,
             ExecutorRaises, BeginComplete, Defer, ClearSwitch, LockPosition, CommitFill,
             CompleteRaises, Fail, Crash, vars, lease
    <2> QED
      BY <2>1, <2>2
  <1>2. IInv /\ [Next]_vars =>
          [\A i \in Intents : job[i] = "running" /\ ~leaseDue[i] => gen'[i] = gen[i]]_vars
    BY <1>1
  <1> QED
    BY Inductive, <1>2, PTL DEF Spec, LiveLeaseKept

\* A fill of quantity q of intent i, and the position moved by as much.
FillMoves(i, q) ==
    /\ fills' = [fills EXCEPT ![i] = @ \cup {[gen |-> gen[i], quantity |-> q]}]
    /\ position' = [position EXCEPT ![OrderOf[i].position] = @ + Signed(i, q)]

\* The commit of a completion is the one fill of its intent: the position is
\* still the one the worker read, under its advisory lock.
LEMMA CommitMoves ==
    ASSUME IInv, NEW w \in Workers, NEW q \in FillQuantities, CommitFill(w, q)
    PROVE  \E i \in Intents : FillMoves(i, q) /\ fills[i] = {}
  <1>1. PICK i \in Intents : i = proc[w].i
    BY Busy DEF CommitFill, Procs
  <1>2. /\ gen[i] = proc[w].gen /\ proc[w].seen = position[OrderOf[i].position]
        /\ job[i] = "running"
    BY <1>1, EachOne DEF CommitFill, Remembers, Locking
  <1>3. OrderOf[i].position \in Positions /\ position \in [Positions -> Int]
    BY IntentsFacts DEF IInv, TypeOK
  <1>4. fills' = [fills EXCEPT ![i] = @ \cup {[gen |-> gen[i], quantity |-> q]}]
    BY <1>1, <1>2 DEF CommitFill
  <1>5. position' = [position EXCEPT ![OrderOf[i].position] = @ + Signed(i, q)]
    BY <1>1, <1>2, <1>3 DEF CommitFill
  <1>6. fills[i] = {}
    BY <1>2 DEF IInv, OneFillPerIntent
  <1> QED
    BY <1>4, <1>5, <1>6 DEF FillMoves

\* No other step touches the fills or the positions.
LEMMA FillsMove ==
    ASSUME [Next]_vars
    PROVE  \/ UNCHANGED <<fills, position>>
           \/ \E w \in Workers : \E q \in FillQuantities : CommitFill(w, q)
  <1>1. UNCHANGED ledger \/ \E w \in Workers : \E q \in FillQuantities : CommitFill(w, q)
    BY DEF Next, Evaluate, RunOnce, CreateIntent, LeaseExpires, RetryComesDue, InsertSwitch,
           CommitSwitch, ChangeStage, PickIntent, Decide, CommitEvaluate, BeginClaim, CommitClaim,
           ExecutorRaises, BeginComplete, Defer, ClearSwitch, LockPosition,
           CompleteRaises, Fail, Crash, vars
  <1> QED
    BY <1>1 DEF ledger

\* position_projections moves with each fill and only with it.
THEOREM ProjectionExact == Spec => PositionMovesWithFills
  <1>1. ASSUME IInv, [Next]_vars
        PROVE  \/ UNCHANGED <<fills, position>>
               \/ \E i \in Intents : \E q \in FillQuantities : FillMoves(i, q)
    BY <1>1, FillsMove, CommitMoves
  <1>2. IInv /\ [Next]_vars =>
          [\/ UNCHANGED <<fills, position>>
           \/ \E i \in Intents : \E q \in FillQuantities :
                LET p == OrderOf[i].position IN
                /\ fills' = [fills EXCEPT ![i] = @ \cup {[gen |-> gen[i], quantity |-> q]}]
                /\ position' = [position EXCEPT ![p] = @ + Signed(i, q)]]_vars
    BY <1>1 DEF FillMoves
  <1> QED
    BY Inductive, <1>2, PTL DEF Spec, PositionMovesWithFills

-----------------------------------------------------------------------------
(* The position as a sum over the fills.                                   *)

\* What a set of fills of an intent adds up to.
FilledBy(i, F) == SumFunctionOnSet([f \in F |-> Signed(i, f.quantity)], F)

\* No fill adds nothing, and the one fill of an intent its quantity.
LEMMA FilledValue ==
    ASSUME NEW i \in Intents
    PROVE  /\ FilledBy(i, {}) = 0
           /\ \A g, q : q \in FillQuantities =>
                /\ FilledBy(i, {[gen |-> g, quantity |-> q]}) = Signed(i, q)
                /\ Signed(i, q) \in Int
  <1>1. FilledBy(i, {}) = 0
    BY SumEmpty DEF FilledBy
  <1>2. ASSUME NEW g, NEW q \in FillQuantities
        PROVE  /\ FilledBy(i, {[gen |-> g, quantity |-> q]}) = Signed(i, q)
               /\ Signed(i, q) \in Int
    <2> DEFINE f == [gen |-> g, quantity |-> q]
               value == [h \in {f} |-> Signed(i, h.quantity)]
    <2>1. q \in Int /\ Signed(i, q) \in Int
      BY PaperConstants DEF Signed
    <2>2. value[f] = Signed(i, q) /\ \A y \in {} \cup {f} : value[y] \in Int
      BY <2>1
    <2>3. IsFiniteSet({}) /\ f \notin {}
      BY FS_EmptySet
    <2>4. FilledBy(i, {f}) = SumFunctionOnSet(value, {} \cup {f})
      BY DEF FilledBy
    <2>5. FilledBy(i, {f}) = SumFunctionOnSet(value, {}) + value[f]
      <3> HIDE DEF value, f
      <3> QED
        BY <2>2, <2>3, <2>4, SumAdd
    <2> HIDE DEF value
    <2> QED
      BY <2>1, <2>2, <2>5, SumEmpty
  <1> QED
    BY <1>1, <1>2

\* What an intent has moved its position by is an integer.
LEMMA FilledInt ==
    ASSUME NEW i \in Intents, NEW F,
           F = {} \/ \E g, q : q \in FillQuantities /\ F = {[gen |-> g, quantity |-> q]}
    PROVE  FilledBy(i, F) \in Int
  <1>1. CASE F = {}
    BY <1>1, FilledValue
  <1>2. ASSUME NEW g, NEW q \in FillQuantities, F = {[gen |-> g, quantity |-> q]}
        PROVE  FilledBy(i, F) \in Int
    BY <1>2, FilledValue
  <1> QED
    BY <1>1, <1>2

\* The intents of a position are finitely many.
LEMMA OnFinite == \A p \in Positions : IsFiniteSet(On(p)) /\ On(p) \subseteq Intents
  <1>1. IsFiniteSet(Intents)
    BY PaperConstants, FS_Interval DEF Intents
  <1> QED
    BY <1>1, FS_Subset DEF On

\* A step that leaves the fills and the positions alone keeps the sum.
LEMMA SumKept ==
    ASSUME PositionMatchesFills, UNCHANGED <<fills, position>>
    PROVE  PositionMatchesFills'
  BY DEF PositionMatchesFills, Filled, On

\* A fill moves the sum of its position by what it moves the position by.
LEMMA SumMoved ==
    ASSUME IInv, IInv', PositionMatchesFills,
           NEW i \in Intents, NEW q \in FillQuantities, fills[i] = {},
           fills' = [fills EXCEPT ![i] = @ \cup {[gen |-> gen[i], quantity |-> q]}],
           position' = [position EXCEPT ![OrderOf[i].position] = @ + Signed(i, q)]
    PROVE  PositionMatchesFills'
  <1> DEFINE was == [k \in Intents |-> Filled(k)]
             is == [k \in Intents |-> Filled(k)']
  <1>1. position \in [Positions -> Int] /\ fills \in [Intents -> SUBSET [gen : Nat, quantity : FillQuantities]]
    BY DEF IInv, TypeOK
  <1>3. fills'[i] = {[gen |-> gen[i], quantity |-> q]}
    BY <1>1
  <1>4. Filled(i) = 0 /\ Filled(i)' = Signed(i, q)
    <2>1. Filled(i) = FilledBy(i, {})
      BY DEF Filled, FilledBy
    <2>2. Filled(i)' = FilledBy(i, {[gen |-> gen[i], quantity |-> q]})
      BY <1>3 DEF Filled, FilledBy
    <2> QED
      BY <2>1, <2>2, FilledValue
  <1>5. \A k \in Intents : was[k] \in Int /\ is[k] \in Int
    <2> SUFFICES ASSUME NEW k \in Intents PROVE Filled(k) \in Int /\ Filled(k)' \in Int
      OBVIOUS
    <2>1. FilledBy(k, fills[k]) \in Int
      BY FilledInt DEF IInv, OneFillPerIntent
    <2>2. FilledBy(k, fills'[k]) \in Int
      BY FilledInt DEF IInv, OneFillPerIntent
    <2> QED
      BY <2>1, <2>2 DEF Filled, FilledBy
  <1>6. \A k \in Intents \ {i} : is[k] = was[k]
    <2>1. \A k \in Intents \ {i} : fills'[k] = fills[k]
      BY <1>1
    <2> QED
      BY <2>1 DEF Filled
  <1>7. was[i] = 0 /\ is[i] = Signed(i, q) /\ Signed(i, q) \in Int
    BY <1>4, <1>5
  <1>8. ASSUME NEW p \in Positions
        PROVE  position'[p] = SumFunctionOnSet(is, On(p))
    <2>1. position[p] = SumFunctionOnSet(was, On(p)) /\ position[p] \in Int
      BY <1>1 DEF PositionMatchesFills
    <2>2. IsFiniteSet(On(p)) /\ On(p) \subseteq Intents
      BY OnFinite
    <2> HIDE DEF was, is
    <2>3. CASE OrderOf[i].position = p
      <3>1. i \in On(p)
        BY <2>3 DEF On
      <3>2. SumFunctionOnSet(is, On(p)) = SumFunctionOnSet(was, On(p)) + (is[i] - was[i])
        <4>1. \A y \in On(p) : was[y] \in Int /\ is[y] \in Int
          BY <1>5, <2>2
        <4>2. \A y \in On(p) \ {i} : is[y] = was[y]
          BY <1>6, <2>2
        <4> QED
          BY <2>2, <3>1, <4>1, <4>2, SumChange
      <3>3. position'[p] = position[p] + Signed(i, q)
        BY <1>1, <2>3
      <3> QED
        BY <1>7, <2>1, <3>2, <3>3
    <2>4. CASE OrderOf[i].position # p
      <3>1. \A y \in On(p) : is[y] = was[y]
        BY <1>6, <2>4 DEF On
      <3>2. SumFunctionOnSet(is, On(p)) = SumFunctionOnSet(was, On(p))
        BY <2>2, <3>1, SumSame
      <3>3. position'[p] = position[p]
        BY <1>1, <2>4
      <3> QED
        BY <2>1, <3>2, <3>3
    <2> QED
      BY <2>3, <2>4
  <1> QED
    BY <1>8 DEF PositionMatchesFills, On

\* Every position is the signed sum of the fills of its intents: workers that
\* complete jobs of one position at once, lose leases or crash half way never
\* lose, repeat or half apply a fill.
THEOREM PositionIsSum == Spec => []PositionMatchesFills
  <1>1. Init => PositionMatchesFills
    <2> SUFFICES ASSUME Init, NEW p \in Positions
                 PROVE  position[p] = SumFunctionOnSet([i \in Intents |-> Filled(i)], On(p))
      BY DEF PositionMatchesFills
    <2> DEFINE was == [i \in Intents |-> Filled(i)]
    <2>1. \A i \in On(p) : was[i] = 0
      BY FilledValue DEF Init, On, Filled, FilledBy
    <2>2. SumFunctionOnSet(was, On(p)) = 0
      <3> HIDE DEF was
      <3> QED
        BY <2>1, OnFinite, SumZero
    <2> QED
      BY <2>2 DEF Init
  <1>2. ASSUME IInv, IInv', PositionMatchesFills, [Next]_vars
        PROVE  PositionMatchesFills'
    <2>1. CASE UNCHANGED <<fills, position>>
      BY <1>2, <2>1, SumKept
    <2>2. ASSUME NEW w \in Workers, NEW q \in FillQuantities, CommitFill(w, q)
          PROVE  PositionMatchesFills'
      <3>1. PICK i \in Intents : FillMoves(i, q) /\ fills[i] = {}
        BY <1>2, <2>2, CommitMoves
      <3> QED
        BY <1>2, <3>1, SumMoved DEF FillMoves
    <2> QED
      BY <1>2, <2>1, <2>2, FillsMove
  <1> QED
    BY <1>1, <1>2, Inductive, PTL DEF Spec

-----------------------------------------------------------------------------
(* The queue implements LeaseQueue.                                        *)

\* The abstract phase of each job status.
LEMMA PhaseValues ==
    /\ PhaseOf("absent") = "none"
    /\ PhaseOf("pending") = "waiting"
    /\ PhaseOf("retry_wait") = "waiting"
    /\ PhaseOf("running") = "leased"
    /\ PhaseOf("succeeded") = "done"
    /\ PhaseOf("dead_letter") = "buried"
  BY DEF PhaseOf

\* A step that leaves status, generation and attempts alone is not seen by
\* LeaseQueue.
LEMMA SameView ==
    ASSUME UNCHANGED <<job, gen, attempts>>
    PROVE  UNCHANGED Abstract!qvars
  BY DEF Abstract!qvars

\* The initial tables are an initial state of LeaseQueue.
LEMMA InitImplements == Init => Abstract!QInit
  BY PhaseValues DEF Init, Abstract!QInit

\* The view of a step that gives one job a new status and finishes none.
LEMMA StatusView ==
    ASSUME IInv, NEW i \in Intents, NEW st, st # "succeeded", job[i] # "succeeded",
           job' = [job EXCEPT ![i] = st], gen' = [gen EXCEPT ![i] = gen'[i]]
    PROVE  /\ [k \in Intents |-> PhaseOf(job'[k])]
                = [[k \in Intents |-> PhaseOf(job[k])] EXCEPT ![i] = PhaseOf(st)]
           /\ [k \in Intents |-> IF job'[k] = "succeeded" THEN gen'[k] ELSE 0]
                = [k \in Intents |-> IF job[k] = "succeeded" THEN gen[k] ELSE 0]
  <1>1. job \in [Intents -> JobStatus] /\ gen \in [Intents -> Nat]
    BY DEF IInv, TypeOK
  <1>2. job'[i] = st /\ \A k \in Intents \ {i} : job'[k] = job[k] /\ gen'[k] = gen[k]
    BY <1>1
  <1> QED
    BY <1>1, <1>2

\* Risk evaluation adds a job or changes none.
LEMMA EvaluateImplements ==
    ASSUME IInv, NEW e \in Evaluators, CommitEvaluate(e)
    PROVE  (\E i \in Intents : Abstract!Add(i)) \/ UNCHANGED Abstract!qvars
  <1>1. PICK i \in Intents : i = proc[e].i
    BY Busy DEF CommitEvaluate, Procs
  <1>2. CASE WantsJob(e)
    <2>1. /\ job[i] = "absent" /\ UNCHANGED <<gen, attempts>>
          /\ job' = [job EXCEPT ![i] = "pending"]
      BY <1>1, <1>2 DEF CommitEvaluate, WantsJob
    <2>2. job \in [Intents -> JobStatus] /\ gen \in [Intents -> Nat]
          /\ gen' = [gen EXCEPT ![i] = gen'[i]]
      BY <2>1 DEF IInv, TypeOK
    <2>3. /\ [k \in Intents |-> PhaseOf(job'[k])]
                = [[k \in Intents |-> PhaseOf(job[k])] EXCEPT ![i] = "waiting"]
         /\ [k \in Intents |-> IF job'[k] = "succeeded" THEN gen'[k] ELSE 0]
              = [k \in Intents |-> IF job[k] = "succeeded" THEN gen[k] ELSE 0]
      BY <2>1, <2>2, StatusView, PhaseValues
    <2>4. Abstract!Add(i)
      BY <2>1, <2>3, PhaseValues DEF Abstract!Add
    <2> QED
      BY <2>4
  <1>3. CASE ~WantsJob(e)
    BY <1>3, SameView DEF CommitEvaluate
  <1> QED
    BY <1>2, <1>3

\* A claim leases one job within its budget.
LEMMA ClaimImplements ==
    ASSUME IInv, NEW w \in Workers, CommitClaim(w)
    PROVE  (\E i \in Intents : Abstract!BuryAndLease({}, {i})) \/ UNCHANGED Abstract!qvars
  <1>1. PICK i \in Intents : i = proc[w].i
    BY Busy DEF CommitClaim, Procs
  <1>2. CASE HasBudget(i)
    <2>1. /\ attempts[i] < MaxAttempts
          /\ job' = [job EXCEPT ![i] = "running"]
          /\ gen' = [gen EXCEPT ![i] = @ + 1]
          /\ attempts' = [attempts EXCEPT ![i] = @ + 1]
      BY <1>1, <1>2 DEF CommitClaim, HasBudget
    <2>2. job[i] \in {"pending", "retry_wait", "running"}
      BY <1>1, EachOne DEF CommitClaim, Remembers, Due
    <2>3. job \in [Intents -> JobStatus] /\ gen \in [Intents -> Nat]
          /\ attempts \in [Intents -> 0..MaxAttempts]
      BY DEF IInv, TypeOK
    <2>4. gen' = [gen EXCEPT ![i] = gen'[i]] /\ job[i] # "succeeded"
      BY <2>1, <2>2, <2>3
    <2>5. /\ [k \in Intents |-> PhaseOf(job'[k])]
               = [[k \in Intents |-> PhaseOf(job[k])] EXCEPT ![i] = "leased"]
          /\ [k \in Intents |-> IF job'[k] = "succeeded" THEN gen'[k] ELSE 0]
               = [k \in Intents |-> IF job[k] = "succeeded" THEN gen[k] ELSE 0]
      BY <2>1, <2>3, <2>4, StatusView, PhaseValues
    <2>6. [k \in Intents |-> PhaseOf(job'[k])]
            = [k \in Intents |-> IF k \in {} THEN "buried"
                                 ELSE IF k \in {i} THEN "leased" ELSE PhaseOf(job[k])]
      BY <2>1, <2>3, PhaseValues
    <2>7. /\ gen' = [k \in Intents |-> IF k \in {i} THEN gen[k] + 1 ELSE gen[k]]
          /\ attempts' = [k \in Intents |-> IF k \in {i} THEN attempts[k] + 1 ELSE attempts[k]]
      BY <2>1, <2>3
    <2>8. PhaseOf(job[i]) \in {"waiting", "leased"}
      BY <2>2, PhaseValues
    <2>9. Abstract!BuryAndLease({}, {i})
      BY <2>1, <2>5, <2>6, <2>7, <2>8 DEF Abstract!BuryAndLease
    <2> QED
      BY <2>9
  <1>3. CASE ~HasBudget(i)
    BY <1>1, <1>3, SameView DEF CommitClaim
  <1> QED
    BY <1>2, <1>3

\* A deferral gives the job back with its try refunded.
LEMMA DeferImplements ==
    ASSUME IInv, NEW w \in Workers, Defer(w)
    PROVE  \E i \in Intents : Abstract!GiveBack(i)
  <1>1. PICK i \in Intents : i = proc[w].i
    BY Busy DEF Defer, Procs
  <1>2. /\ job' = [job EXCEPT ![i] = "retry_wait"] /\ gen' = gen
        /\ attempts' = [attempts EXCEPT ![i] = Refund(@)]
    BY <1>1 DEF Defer
  <1>3. job[i] = "running"
    BY <1>1, EachOne DEF Defer, Remembers, Locking
  <1>4. attempts[i] > 0 /\ Refund(attempts[i]) = attempts[i] - 1
    BY <1>3 DEF IInv, IntentStages, Refund
  <1>5. job \in [Intents -> JobStatus] /\ gen \in [Intents -> Nat]
        /\ gen' = [gen EXCEPT ![i] = gen'[i]]
    BY <1>2 DEF IInv, TypeOK
  <1>6. /\ [k \in Intents |-> PhaseOf(job'[k])]
              = [[k \in Intents |-> PhaseOf(job[k])] EXCEPT ![i] = "waiting"]
       /\ [k \in Intents |-> IF job'[k] = "succeeded" THEN gen'[k] ELSE 0]
            = [k \in Intents |-> IF job[k] = "succeeded" THEN gen[k] ELSE 0]
    BY <1>2, <1>3, <1>5, StatusView, PhaseValues
  <1>7. attempts' = [attempts EXCEPT ![i] = @ - 1]
    BY <1>2, <1>4
  <1>8. Abstract!GiveBack(i)
    BY <1>2, <1>3, <1>4, <1>6, <1>7, PhaseValues DEF Abstract!GiveBack
  <1> QED
    BY <1>8

\* A fill finishes its job under the current token.
LEMMA FillImplements ==
    ASSUME IInv, NEW w \in Workers, NEW q \in FillQuantities, CommitFill(w, q)
    PROVE  \E i \in Intents : Abstract!Finish(i)
  <1>1. PICK i \in Intents : i = proc[w].i
    BY Busy DEF CommitFill, Procs
  <1>2. job' = [job EXCEPT ![i] = "succeeded"] /\ UNCHANGED <<gen, attempts>>
    BY <1>1 DEF CommitFill
  <1>3. job[i] = "running"
    BY <1>1, EachOne DEF CommitFill, Remembers, Locking
  <1>4. job \in [Intents -> JobStatus] /\ gen \in [Intents -> Nat]
    BY DEF IInv, TypeOK
  <1>5. /\ [k \in Intents |-> PhaseOf(job'[k])]
             = [[k \in Intents |-> PhaseOf(job[k])] EXCEPT ![i] = "done"]
        /\ [k \in Intents |-> IF job'[k] = "succeeded" THEN gen'[k] ELSE 0]
             = [[k \in Intents |-> IF job[k] = "succeeded" THEN gen[k] ELSE 0] EXCEPT ![i] = gen[i]]
    BY <1>2, <1>4, PhaseValues
  <1>6. Abstract!Finish(i)
    BY <1>2, <1>3, <1>5, PhaseValues DEF Abstract!Finish
  <1> QED
    BY <1>6

\* A failure gives the job back, or buries it when its budget is spent.
LEMMA FailImplements ==
    ASSUME IInv, NEW w \in Workers, Fail(w)
    PROVE  \/ \E i \in Intents : Abstract!GiveBack(i) \/ Abstract!BuryAndLease({i}, {})
           \/ UNCHANGED Abstract!qvars
  <1>1. PICK i \in Intents : i = proc[w].i
    BY Busy DEF Fail, BudgetSpent, Procs
  <1>2. CASE HoldsLease(w, i)
    <2>1. /\ job[i] = "running" /\ UNCHANGED <<gen, attempts>>
          /\ job' = [job EXCEPT ![i] = IF attempts[i] >= MaxAttempts
                                       THEN "dead_letter" ELSE "retry_wait"]
      BY <1>1, <1>2 DEF Fail, BudgetSpent, HoldsLease
    <2>2. job \in [Intents -> JobStatus] /\ gen' = [gen EXCEPT ![i] = gen'[i]]
          /\ attempts \in [Intents -> 0..MaxAttempts] /\ gen \in [Intents -> Nat]
      BY <2>1 DEF IInv, TypeOK
    <2>3. CASE attempts[i] >= MaxAttempts
      <3>1. job' = [job EXCEPT ![i] = "dead_letter"]
        BY <2>1, <2>3
      <3>2. /\ [k \in Intents |-> PhaseOf(job'[k])]
                 = [[k \in Intents |-> PhaseOf(job[k])] EXCEPT ![i] = "buried"]
            /\ [k \in Intents |-> IF job'[k] = "succeeded" THEN gen'[k] ELSE 0]
                 = [k \in Intents |-> IF job[k] = "succeeded" THEN gen[k] ELSE 0]
        BY <2>1, <2>2, <3>1, StatusView, PhaseValues
      <3>3. [k \in Intents |-> PhaseOf(job'[k])]
              = [k \in Intents |-> IF k \in {i} THEN "buried"
                                   ELSE IF k \in {} THEN "leased" ELSE PhaseOf(job[k])]
        BY <2>2, <3>1, PhaseValues
      <3>4. /\ gen' = [k \in Intents |-> IF k \in {} THEN gen[k] + 1 ELSE gen[k]]
            /\ attempts' = [k \in Intents |-> IF k \in {} THEN attempts[k] + 1 ELSE attempts[k]]
        BY <2>1, <2>2
      <3>5. Abstract!Buriable(i)
        BY <2>1, <2>3, PhaseValues DEF Abstract!Buriable
      <3>6. Abstract!BuryAndLease({i}, {})
        BY <3>2, <3>3, <3>4, <3>5 DEF Abstract!BuryAndLease
      <3> QED
        BY <3>6
    <2>4. CASE ~(attempts[i] >= MaxAttempts)
      <3>1. job' = [job EXCEPT ![i] = "retry_wait"]
        BY <2>1, <2>4
      <3>2. Abstract!GiveBack(i)
        BY <2>1, <2>2, <3>1, StatusView, PhaseValues DEF Abstract!GiveBack
      <3> QED
        BY <3>2
    <2> QED
      BY <2>3, <2>4
  <1>3. CASE ~HoldsLease(w, i)
    BY <1>1, <1>3, SameView DEF Fail, BudgetSpent, lease
  <1> QED
    BY <1>2, <1>3

\* The queue of paper_execution_jobs, with its claims, refunded deferrals,
\* retries, dead letters and fills, implements the leased queue LeaseQueue.
THEOREM Refinement == Spec => RefinesLeaseQueue
  <1>1. ASSUME IInv, [Next]_vars
        PROVE  [Abstract!QNext]_(Abstract!qvars)
    <2> USE <1>1
    <2>1. ASSUME NEW e \in Evaluators, CommitEvaluate(e) PROVE [Abstract!QNext]_(Abstract!qvars)
      BY <2>1, EvaluateImplements DEF Abstract!QNext
    <2>2. ASSUME NEW w \in Workers, CommitClaim(w) PROVE [Abstract!QNext]_(Abstract!qvars)
      BY <2>2, ClaimImplements DEF Abstract!QNext
    <2>3. ASSUME NEW w \in Workers, Defer(w) PROVE [Abstract!QNext]_(Abstract!qvars)
      BY <2>3, DeferImplements DEF Abstract!QNext
    <2>4. ASSUME NEW w \in Workers, NEW q \in FillQuantities, CommitFill(w, q)
          PROVE  [Abstract!QNext]_(Abstract!qvars)
      BY <2>4, FillImplements DEF Abstract!QNext
    <2>5. ASSUME NEW w \in Workers, Fail(w) PROVE [Abstract!QNext]_(Abstract!qvars)
      BY <2>5, FailImplements DEF Abstract!QNext
    <2>6. \/ UNCHANGED <<job, gen, attempts>>
          \/ \E e \in Evaluators : CommitEvaluate(e)
          \/ \E w \in Workers : CommitClaim(w) \/ Defer(w) \/ Fail(w)
          \/ \E w \in Workers : \E q \in FillQuantities : CommitFill(w, q)
      BY DEF Next, Evaluate, RunOnce, CreateIntent, LeaseExpires, RetryComesDue, InsertSwitch,
             CommitSwitch, ChangeStage, PickIntent, Decide, BeginClaim, ExecutorRaises,
             BeginComplete, ClearSwitch, LockPosition, CompleteRaises, Crash, vars, lease
    <2>7. CASE UNCHANGED <<job, gen, attempts>>
      BY <2>7, SameView
    <2> QED
      BY <2>1, <2>2, <2>3, <2>4, <2>5, <2>6, <2>7
  <1> QED
    BY Inductive, InitImplements, <1>1, PTL DEF Spec, RefinesLeaseQueue, Abstract!QSpec
=============================================================================
