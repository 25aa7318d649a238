------------------------ MODULE DataFoundationProofs ------------------------
(***************************************************************************)
(* Proofs about the backfill jobs and the catalog that opens, pauses and   *)
(* cancels them, for any markets, workers, plans, policies, answers and    *)
(* faults: a job that reports success was answered, no two open jobs hold  *)
(* one market, and a market that is off is quiet.                          *)
(***************************************************************************)
EXTENDS DataFoundation, FiniteSums

-----------------------------------------------------------------------------
(* The inductive invariant.                                                *)

JobFields == {"status", "manual", "plan", "key", "lo", "hi", "targets",
              "tries", "owner", "live", "due", "forced"}
Statuses == Open \cup {"succeeded", "failed", "stopped", "dead_letter", "cancelled", "deleted"}

IsJob(job) ==
    /\ DOMAIN job = JobFields
    /\ job.status \in Statuses
    /\ job.manual \in BOOLEAN /\ job.forced \in BOOLEAN /\ job.tries \in Nat
    /\ job.plan \subseteq Markets
    /\ DOMAIN job.targets \subseteq job.plan
    /\ job.targets \in [DOMAIN job.targets -> AllTargets]

\* Only a manual plan waits for an approval, a job that succeeded has nothing
\* left to do, an open one that no operator put back has no failed target, and
\* what succeeded was answered.
JobOK(job, ans, cand) ==
    /\ IsJob(job)
    /\ job.status = "planned" => job.manual
    /\ job.status = "succeeded" =>
           \A m \in DOMAIN job.targets : job.targets[m] \in {"stopped", "succeeded"}
    /\ (job.status \in Open /\ ~job.forced) =>
           \A m \in DOMAIN job.targets : job.targets[m] # "failed"
    /\ \A m \in DOMAIN job.targets : job.targets[m] = "succeeded" =>
           JobSlots(job) \subseteq ans[m] \cup cand[m]

Jobs(js, ans, cand) ==
    /\ js \in Seq({js[j] : j \in DOMAIN js})
    /\ \A j \in DOMAIN js : JobOK(js[j], ans, cand)

\* A job that keeps its markets for itself, and that it holds one.
Keeps(job) == job.status \in Open /\ ~job.forced
OneOpen(js) ==
    \A j, k \in DOMAIN js : j # k => \A m \in Markets :
        ~(/\ Keeps(js[j]) /\ HoldsOpen(js[j], m)
          /\ Keeps(js[k]) /\ HoldsOpen(js[k], m))

\* No automatic job has anything to run for a market.
QuietJob(job, m) ==
    (Keeps(job) /\ ~job.manual) => m \notin TargetsIn(job, {"pending", "running"})
Quiet(js, m) == \A j \in DOMAIN js : QuietJob(js[j], m)

\* What is known of the slots of a worker's target: each has an answer or a
\* candle, or is in one of the ranges still to fetch.
MemoryFields == {"pc", "job", "todo", "at", "ranges"}
AtTarget == {"ranges", "range", "fetch", "progress", "succeed", "fail"}
Left(me) ==
    CASE me.pc \in {"range", "fetch"} -> UNION me.ranges
      [] me.pc = "progress" -> UNION (me.ranges \ {First(me.ranges)})
      [] OTHER -> {}

Memory(me, js, ans, cand) ==
    /\ DOMAIN me = MemoryFields
    /\ me.pc \in {"idle", "targets"} \cup AtTarget
    /\ me.pc # "idle" =>
           /\ me.job \in DOMAIN js
           /\ me.todo \in [DOMAIN me.todo -> AllTargets]
           /\ DOMAIN me.todo \subseteq DOMAIN js[me.job].targets
    /\ me.pc \in AtTarget => me.at \in DOMAIN js[me.job].targets
    /\ me.pc \in {"range", "fetch", "progress", "succeed"} =>
           JobSlots(js[me.job]) \subseteq ans[me.at] \cup cand[me.at] \cup Left(me)

MarketFields == {"trading", "auto", "start", "cont", "status", "reason", "desire",
                 "gen", "legacy"}
IsMarket(mk) ==
    /\ DOMAIN mk = MarketFields
    /\ DOMAIN mk.status = Types /\ DOMAIN mk.reason = Types /\ DOMAIN mk.desire = Types
    /\ mk.reason["source_candle"] = "policy_disabled" => mk.status["source_candle"] # "active"
    /\ mk.status["source_candle"] # "active" => ~mk.desire["source_candle"]
Off(mk) == mk.status["source_candle"] # "active"

Tables ==
    /\ DOMAIN market = Markets /\ DOMAIN candles = Markets /\ DOMAIN answered = Markets
    /\ market = [m \in Markets |-> market[m]]
    /\ candles = [m \in Markets |-> candles[m]]
    /\ answered = [m \in Markets |-> answered[m]]
    /\ \A m \in Markets : IsMarket(market[m])

Console ==
    console # None => console.job \in DOMAIN jobs

IInv ==
    /\ Tables
    /\ Console
    /\ Jobs(jobs, answered, candles)
    /\ OneOpen(jobs)
    /\ \A m \in Markets : Off(market[m]) => Quiet(jobs, m)
    /\ worker = [w \in Workers |-> worker[w]]
    /\ \A w \in Workers : Memory(worker[w], jobs, answered, candles)

-----------------------------------------------------------------------------
(* A step of a job.                                                        *)

\* What every operation on a job respects: it keeps the range and the markets,
\* and as long as the job keeps its markets for itself, no target is opened or,
\* but for the markets that are resumed, made ready to run.
Changed(old, new, back) ==
    /\ DOMAIN new = JobFields /\ new.status \in Statuses
    /\ new.forced \in BOOLEAN /\ new.tries \in Nat
    /\ new.lo = old.lo /\ new.hi = old.hi
    /\ new.plan = old.plan /\ new.manual = old.manual
    /\ new.targets \in [DOMAIN old.targets -> AllTargets]
    /\ new.status = "planned" => old.status = "planned"
    /\ new.status = "succeeded" =>
           \A m \in DOMAIN old.targets : new.targets[m] \in {"stopped", "succeeded"}
    /\ Keeps(new) =>
           /\ Keeps(old)
           /\ \A m \in DOMAIN old.targets :
                  /\ new.targets[m] # "failed"
                  /\ new.targets[m] \in OpenTarget => old.targets[m] \in OpenTarget
                  /\ new.targets[m] \in {"pending", "running"} =>
                         \/ old.targets[m] \in {"pending", "running"}
                         \/ old.manual \/ m \in back

\* Nothing succeeds but what has answers.
Earned(old, new, ans, cand) ==
    \A m \in DOMAIN old.targets : new.targets[m] = "succeeded" =>
        \/ old.targets[m] = "succeeded"
        \/ JobSlots(old) \subseteq ans[m] \cup cand[m]

LEMMA SameSlots ==
    ASSUME NEW old, NEW new, new.lo = old.lo, new.hi = old.hi
    PROVE  JobSlots(new) = JobSlots(old)
  BY DEF JobSlots

\* What an operation that respects all this makes of a job.
LEMMA ChangedIs ==
    ASSUME NEW ans, NEW cand, NEW ans2, NEW cand2, NEW old, NEW new, NEW back,
           JobOK(old, ans, cand), Changed(old, new, back), Earned(old, new, ans2, cand2),
           \A m \in Markets : ans[m] \subseteq ans2[m] /\ cand[m] \subseteq cand2[m]
    PROVE  /\ JobOK(new, ans2, cand2)
           /\ DOMAIN new.targets = DOMAIN old.targets
           /\ Keeps(new) => \A m \in Markets : HoldsOpen(new, m) => HoldsOpen(old, m)
           /\ \A m \in Markets \ back : QuietJob(old, m) => QuietJob(new, m)
  <1>1. /\ IsJob(old) /\ DOMAIN new.targets = DOMAIN old.targets
        /\ new.targets \in [DOMAIN old.targets -> AllTargets]
        /\ new.plan = old.plan /\ new.manual = old.manual
        /\ JobSlots(new) = JobSlots(old)
    BY SameSlots DEF JobOK, Changed
  <1>2. DOMAIN old.targets \subseteq Markets
    BY <1>1 DEF IsJob
  <1>3. IsJob(new)
    BY <1>1 DEF IsJob, Changed
  <1>4. ASSUME NEW m \in DOMAIN new.targets, new.targets[m] = "succeeded"
        PROVE  JobSlots(new) \subseteq ans2[m] \cup cand2[m]
    <2>1. m \in Markets /\ m \in DOMAIN old.targets
      BY <1>1, <1>2
    <2>2. CASE old.targets[m] = "succeeded"
      <3>1. JobSlots(old) \subseteq ans[m] \cup cand[m]
        BY <2>1, <2>2 DEF JobOK
      <3>2. ans[m] \subseteq ans2[m] /\ cand[m] \subseteq cand2[m]
        BY <2>1
      <3> QED
        BY <1>1, <3>1, <3>2
    <2>3. CASE JobSlots(old) \subseteq ans2[m] \cup cand2[m]
      BY <1>1, <2>3
    <2> QED
      BY <1>4, <2>1, <2>2, <2>3 DEF Earned
  <1>5. new.status = "succeeded" =>
            \A m \in DOMAIN new.targets : new.targets[m] \in {"stopped", "succeeded"}
    BY <1>1 DEF Changed
  <1>6. (new.status \in Open /\ ~new.forced) =>
            \A m \in DOMAIN new.targets : new.targets[m] # "failed"
    BY <1>1 DEF Changed, Keeps
  <1>7. new.status = "planned" => new.manual
    BY <1>1 DEF Changed, JobOK
  <1>8. JobOK(new, ans2, cand2)
    BY <1>3, <1>4, <1>5, <1>6, <1>7 DEF JobOK
  <1>9. ASSUME Keeps(new), NEW m \in Markets, HoldsOpen(new, m) PROVE HoldsOpen(old, m)
    BY <1>1, <1>9 DEF Changed, HoldsOpen, TargetsIn
  <1>10. ASSUME NEW m \in Markets \ back, QuietJob(old, m), Keeps(new), ~new.manual
        PROVE  m \notin TargetsIn(new, {"pending", "running"})
    BY <1>1, <1>10 DEF Changed, QuietJob, TargetsIn
  <1> QED
    BY <1>1, <1>8, <1>9, <1>10 DEF QuietJob

\* The targets stay, and a job that was closed stays closed.
LEMMA StatusMoves ==
    ASSUME NEW ans, NEW cand, NEW old, NEW new, JobOK(old, ans, cand),
           DOMAIN new = JobFields, new.status \in Statuses,
           new.lo = old.lo, new.hi = old.hi, new.plan = old.plan, new.manual = old.manual,
           new.targets = old.targets, new.forced = old.forced, new.tries \in Nat,
           new.status \in Open => old.status \in Open,
           new.status = "succeeded" => old.status = "succeeded",
           new.status = "planned" => old.status = "planned"
    PROVE  Changed(old, new, {}) /\ Earned(old, new, ans, cand)
  BY DEF JobOK, IsJob, Changed, Earned, Keeps

LEMMA SameJob ==
    ASSUME NEW ans, NEW cand, NEW job, JobOK(job, ans, cand)
    PROVE  Changed(job, job, {}) /\ Earned(job, job, ans, cand)
  <1>1. DOMAIN job = JobFields /\ job.status \in Statuses /\ job.tries \in Nat
    BY DEF JobOK, IsJob
  <1> QED
    BY <1>1, StatusMoves

\* Released and Retarget, field by field.
LEMMA ReleasedIs ==
    ASSUME NEW job, IsJob(job), NEW status \in Statuses
    PROVE  LET new == Released(job, status) IN
           /\ IsJob(new) /\ new.status = status
           /\ new.lo = job.lo /\ new.hi = job.hi /\ new.plan = job.plan
           /\ new.manual = job.manual /\ new.targets = job.targets /\ new.forced = job.forced
           /\ new.tries = job.tries
  BY DEF Released, IsJob, JobFields

LEMMA RetargetIs ==
    ASSUME NEW job, IsJob(job), NEW from, NEW to \in AllTargets
    PROVE  LET new == Retarget(job, from, to) IN
           /\ IsJob(new) /\ new.status = job.status
           /\ new.lo = job.lo /\ new.hi = job.hi /\ new.plan = job.plan
           /\ new.manual = job.manual /\ new.forced = job.forced /\ new.tries = job.tries
           /\ new.targets = [m \in DOMAIN job.targets |->
                                IF job.targets[m] \in from THEN to ELSE job.targets[m]]
  <1> DEFINE ts == [m \in DOMAIN job.targets |->
                        IF job.targets[m] \in from THEN to ELSE job.targets[m]]
  <1>1. Retarget(job, from, to) = [job EXCEPT !.targets = ts]
    BY DEF Retarget
  <1>2. ts \in [DOMAIN job.targets -> AllTargets] /\ DOMAIN ts = DOMAIN job.targets
    BY DEF IsJob
  <1> HIDE DEF ts
  <1>3. PICK new : new = [job EXCEPT !.targets = ts]
    OBVIOUS
  <1>4. /\ DOMAIN new = JobFields /\ new.status = job.status
        /\ new.lo = job.lo /\ new.hi = job.hi /\ new.plan = job.plan
        /\ new.manual = job.manual /\ new.forced = job.forced /\ new.tries = job.tries
        /\ new.targets = ts
    BY <1>3 DEF IsJob, JobFields
  <1>5. IsJob(new)
    BY <1>2, <1>4 DEF IsJob
  <1> QED
    BY <1>1, <1>3, <1>4, <1>5 DEF ts

LEMMA Words ==
    /\ Open \subseteq Statuses /\ OpenTarget \subseteq AllTargets
    /\ \A status \in {"succeeded", "failed", "stopped", "dead_letter", "cancelled", "deleted"} :
           status \in Statuses /\ status \notin Open
    /\ \A status \in {"planned", "pending", "running", "retry_wait", "paused"} : status \in Open
    /\ {"pending", "running", "paused", "stopped", "succeeded", "failed"} \subseteq AllTargets
  BY DEF Open, Statuses, AllTargets, OpenTarget

\* A job is moved to a status and some of its targets with it.
LEMMA MovedIs ==
    ASSUME NEW job, IsJob(job), NEW status \in Statuses, NEW from, NEW to \in AllTargets
    PROVE  LET new == Retarget(Released(job, status), from, to) IN
           /\ IsJob(new) /\ new.status = status
           /\ new.lo = job.lo /\ new.hi = job.hi /\ new.plan = job.plan
           /\ new.manual = job.manual /\ new.forced = job.forced
           /\ new.targets = [m \in DOMAIN job.targets |->
                                IF job.targets[m] \in from THEN to ELSE job.targets[m]]
  <1>1. PICK mid : mid = Released(job, status)
    OBVIOUS
  <1>2. /\ IsJob(mid) /\ mid.status = status
        /\ mid.lo = job.lo /\ mid.hi = job.hi /\ mid.plan = job.plan
        /\ mid.manual = job.manual /\ mid.targets = job.targets /\ mid.forced = job.forced
    BY <1>1, ReleasedIs
  <1>3. PICK new : new = Retarget(mid, from, to)
    OBVIOUS
  <1>4. /\ IsJob(new) /\ new.status = mid.status
        /\ new.lo = mid.lo /\ new.hi = mid.hi /\ new.plan = mid.plan
        /\ new.manual = mid.manual /\ new.forced = mid.forced
        /\ new.targets = [m \in DOMAIN mid.targets |->
                                IF mid.targets[m] \in from THEN to ELSE mid.targets[m]]
    BY <1>2, <1>3, RetargetIs
  <1> QED
    BY <1>1, <1>2, <1>3, <1>4

-----------------------------------------------------------------------------
(* The operations on one job.                                              *)

LEMMA DeadLetterMoves ==
    ASSUME NEW ans, NEW cand, NEW job, JobOK(job, ans, cand)
    PROVE  /\ Changed(job, DeadLettered(job), {}) /\ Earned(job, DeadLettered(job), ans, cand)
           /\ DeadLettered(job).status = "dead_letter"
  <1>1. PICK new : new = DeadLettered(job)
    OBVIOUS
  <1>2. /\ IsJob(new) /\ new.status = "dead_letter"
        /\ new.lo = job.lo /\ new.hi = job.hi /\ new.plan = job.plan
        /\ new.manual = job.manual /\ new.forced = job.forced
        /\ new.targets = [m \in DOMAIN job.targets |->
                             IF job.targets[m] \in Unfinished THEN "failed" ELSE job.targets[m]]
    <2>1. IsJob(job) /\ new = Retarget(Released(job, "dead_letter"), Unfinished, "failed")
      BY <1>1 DEF DeadLettered, JobOK
    <2>2. "dead_letter" \in Statuses /\ "failed" \in AllTargets
      BY Words
    <2> QED
      BY <2>1, <2>2, MovedIs
  <1>3. new.status \notin Open
    BY <1>2 DEF Open
  <1>4. DOMAIN new.targets = DOMAIN job.targets
    BY <1>2
  <1>5. Changed(job, new, {})
    BY <1>2, <1>3, <1>4 DEF Changed, IsJob, Keeps
  <1>6. Earned(job, new, ans, cand)
    BY <1>2 DEF Earned
  <1> QED
    BY <1>1, <1>2, <1>5, <1>6

\* _refresh_backfill_job_progress after a running target succeeded or failed.
LEMMA RefreshMoves ==
    ASSUME NEW ans, NEW cand, NEW job, JobOK(job, ans, cand), job.status = "running",
           NEW at \in DOMAIN job.targets, job.targets[at] \in {"pending", "running"},
           NEW v \in {"succeeded", "failed"},
           v = "succeeded" => JobSlots(job) \subseteq ans[at] \cup cand[at]
    PROVE  LET new == Refreshed([job EXCEPT !.targets[at] = v])
           IN  Changed(job, new, {}) /\ Earned(job, new, ans, cand)
  <1>1. PICK mid : mid = [job EXCEPT !.targets[at] = v]
    OBVIOUS
  <1>2. IsJob(job)
    BY DEF JobOK
  <1>3. /\ DOMAIN mid = JobFields /\ mid.status = job.status
        /\ mid.lo = job.lo /\ mid.hi = job.hi /\ mid.plan = job.plan
        /\ mid.manual = job.manual /\ mid.forced = job.forced /\ mid.tries = job.tries
        /\ mid.targets = [job.targets EXCEPT ![at] = v]
    BY <1>1, <1>2 DEF IsJob, JobFields
  <1>4. IsJob(mid) /\ DOMAIN mid.targets = DOMAIN job.targets
    BY <1>2, <1>3 DEF IsJob, AllTargets
  <1>5. /\ mid.targets[at] = v
        /\ \A m \in DOMAIN job.targets : m # at => mid.targets[m] = job.targets[m]
    BY <1>2, <1>3 DEF IsJob
  <1>6. PICK new : new = Refreshed(mid)
    OBVIOUS
  <1>7. ~job.forced => \A m \in DOMAIN job.targets : job.targets[m] # "failed"
    BY DEF JobOK, Open
  <1>8. \A m \in DOMAIN job.targets : job.targets[m] \in AllTargets
    BY <1>2 DEF IsJob
  <1>9. ASSUME NEW status \in Statuses, new = Released(mid, status),
               status # "planned", status = "succeeded" => TargetsIn(mid, {"failed", "pending", "running", "paused"}) = {},
               TargetsIn(mid, {"failed"}) = {}
        PROVE  Changed(job, new, {}) /\ Earned(job, new, ans, cand)
    <2>1. /\ IsJob(new) /\ new.status = status
          /\ new.lo = mid.lo /\ new.hi = mid.hi /\ new.plan = mid.plan
          /\ new.manual = mid.manual /\ new.targets = mid.targets /\ new.forced = mid.forced
      BY <1>4, <1>9, ReleasedIs
    <2>2. Earned(job, new, ans, cand)
      BY <1>5, <2>1 DEF Earned
    <2>3. status = "succeeded" =>
              \A m \in DOMAIN job.targets : new.targets[m] \in {"stopped", "succeeded"}
      BY <1>4, <1>9, <2>1 DEF TargetsIn, IsJob, AllTargets
    <2>4. \A m \in DOMAIN job.targets : new.targets[m] # "failed"
      BY <1>4, <1>9, <2>1 DEF TargetsIn
    <2>5. \A m \in DOMAIN job.targets :
              new.targets[m] = job.targets[m] \/ (new.targets[m] = v /\ m = at)
      BY <1>5, <2>1
    <2>6. v = "succeeded"
      BY <1>4, <1>5, <2>1, <2>4
    <2>7. Keeps(new) => Keeps(job)
      BY <1>3, <2>1 DEF Keeps, Open
    <2>8. new.targets \in [DOMAIN job.targets -> AllTargets]
      BY <1>4, <2>1 DEF IsJob
    <2>9. ASSUME NEW m \in DOMAIN job.targets
          PROVE  /\ new.targets[m] \in OpenTarget => job.targets[m] \in OpenTarget
                 /\ new.targets[m] \in {"pending", "running"} =>
                        job.targets[m] \in {"pending", "running"}
      BY <2>5, <2>6 DEF OpenTarget
    <2> QED
      BY <1>3, <1>9, <2>1, <2>2, <2>3, <2>4, <2>7, <2>8, <2>9 DEF Changed, IsJob
  <1>10. CASE TargetsIn(mid, {"failed"}) # {} /\ mid.tries < MaxAttempts
    <2>1. new = Retarget(Released(mid, "retry_wait"), {"failed"}, "pending")
      BY <1>6, <1>10 DEF Refreshed
    <2>2. /\ IsJob(new) /\ new.status = "retry_wait"
          /\ new.lo = mid.lo /\ new.hi = mid.hi /\ new.plan = mid.plan
          /\ new.manual = mid.manual /\ new.forced = mid.forced
          /\ new.targets = [m \in DOMAIN mid.targets |->
                               IF mid.targets[m] \in {"failed"} THEN "pending" ELSE mid.targets[m]]
      <3>1. "retry_wait" \in Statuses /\ "pending" \in AllTargets
        BY Words
      <3> QED
        BY <1>4, <2>1, <3>1, MovedIs
    <2>3. DOMAIN new.targets = DOMAIN job.targets
      BY <1>4, <2>2
    <2>4. Earned(job, new, ans, cand)
      BY <1>4, <1>5, <2>2 DEF Earned
    <2>5. Keeps(new) => Keeps(job)
      BY <1>3, <2>2 DEF Keeps, Open
    <2>6. ASSUME Keeps(job), NEW m \in DOMAIN job.targets
          PROVE  /\ new.targets[m] # "failed"
                 /\ new.targets[m] \in OpenTarget => job.targets[m] \in OpenTarget
                 /\ new.targets[m] \in {"pending", "running"} =>
                        job.targets[m] \in {"pending", "running"}
      <3>1. job.targets[m] # "failed"
        BY <1>7, <2>6 DEF Keeps
      <3>2. new.targets[m] = IF mid.targets[m] \in {"failed"} THEN "pending" ELSE mid.targets[m]
        BY <1>4, <2>2
      <3>3. CASE m = at
        BY <1>5, <3>2, <3>3 DEF OpenTarget
      <3>4. CASE m # at
        BY <1>5, <3>1, <3>2, <3>4
      <3> QED
        BY <3>3, <3>4
    <2>7. new.targets \in [DOMAIN job.targets -> AllTargets]
      BY <2>2, <2>3 DEF IsJob
    <2> QED
      BY <1>1, <1>3, <1>6, <2>2, <2>4, <2>5, <2>6, <2>7 DEF Changed, IsJob
  <1>11. CASE TargetsIn(mid, {"failed"}) # {} /\ ~(mid.tries < MaxAttempts)
    <2>1. new = Retarget(Released(mid, "dead_letter"), Unfinished, "failed")
      BY <1>6, <1>11 DEF Refreshed, DeadLettered
    <2>2. /\ IsJob(new) /\ new.status = "dead_letter"
          /\ new.lo = mid.lo /\ new.hi = mid.hi /\ new.plan = mid.plan
          /\ new.manual = mid.manual /\ new.forced = mid.forced
          /\ new.targets = [m \in DOMAIN mid.targets |->
                               IF mid.targets[m] \in Unfinished THEN "failed" ELSE mid.targets[m]]
      <3>1. "dead_letter" \in Statuses /\ "failed" \in AllTargets
        BY Words
      <3> QED
        BY <1>4, <2>1, <3>1, MovedIs
    <2>3. DOMAIN new.targets = DOMAIN job.targets
      BY <1>4, <2>2
    <2>4. Earned(job, new, ans, cand)
      BY <1>4, <1>5, <2>2 DEF Earned
    <2>5. ~Keeps(new)
      BY <2>2 DEF Keeps, Open
    <2> QED
      BY <1>1, <1>3, <1>6, <2>2, <2>3, <2>4, <2>5 DEF Changed, IsJob
  <1>12. CASE TargetsIn(mid, {"failed"}) = {} /\ TargetsIn(mid, {"pending", "running"}) # {}
    <2>1. new = mid
      BY <1>6, <1>12 DEF Refreshed
    <2>2. v # "failed"
      BY <1>4, <1>5, <1>12 DEF TargetsIn
    <2>3. Earned(job, new, ans, cand)
      BY <1>5, <2>1 DEF Earned
    <2>4. \A m \in DOMAIN job.targets :
              new.targets[m] = job.targets[m] \/ new.targets[m] = "succeeded"
      BY <1>5, <2>1, <2>2
    <2>5. \A m \in DOMAIN job.targets : new.targets[m] # "failed"
      BY <1>4, <1>12, <2>1 DEF TargetsIn
    <2>6. Keeps(new) => Keeps(job)
      BY <1>3, <2>1 DEF Keeps
    <2> QED
      BY <1>1, <1>3, <1>4, <1>6, <2>1, <2>3, <2>4, <2>5, <2>6 DEF Changed, IsJob, OpenTarget
  <1>13. CASE /\ TargetsIn(mid, {"failed"}) = {} /\ TargetsIn(mid, {"pending", "running"}) = {}
              /\ TargetsIn(mid, {"paused"}) # {}
    <2>1. new = Released(mid, "paused")
      BY <1>6, <1>13 DEF Refreshed
    <2> QED
      BY <1>1, <1>6, <1>9, <1>13, <2>1 DEF Statuses, Open
  <1>14. CASE /\ TargetsIn(mid, {"failed"}) = {} /\ TargetsIn(mid, {"pending", "running"}) = {}
              /\ TargetsIn(mid, {"paused"}) = {}
    <2>1. new = Released(mid, "succeeded")
      BY <1>6, <1>14 DEF Refreshed
    <2>2. TargetsIn(mid, {"failed", "pending", "running", "paused"}) = {}
      BY <1>14 DEF TargetsIn
    <2> QED
      BY <1>1, <1>6, <1>9, <1>14, <2>1, <2>2 DEF Statuses
  <1> QED
    BY <1>10, <1>11, <1>12, <1>13, <1>14

\* A target of an open job is moved, and the job's status with it.
TargetMoved(job, new, at, v) ==
    \/ new = [job EXCEPT !.targets[at] = v]
    \/ \E s \in Statuses \ {"succeeded", "planned"} : new = Released([job EXCEPT !.targets[at] = v], s)

\* A target is made ready to run only where it already was, in a manual plan, or
\* in a market that is resumed.
MayRun(job, at, v, back) ==
    v \in {"pending", "running"} =>
        job.targets[at] \in {"pending", "running"} \/ job.manual \/ at \in back

LEMMA TargetMoves ==
    ASSUME NEW ans, NEW cand, NEW job, JobOK(job, ans, cand), job.status \in Open,
           NEW at \in DOMAIN job.targets, job.targets[at] \in OpenTarget,
           NEW v \in {"pending", "running", "paused", "stopped"}, NEW back,
           MayRun(job, at, v, back), NEW new, TargetMoved(job, new, at, v)
    PROVE  /\ Changed(job, new, back) /\ Earned(job, new, ans, cand)
           /\ DOMAIN new.targets = DOMAIN job.targets
           /\ new.targets[at] = v
  <1>1. PICK mid : mid = [job EXCEPT !.targets[at] = v]
    OBVIOUS
  <1>2. IsJob(job)
    BY DEF JobOK
  <1>3. /\ DOMAIN mid = JobFields /\ mid.status = job.status
        /\ mid.lo = job.lo /\ mid.hi = job.hi /\ mid.plan = job.plan
        /\ mid.manual = job.manual /\ mid.forced = job.forced /\ mid.tries = job.tries
        /\ mid.targets = [job.targets EXCEPT ![at] = v]
    BY <1>1, <1>2 DEF IsJob, JobFields
  <1>4. IsJob(mid) /\ DOMAIN mid.targets = DOMAIN job.targets
    BY <1>2, <1>3 DEF IsJob, AllTargets
  <1>5. /\ mid.targets[at] = v
        /\ \A m \in DOMAIN job.targets : m # at => mid.targets[m] = job.targets[m]
    BY <1>2, <1>3 DEF IsJob
  <1>6. /\ IsJob(new) /\ new.status # "succeeded"
        /\ new.status = "planned" => job.status = "planned"
        /\ new.lo = mid.lo /\ new.hi = mid.hi /\ new.plan = mid.plan
        /\ new.manual = mid.manual /\ new.targets = mid.targets /\ new.forced = mid.forced
    <2>1. CASE new = mid
      BY <1>3, <1>4, <2>1 DEF Open
    <2>2. CASE \E s \in Statuses \ {"succeeded", "planned"} : new = Released(mid, s)
      <3>1. PICK s \in Statuses \ {"succeeded", "planned"} : new = Released(mid, s)
        BY <2>2
      <3>2. /\ IsJob(new) /\ new.status = s
            /\ new.lo = mid.lo /\ new.hi = mid.hi /\ new.plan = mid.plan
            /\ new.manual = mid.manual /\ new.targets = mid.targets /\ new.forced = mid.forced
        BY <1>4, <3>1, ReleasedIs
      <3> QED
        BY <3>1, <3>2
    <2> QED
      BY <1>1, <2>1, <2>2 DEF TargetMoved
  <1>7. Earned(job, new, ans, cand)
    BY <1>5, <1>6 DEF Earned
  <1>8. Keeps(new) => Keeps(job)
    BY <1>3, <1>6 DEF Keeps
  <1>9. ASSUME Keeps(job), NEW m \in DOMAIN job.targets
        PROVE  /\ new.targets[m] # "failed"
               /\ new.targets[m] \in OpenTarget => job.targets[m] \in OpenTarget
               /\ new.targets[m] \in {"pending", "running"} =>
                      job.targets[m] \in {"pending", "running"} \/ job.manual \/ m \in back
    <2>1. job.targets[m] # "failed"
      BY <1>9 DEF JobOK, Keeps
    <2>2. CASE m = at
      BY <1>5, <1>6, <2>2 DEF MayRun
    <2>3. CASE m # at
      BY <1>5, <1>6, <2>1, <2>3
    <2> QED
      BY <2>2, <2>3
  <1>10. new.targets \in [DOMAIN job.targets -> AllTargets]
    BY <1>4, <1>6 DEF IsJob
  <1>11. Changed(job, new, back)
    BY <1>3, <1>6, <1>8, <1>9, <1>10 DEF Changed, IsJob
  <1> QED
    BY <1>4, <1>5, <1>6, <1>7, <1>11

\* What control_backfill_job writes, whatever the job has become.
LEMMA ControlMoves ==
    ASSUME NEW ans, NEW cand, NEW job, JobOK(job, ans, cand), NEW action
    PROVE  Changed(job, Controlled(job, action), {}) /\ Earned(job, Controlled(job, action), ans, cand)
  <1>1. IsJob(job)
    BY DEF JobOK
  <1>2. PICK new : new = Controlled(job, action)
    OBVIOUS
  <1>3. CASE action = "pause"
    <2>1. PICK mid : mid = Retarget(Released(job, "paused"), {"pending", "running"}, "paused")
      OBVIOUS
    <2>2. new = [mid EXCEPT !.forced = @ \/ job.status \notin Open]
      BY <1>2, <1>3, <2>1 DEF Controlled
    <2>3. "paused" \in Statuses /\ "paused" \in AllTargets
      BY Words
    <2>4. /\ IsJob(mid) /\ mid.status = "paused"
          /\ mid.lo = job.lo /\ mid.hi = job.hi /\ mid.plan = job.plan
          /\ mid.manual = job.manual /\ mid.forced = job.forced
          /\ mid.targets = [m \in DOMAIN job.targets |->
                               IF job.targets[m] \in {"pending", "running"} THEN "paused"
                               ELSE job.targets[m]]
      BY <1>1, <2>1, <2>3, MovedIs
    <2>5. /\ DOMAIN new = JobFields /\ new.status = "paused"
          /\ new.lo = job.lo /\ new.hi = job.hi /\ new.plan = job.plan
          /\ new.manual = job.manual /\ new.targets = mid.targets
          /\ new.forced = (mid.forced \/ job.status \notin Open) /\ new.tries \in Nat
      BY <2>2, <2>4 DEF IsJob, JobFields
    <2>6. new.forced \in BOOLEAN /\ (~new.forced => Keeps(job))
      BY <2>4, <2>5 DEF Keeps, IsJob
    <2>7. DOMAIN mid.targets = DOMAIN job.targets
      BY <2>4
    <2>8. ASSUME Keeps(job), NEW m \in DOMAIN job.targets
          PROVE  /\ new.targets[m] # "failed"
                 /\ new.targets[m] \in OpenTarget => job.targets[m] \in OpenTarget
                 /\ new.targets[m] \notin {"pending", "running"}
      <3>1. job.targets[m] # "failed"
        BY <2>8 DEF JobOK, Keeps
      <3> QED
        BY <2>4, <2>5, <3>1 DEF OpenTarget
    <2>9. Earned(job, new, ans, cand)
      BY <2>4, <2>5 DEF Earned
    <2>10. new.targets \in [DOMAIN job.targets -> AllTargets]
      BY <2>4, <2>5, <2>7 DEF IsJob
    <2>11. new.status \in Statuses /\ new.status # "succeeded"
      BY <2>3, <2>5
    <2>12. Changed(job, new, {})
      BY <2>5, <2>6, <2>8, <2>10, <2>11 DEF Changed, Keeps
    <2> QED
      BY <1>2, <2>9, <2>12
  <1>4. CASE action = "stop"
    <2>1. new = Retarget(Released(job, "stopped"), AllTargets \ {"succeeded", "failed"}, "stopped")
      BY <1>2, <1>4 DEF Controlled
    <2>2. "stopped" \in Statuses /\ "stopped" \notin Open /\ "stopped" \in AllTargets
      BY Words
    <2>3. /\ IsJob(new) /\ new.status = "stopped"
          /\ new.lo = job.lo /\ new.hi = job.hi /\ new.plan = job.plan
          /\ new.manual = job.manual /\ new.forced = job.forced
          /\ new.targets = [m \in DOMAIN job.targets |->
                               IF job.targets[m] \in AllTargets \ {"succeeded", "failed"}
                               THEN "stopped" ELSE job.targets[m]]
      BY <1>1, <2>1, <2>2, MovedIs
    <2>4. DOMAIN new.targets = DOMAIN job.targets
      BY <2>3
    <2>5. Earned(job, new, ans, cand)
      BY <2>3 DEF Earned
    <2>6. ~Keeps(new)
      BY <2>2, <2>3 DEF Keeps
    <2>7. Changed(job, new, {})
      BY <2>3, <2>4, <2>6 DEF Changed, IsJob
    <2> QED
      BY <1>2, <2>5, <2>7
  <1>5. CASE action # "pause" /\ action # "stop"
    <2>1. PICK mid : mid = Retarget(Released(job, "pending"), AllTargets \ {"succeeded"}, "pending")
      OBVIOUS
    <2>2. new = [mid EXCEPT !.tries = IF action = "safe-restart" THEN 0 ELSE @, !.forced = TRUE]
      BY <1>2, <1>5, <2>1 DEF Controlled
    <2>3. "pending" \in Statuses /\ "pending" \in AllTargets
      BY Words
    <2>4. /\ IsJob(mid) /\ mid.status = "pending"
          /\ mid.lo = job.lo /\ mid.hi = job.hi /\ mid.plan = job.plan
          /\ mid.manual = job.manual
          /\ mid.targets = [m \in DOMAIN job.targets |->
                               IF job.targets[m] \in AllTargets \ {"succeeded"}
                               THEN "pending" ELSE job.targets[m]]
      BY <1>1, <2>1, <2>3, MovedIs
    <2>5. /\ DOMAIN new = JobFields /\ new.status = "pending"
          /\ new.lo = job.lo /\ new.hi = job.hi /\ new.plan = job.plan
          /\ new.manual = job.manual /\ new.targets = mid.targets /\ new.forced = TRUE
          /\ new.tries \in Nat
      BY <2>2, <2>4 DEF IsJob, JobFields
    <2>6. DOMAIN mid.targets = DOMAIN job.targets
      BY <2>4
    <2>7. Earned(job, new, ans, cand)
      BY <2>4, <2>5 DEF Earned
    <2>8. Changed(job, new, {})
      BY <2>3, <2>4, <2>5, <2>6 DEF Changed, IsJob, Keeps
    <2> QED
      BY <1>2, <2>7, <2>8
  <1> QED
    BY <1>3, <1>4, <1>5

-----------------------------------------------------------------------------
(* Steps of the table of jobs.                                             *)

\* Jobs are added, and none loses its range or a target.
Grown(js, js2) ==
    /\ DOMAIN js \subseteq DOMAIN js2
    /\ \A j \in DOMAIN js : /\ js2[j].lo = js[j].lo /\ js2[j].hi = js[j].hi
                             /\ DOMAIN js[j].targets \subseteq DOMAIN js2[j].targets

\* Every job is changed as an operation may.
LEMMA AllChange ==
    ASSUME NEW ans, NEW cand, NEW ans2, NEW cand2, NEW js, NEW js2, NEW back,
           Jobs(js, ans, cand), js2 = [j \in DOMAIN js |-> js2[j]],
           \A j \in DOMAIN js : /\ Changed(js[j], js2[j], back)
                                /\ Earned(js[j], js2[j], ans2, cand2),
           \A m \in Markets : ans[m] \subseteq ans2[m] /\ cand[m] \subseteq cand2[m]
    PROVE  /\ Jobs(js2, ans2, cand2) /\ Grown(js, js2) /\ DOMAIN js2 = DOMAIN js
           /\ OneOpen(js) => OneOpen(js2)
           /\ \A m \in Markets \ back : Quiet(js, m) => Quiet(js2, m)
  <1>1. js2 \in Seq({js2[j] : j \in DOMAIN js2}) /\ DOMAIN js2 = DOMAIN js
    <2>1. js \in Seq({js[j] : j \in DOMAIN js})
      BY DEF Jobs
    <2> QED
      BY <2>1, SameDomain
  <1>2. ASSUME NEW j \in DOMAIN js
        PROVE  /\ JobOK(js2[j], ans2, cand2)
               /\ DOMAIN js2[j].targets = DOMAIN js[j].targets
               /\ Keeps(js2[j]) => \A m \in Markets : HoldsOpen(js2[j], m) => HoldsOpen(js[j], m)
               /\ \A m \in Markets \ back : QuietJob(js[j], m) => QuietJob(js2[j], m)
    <2>1. PICK old, new : old = js[j] /\ new = js2[j]
      OBVIOUS
    <2>2. /\ JobOK(old, ans, cand) /\ Changed(old, new, back) /\ Earned(old, new, ans2, cand2)
          /\ \A m \in Markets : ans[m] \subseteq ans2[m] /\ cand[m] \subseteq cand2[m]
      BY <2>1 DEF Jobs
    <2>3. /\ JobOK(new, ans2, cand2)
          /\ DOMAIN new.targets = DOMAIN old.targets
          /\ Keeps(new) => \A m \in Markets : HoldsOpen(new, m) => HoldsOpen(old, m)
          /\ \A m \in Markets \ back : QuietJob(old, m) => QuietJob(new, m)
      BY <2>2, ChangedIs
    <2> QED
      BY <2>1, <2>3
  <1>3. Jobs(js2, ans2, cand2)
    BY <1>1, <1>2 DEF Jobs
  <1>4. Grown(js, js2)
    BY <1>1, <1>2 DEF Grown, Changed
  <1>5. \A j \in DOMAIN js : Keeps(js2[j]) => Keeps(js[j])
    BY DEF Changed
  <1>6. OneOpen(js) => OneOpen(js2)
    BY <1>1, <1>2, <1>5 DEF OneOpen
  <1>7. \A m \in Markets \ back : Quiet(js, m) => Quiet(js2, m)
    BY <1>1, <1>2 DEF Quiet
  <1> QED
    BY <1>1, <1>3, <1>4, <1>6, <1>7

\* One job is changed.
LEMMA OneChanges ==
    ASSUME NEW ans, NEW cand, NEW js, NEW js2, NEW back, NEW i \in DOMAIN js, NEW job,
           Jobs(js, ans, cand), js2 = [js EXCEPT ![i] = job],
           Changed(js[i], job, back), Earned(js[i], job, ans, cand)
    PROVE  /\ Jobs(js2, ans, cand) /\ Grown(js, js2) /\ DOMAIN js2 = DOMAIN js
           /\ OneOpen(js) => OneOpen(js2)
           /\ \A m \in Markets \ back : Quiet(js, m) => Quiet(js2, m)
  <1>1. js2 = [j \in DOMAIN js |-> js2[j]]
    OBVIOUS
  <1>2. ASSUME NEW j \in DOMAIN js
        PROVE  Changed(js[j], js2[j], back) /\ Earned(js[j], js2[j], ans, cand)
    <2>1. CASE j = i
      BY <2>1
    <2>2. CASE j # i
      <3>1. js2[j] = js[j] /\ JobOK(js[j], ans, cand)
        BY <2>2 DEF Jobs
      <3>2. Changed(js[j], js[j], {}) /\ Earned(js[j], js[j], ans, cand)
        BY <3>1, SameJob
      <3> QED
        BY <3>1, <3>2 DEF Changed
    <2> QED
      BY <2>1, <2>2
  <1>3. \A j \in DOMAIN js : Changed(js[j], js2[j], back) /\ Earned(js[j], js2[j], ans, cand)
    BY <1>2
  <1>4. \A m \in Markets : ans[m] \subseteq ans[m] /\ cand[m] \subseteq cand[m]
    OBVIOUS
  <1>5. PICK x : x = js2
    OBVIOUS
  <1>6. /\ x = [j \in DOMAIN js |-> x[j]]
        /\ \A j \in DOMAIN js : Changed(js[j], x[j], back) /\ Earned(js[j], x[j], ans, cand)
    BY <1>1, <1>3, <1>5
  <1>7. /\ Jobs(x, ans, cand) /\ Grown(js, x) /\ DOMAIN x = DOMAIN js
        /\ OneOpen(js) => OneOpen(x)
        /\ \A m \in Markets \ back : Quiet(js, m) => Quiet(x, m)
    BY <1>4, <1>6, AllChange
  <1> QED
    BY <1>5, <1>7

\* A job is added for markets that no other keeps.
LEMMA OneAdded ==
    ASSUME NEW ans, NEW cand, NEW js, NEW job, Jobs(js, ans, cand), JobOK(job, ans, cand),
           \A m \in Markets : HoldsOpen(job, m) =>
               \A j \in DOMAIN js : Keeps(js[j]) => ~HoldsOpen(js[j], m)
    PROVE  /\ Jobs(Append(js, job), ans, cand) /\ Grown(js, Append(js, job))
           /\ OneOpen(js) => OneOpen(Append(js, job))
           /\ \A m \in Markets : (Quiet(js, m) /\ QuietJob(job, m)) => Quiet(Append(js, job), m)
  <1>1. PICK js2, n : js2 = Append(js, job) /\ n = Len(js) + 1
    OBVIOUS
  <1>2. /\ js2 \in Seq({js2[i] : i \in DOMAIN js2})
        /\ DOMAIN js2 = DOMAIN js \cup {n} /\ n \notin DOMAIN js
        /\ \A i \in DOMAIN js : js2[i] = js[i]
        /\ js2[n] = job
    <2>1. js \in Seq({js[j] : j \in DOMAIN js})
      BY DEF Jobs
    <2> QED
      BY <1>1, <2>1, Appended
  <1>3. Jobs(js2, ans, cand)
    BY <1>2 DEF Jobs
  <1>4. Grown(js, js2)
    BY <1>2 DEF Grown
  <1>5. ASSUME OneOpen(js) PROVE OneOpen(js2)
    <2> SUFFICES ASSUME NEW j \in DOMAIN js2, NEW k \in DOMAIN js2, j # k, NEW m \in Markets,
                        Keeps(js2[j]), HoldsOpen(js2[j], m), Keeps(js2[k]), HoldsOpen(js2[k], m)
                 PROVE  FALSE
      BY DEF OneOpen
    <2>1. CASE j \in DOMAIN js /\ k \in DOMAIN js
      BY <1>2, <1>5, <2>1 DEF OneOpen
    <2>2. CASE j = n /\ k \in DOMAIN js
      BY <1>2, <2>2
    <2>3. CASE k = n /\ j \in DOMAIN js
      BY <1>2, <2>3
    <2> QED
      BY <1>2, <2>1, <2>2, <2>3
  <1>6. \A m \in Markets : (Quiet(js, m) /\ QuietJob(job, m)) => Quiet(js2, m)
    BY <1>2 DEF Quiet
  <1> QED
    BY <1>1, <1>3, <1>4, <1>5, <1>6

-----------------------------------------------------------------------------
(* What the catalog and the policies do to the table.                      *)

\* A table of jobs that may follow another, when some markets are resumed.
Follows(js, js2, back, ans, cand) ==
    /\ Jobs(js2, ans, cand) /\ Grown(js, js2)
    /\ OneOpen(js) => OneOpen(js2)
    /\ \A m \in Markets \ back : Quiet(js, m) => Quiet(js2, m)

LEMMA FollowsTwice ==
    ASSUME NEW js1, NEW js2, NEW js3, NEW back1, NEW back2, NEW ans, NEW cand,
           Follows(js1, js2, back1, ans, cand), Follows(js2, js3, back2, ans, cand)
    PROVE  Follows(js1, js3, back1 \cup back2, ans, cand)
  <1>1. Grown(js1, js3)
    BY DEF Follows, Grown
  <1> QED
    BY <1>1 DEF Follows

LEMMA FollowsItself ==
    ASSUME NEW js, NEW ans, NEW cand, Jobs(js, ans, cand)
    PROVE  Follows(js, js, {}, ans, cand)
  BY DEF Follows, Grown

\* A target of an open job is taken out of it: Withdrawn and Superseded.
TakenOut(job, m, v, s) ==
    LET next == [job EXCEPT !.targets[m] = v]
    IN  IF job.status \in Open /\ m \in TargetsIn(job, OpenTarget)
        THEN IF Runnable(next) THEN next ELSE Released(next, s)
        ELSE job

LEMMA TakenOutIs ==
    ASSUME NEW ans, NEW cand, NEW job, JobOK(job, ans, cand), NEW m \in Markets,
           NEW v \in {"paused", "stopped"}, NEW s \in {"paused", "cancelled"}
    PROVE  /\ Changed(job, TakenOut(job, m, v, s), {})
           /\ Earned(job, TakenOut(job, m, v, s), ans, cand)
           /\ QuietJob(TakenOut(job, m, v, s), m)
  <1>1. PICK new : new = TakenOut(job, m, v, s)
    OBVIOUS
  <1>2. CASE job.status \in Open /\ m \in TargetsIn(job, OpenTarget)
    <2>1. \/ new = [job EXCEPT !.targets[m] = v]
          \/ new = Released([job EXCEPT !.targets[m] = v], s)
      BY <1>1, <1>2 DEF TakenOut
    <2>2. m \in DOMAIN job.targets /\ job.targets[m] \in OpenTarget
      BY <1>2 DEF TargetsIn
    <2>3. s \in Statuses \ {"succeeded", "planned"}
      BY DEF Statuses, Open
    <2>4. TargetMoved(job, new, m, v)
      BY <2>1, <2>3 DEF TargetMoved
    <2>5. /\ Changed(job, new, {}) /\ Earned(job, new, ans, cand)
          /\ new.targets[m] = v
      <3>1. v \in {"pending", "running", "paused", "stopped"}
        OBVIOUS
      <3>2. PICK back : back = {}
        OBVIOUS
      <3>3. MayRun(job, m, v, back)
        BY DEF MayRun
      <3>4. job.status \in Open
        BY <1>2
      <3>5. /\ Changed(job, new, back) /\ Earned(job, new, ans, cand)
            /\ DOMAIN new.targets = DOMAIN job.targets
            /\ new.targets[m] = v
        BY <2>2, <2>4, <3>1, <3>3, <3>4, TargetMoves
      <3> QED
        BY <3>2, <3>5
    <2> QED
      BY <1>1, <2>5 DEF QuietJob, TargetsIn
  <1>3. CASE ~(job.status \in Open /\ m \in TargetsIn(job, OpenTarget))
    <2>1. new = job
      BY <1>1, <1>3 DEF TakenOut
    <2>2. QuietJob(job, m)
      BY <1>3 DEF QuietJob, Keeps, TargetsIn, OpenTarget
    <2> QED
      BY <1>1, <2>1, <2>2, SameJob
  <1> QED
    BY <1>2, <1>3

LEMMA TakenOutAll ==
    ASSUME NEW ans, NEW cand, NEW js, NEW js2, Jobs(js, ans, cand), NEW m \in Markets,
           js2 = [j \in DOMAIN js |-> js2[j]],
           \A j \in DOMAIN js : \E v \in {"paused", "stopped"}, s \in {"paused", "cancelled"} :
               js2[j] = TakenOut(js[j], m, v, s)
    PROVE  Follows(js, js2, {}, ans, cand) /\ Quiet(js2, m)
  <1>1. ASSUME NEW j \in DOMAIN js
        PROVE  /\ Changed(js[j], js2[j], {}) /\ Earned(js[j], js2[j], ans, cand)
               /\ QuietJob(js2[j], m)
    <2>1. PICK v \in {"paused", "stopped"}, s \in {"paused", "cancelled"} :
              js2[j] = TakenOut(js[j], m, v, s)
      OBVIOUS
    <2>2. PICK job : job = js[j]
      OBVIOUS
    <2>3. JobOK(job, ans, cand)
      BY <2>2 DEF Jobs
    <2>4. /\ Changed(job, TakenOut(job, m, v, s), {})
          /\ Earned(job, TakenOut(job, m, v, s), ans, cand)
          /\ QuietJob(TakenOut(job, m, v, s), m)
      BY <2>3, TakenOutIs
    <2> QED
      BY <2>1, <2>2, <2>4
  <1>2. \A j \in DOMAIN js : Changed(js[j], js2[j], {}) /\ Earned(js[j], js2[j], ans, cand)
    BY <1>1
  <1>3. \A x \in Markets : ans[x] \subseteq ans[x] /\ cand[x] \subseteq cand[x]
    OBVIOUS
  <1>4. /\ Jobs(js2, ans, cand) /\ Grown(js, js2) /\ DOMAIN js2 = DOMAIN js
        /\ OneOpen(js) => OneOpen(js2)
        /\ \A x \in Markets \ {} : Quiet(js, x) => Quiet(js2, x)
    BY <1>2, <1>3, AllChange
  <1>5. Quiet(js2, m)
    BY <1>1, <1>4 DEF Quiet
  <1> QED
    BY <1>4, <1>5 DEF Follows

LEMMA WithdrawnIs ==
    ASSUME NEW ans, NEW cand, NEW js, Jobs(js, ans, cand), NEW m \in Markets, NEW status
    PROVE  /\ Follows(js, Withdrawn(js, m, status), {}, ans, cand)
           /\ Quiet(Withdrawn(js, m, status), m)
  <1>1. PICK js2 : js2 = Withdrawn(js, m, status)
    OBVIOUS
  <1>2. js2 = [j \in DOMAIN js |-> js2[j]]
    BY <1>1 DEF Withdrawn
  <1>3. ASSUME NEW j \in DOMAIN js
        PROVE  \E v \in {"paused", "stopped"}, s \in {"paused", "cancelled"} :
                   js2[j] = TakenOut(js[j], m, v, s)
    <2> DEFINE v == IF status = "paused" THEN "paused" ELSE "stopped"
               next == [js[j] EXCEPT !.targets[m] = v]
               s == IF TargetsIn(next, {"paused"}) # {} \/ status = "paused"
                    THEN "paused" ELSE "cancelled"
    <2>1. js2[j] = TakenOut(js[j], m, v, s)
      BY <1>1 DEF Withdrawn, TakenOut
    <2>2. v \in {"paused", "stopped"} /\ s \in {"paused", "cancelled"}
      OBVIOUS
    <2> HIDE DEF v, s
    <2> QED
      BY <2>1, <2>2
  <1>4. Follows(js, js2, {}, ans, cand) /\ Quiet(js2, m)
    BY <1>2, <1>3, TakenOutAll
  <1> QED
    BY <1>1, <1>4

LEMMA SupersededIs ==
    ASSUME NEW ans, NEW cand, NEW js, Jobs(js, ans, cand), NEW m \in Markets
    PROVE  /\ Follows(js, Superseded(js, m), {}, ans, cand)
           /\ Quiet(Superseded(js, m), m)
  <1>1. PICK js2 : js2 = Superseded(js, m)
    OBVIOUS
  <1>2. js2 = [j \in DOMAIN js |-> js2[j]]
    BY <1>1 DEF Superseded
  <1>3. ASSUME NEW j \in DOMAIN js
        PROVE  \E v \in {"paused", "stopped"}, s \in {"paused", "cancelled"} :
                   js2[j] = TakenOut(js[j], m, v, s)
    <2> DEFINE next == [js[j] EXCEPT !.targets[m] = "stopped"]
               s == IF TargetsIn(next, {"paused"}) # {} THEN "paused" ELSE "cancelled"
    <2>1. js2[j] = TakenOut(js[j], m, "stopped", s)
      BY <1>1 DEF Superseded, TakenOut
    <2>2. s \in {"paused", "cancelled"}
      OBVIOUS
    <2> HIDE DEF s
    <2> QED
      BY <2>1, <2>2
  <1>4. Follows(js, js2, {}, ans, cand) /\ Quiet(js2, m)
    BY <1>2, <1>3, TakenOutAll
  <1> QED
    BY <1>1, <1>4

LEMMA ResumedIs ==
    ASSUME NEW ans, NEW cand, NEW js, Jobs(js, ans, cand), NEW m \in Markets,
           NEW allowed, NEW back, allowed => m \in back
    PROVE  Follows(js, Resumed(js, m, allowed), back, ans, cand)
  <1>1. PICK js2 : js2 = Resumed(js, m, allowed)
    OBVIOUS
  <1>2. js2 = [j \in DOMAIN js |-> js2[j]]
    BY <1>1 DEF Resumed
  <1>3. ASSUME NEW j \in DOMAIN js
        PROVE  Changed(js[j], js2[j], back) /\ Earned(js[j], js2[j], ans, cand)
    <2>1. PICK job, new : job = js[j] /\ new = js2[j]
      OBVIOUS
    <2>2. JobOK(job, ans, cand)
      BY <2>1 DEF Jobs
    <2>3. CASE /\ job.status \in Open /\ m \in TargetsIn(job, {"paused"})
               /\ job.manual \/ allowed
      <3>1. \/ new = [job EXCEPT !.targets[m] = "pending"]
            \/ new = Released([job EXCEPT !.targets[m] = "pending"], "pending")
        BY <1>1, <2>1, <2>3 DEF Resumed
      <3>2. "pending" \in Statuses \ {"succeeded", "planned"}
        BY Words
      <3>3. TargetMoved(job, new, m, "pending")
        BY <3>1, <3>2 DEF TargetMoved
      <3>4. m \in DOMAIN job.targets /\ job.targets[m] \in OpenTarget
        BY <2>3 DEF TargetsIn, OpenTarget
      <3>5. job.manual \/ m \in back
        BY <2>3
      <3>6. PICK v : v = "pending"
        OBVIOUS
      <3>7. v \in {"pending", "running", "paused", "stopped"}
        BY <3>6
      <3>8. TargetMoved(job, new, m, v)
        BY <3>3, <3>6
      <3>9. job.status \in Open
        BY <2>3
      <3>10. MayRun(job, m, v, back)
        BY <3>5 DEF MayRun
      <3>11. /\ Changed(job, new, back) /\ Earned(job, new, ans, cand)
             /\ DOMAIN new.targets = DOMAIN job.targets
             /\ new.targets[m] = v
        BY <2>2, <3>4, <3>7, <3>8, <3>9, <3>10, TargetMoves
      <3> QED
        BY <2>1, <3>11
    <2>4. CASE ~(/\ job.status \in Open /\ m \in TargetsIn(job, {"paused"})
                 /\ job.manual \/ allowed)
      <3>1. new = job
        BY <1>1, <2>1, <2>4 DEF Resumed
      <3>2. Changed(job, job, {}) /\ Earned(job, job, ans, cand)
        BY <2>2, SameJob
      <3> QED
        BY <2>1, <3>1, <3>2 DEF Changed
    <2> QED
      BY <2>3, <2>4
  <1>4. \A j \in DOMAIN js : Changed(js[j], js2[j], back) /\ Earned(js[j], js2[j], ans, cand)
    BY <1>3
  <1>5. \A x \in Markets : ans[x] \subseteq ans[x] /\ cand[x] \subseteq cand[x]
    OBVIOUS
  <1>6. /\ Jobs(js2, ans, cand) /\ Grown(js, js2) /\ DOMAIN js2 = DOMAIN js
        /\ OneOpen(js) => OneOpen(js2)
        /\ \A x \in Markets \ back : Quiet(js, x) => Quiet(js2, x)
    BY <1>2, <1>4, <1>5, AllChange
  <1> QED
    BY <1>1, <1>6 DEF Follows

\* New work is opened for a market only when no other job holds it.
LEMMA EnsuredIs ==
    ASSUME NEW ans, NEW cand, NEW js, Jobs(js, ans, cand), NEW m \in Markets,
           NEW key, NEW lo, NEW hi
    PROVE  Follows(js, Ensured(js, m, key, lo, hi), {m}, ans, cand)
  <1>1. PICK job : job = NewJob({m}, FALSE, key, lo, hi)
    OBVIOUS
  <1>2. CASE Ensured(js, m, key, lo, hi) = js
    BY <1>2, FollowsItself DEF Follows
  <1>3. CASE /\ Ensured(js, m, key, lo, hi) = Append(js, job)
             /\ \A j \in OpenJobs(js) : ~HoldsOpen(js[j], m)
    <2>1. /\ DOMAIN job = JobFields /\ job.status = "pending"
          /\ job.manual = FALSE /\ job.forced = FALSE /\ job.plan = {m} /\ job.tries \in Nat
          /\ job.targets = [x \in {m} |-> "pending"]
      BY <1>1 DEF NewJob, JobFields
    <2>2. IsJob(job)
      BY <2>1, Words DEF IsJob
    <2>3. JobOK(job, ans, cand)
      BY <2>1, <2>2 DEF JobOK
    <2>4. \A x \in Markets : HoldsOpen(job, x) => x = m
      BY <2>1 DEF HoldsOpen, TargetsIn
    <2>5. \A x \in Markets : HoldsOpen(job, x) =>
              \A j \in DOMAIN js : Keeps(js[j]) => ~HoldsOpen(js[j], x)
      BY <1>3, <2>4 DEF Keeps, OpenJobs
    <2>6. \A x \in Markets \ {m} : QuietJob(job, x)
      BY <2>1 DEF QuietJob, TargetsIn
    <2>7. /\ Jobs(Append(js, job), ans, cand) /\ Grown(js, Append(js, job))
          /\ OneOpen(js) => OneOpen(Append(js, job))
          /\ \A x \in Markets : (Quiet(js, x) /\ QuietJob(job, x)) => Quiet(Append(js, job), x)
      BY <2>3, <2>5, OneAdded
    <2> QED
      BY <1>3, <2>6, <2>7 DEF Follows
  <1> QED
    BY <1>1, <1>2, <1>3 DEF Ensured

-----------------------------------------------------------------------------
(* sync_market_catalog.                                                    *)

LEMMA FollowsMore ==
    ASSUME NEW js, NEW js2, NEW back, NEW back2, NEW ans, NEW cand,
           Follows(js, js2, back, ans, cand), back \subseteq back2
    PROVE  Follows(js, js2, back2, ans, cand)
  BY DEF Follows

\* A market that was observed: it is off when the catalog says so, or when it
\* was off before.
LEMMA ObservedIs ==
    ASSUME NEW mk, IsMarket(mk), NEW item
    PROVE  /\ IsMarket(Observed(mk, item))
           /\ (Off(Observed(mk, item)) /\ item = "tradable") => Off(mk)
  <1> DEFINE status == [d \in Types |-> IF Kept(mk, d) THEN mk.status[d]
                                        ELSE IF item = "tradable" THEN "active" ELSE "paused"]
             reason == [d \in Types |->
                           IF Kept(mk, d) THEN mk.reason[d]
                           ELSE CASE item = "tradable" -> None
                                  [] item = "halted" -> "market_inactive"
                                  [] item = "absent" -> "catalog_missing"]
             cont == IF mk.auto /\ item # "absent" THEN TRUE ELSE mk.cont
             desire == [d \in Types |-> item = "tradable" /\ status[d] = "active" /\ cont]
             trading == IF item = "tradable" THEN "active" ELSE "inactive"
             gen == [d \in Types |->
                        IF mk.trading = "unknown" \/ mk.desire[d] # desire[d]
                        THEN mk.gen[d] + 1 ELSE mk.gen[d]]
             legacy == item # "absent" /\ \E d \in Types : status[d] = "active"
  <1>1. "source_candle" \in Types
    BY DEF Types
  <1>2. status["source_candle"] # "active" => ~desire["source_candle"]
    BY <1>1
  <1>3. (status["source_candle"] # "active" /\ item = "tradable") => Off(mk)
    BY <1>1 DEF Off
  <1>4. DOMAIN status = Types /\ DOMAIN reason = Types /\ DOMAIN desire = Types
    OBVIOUS
  <1>5. ASSUME reason["source_candle"] = "policy_disabled" PROVE status["source_candle"] # "active"
    <2>1. CASE Kept(mk, "source_candle")
      BY <1>1, <1>5, <2>1 DEF IsMarket
    <2>2. CASE ~Kept(mk, "source_candle") /\ item # "tradable"
      BY <1>1, <2>2
    <2>3. CASE ~Kept(mk, "source_candle") /\ item = "tradable"
      <3>1. mk.reason["source_candle"] # "policy_disabled"
        BY <2>3 DEF Kept, OperatorReasons
      <3> QED
        BY <1>1, <1>5, <2>3, <3>1, DataFoundationAssumption
    <2> QED
      BY <2>1, <2>2, <2>3
  <1>6. Observed(mk, item) = [mk EXCEPT !.trading = trading, !.cont = cont, !.status = status,
                                        !.reason = reason, !.desire = desire, !.gen = gen,
                                        !.legacy = legacy]
    BY DEF Observed
  <1> HIDE DEF status, reason, cont, desire, trading, gen, legacy
  <1>7. PICK next : next = Observed(mk, item)
    OBVIOUS
  <1>8. /\ DOMAIN next = MarketFields /\ next.status = status /\ next.reason = reason
        /\ next.desire = desire
    BY <1>6, <1>7 DEF IsMarket, MarketFields
  <1>9. IsMarket(next)
    BY <1>2, <1>4, <1>5, <1>8 DEF IsMarket
  <1>10. (Off(next) /\ item = "tradable") => Off(mk)
    BY <1>3, <1>8 DEF Off
  <1> QED
    BY <1>7, <1>9, <1>10

LEMMA SyncedIs ==
    ASSUME NEW ans, NEW cand, NEW js, Jobs(js, ans, cand), NEW m \in Markets, NEW item, NEW mk,
           NEW now, (Off(mk) /\ item = "tradable") => Quiet(js, m)
    PROVE  /\ Follows(js, SyncedJobs(js, m, item, mk, now), {m}, ans, cand)
           /\ Off(mk) => Quiet(SyncedJobs(js, m, item, mk, now), m)
  <1>1. PICK js2 : js2 = SyncedJobs(js, m, item, mk, now)
    OBVIOUS
  <1>2. CASE item # "tradable"
    <2>1. js2 = Withdrawn(js, m, "paused")
      BY <1>1, <1>2 DEF SyncedJobs
    <2>2. Follows(js, Withdrawn(js, m, "paused"), {}, ans, cand)
          /\ Quiet(Withdrawn(js, m, "paused"), m)
      BY WithdrawnIs
    <2> QED
      BY <1>1, <2>1, <2>2, FollowsMore
  <1>3. CASE item = "tradable" /\ Off(mk)
    <2>1. js2 = Resumed(js, m, FALSE)
      BY <1>1, <1>3 DEF SyncedJobs, Off
    <2>2. Follows(js, Resumed(js, m, FALSE), {}, ans, cand)
      BY ResumedIs
    <2>3. Quiet(js2, m)
      BY <1>3, <2>1, <2>2 DEF Follows
    <2>4. Follows(js, js2, {m}, ans, cand)
      BY <2>1, <2>2 DEF Follows
    <2> QED
      BY <1>1, <2>3, <2>4
  <1>4. CASE item = "tradable" /\ ~Off(mk)
    <2>1. PICK more : more = EnsuredDefault(js, m, now)
      OBVIOUS
    <2>2. js2 = Resumed(more, m, TRUE)
      BY <1>1, <1>4, <2>1 DEF SyncedJobs, Off
    <2>3. Follows(js, more, {m}, ans, cand)
      BY <2>1, EnsuredIs DEF EnsuredDefault
    <2>4. PICK back : back = {m}
      OBVIOUS
    <2>5. Jobs(more, ans, cand) /\ m \in back
      BY <2>3, <2>4 DEF Follows
    <2>6. Follows(more, Resumed(more, m, TRUE), back, ans, cand)
      BY <2>5, ResumedIs
    <2>7. Follows(js, js2, back \cup back, ans, cand)
      BY <2>2, <2>3, <2>4, <2>6, FollowsTwice
    <2>8. back \cup back = {m}
      BY <2>4
    <2> QED
      BY <1>1, <1>4, <2>7, <2>8
  <1> QED
    BY <1>2, <1>3, <1>4

\* The markets are taken one after the other, each once.
LEMMA NthIs ==
    ASSUME NEW S \in SUBSET Nat, IsFiniteSet(S)
    PROVE  /\ Cardinality(S) \in Nat
           /\ \A i \in 1..Cardinality(S) : Nth(S, i) \in S
           /\ \A i, k \in 1..Cardinality(S) : Nth(S, i) = Nth(S, k) => i = k
           /\ \A m \in S : \E i \in 1..Cardinality(S) : Nth(S, i) = m
  <1> DEFINE R == {ab \in S \X S : ab[1] < ab[2]}
             Before(m) == {o \in S : o < m}
  <1>1. Cardinality(S) \in Nat
    BY FS_CardinalityType
  <1>2. \A a, b \in S : <<a, b>> \in R <=> a < b
    OBVIOUS
  <1>3. \A m \in S : Place(S, R, m) = Cardinality(Before(m)) + 1 /\ Cardinality(Before(m)) \in Nat
    <2> SUFFICES ASSUME NEW m \in S
                 PROVE  Place(S, R, m) = Cardinality(Before(m)) + 1 /\ Cardinality(Before(m)) \in Nat
      OBVIOUS
    <2>1. {j \in S : <<j, m>> \in R} = Before(m)
      BY <1>2
    <2>2. IsFiniteSet(Before(m))
      BY FS_Subset
    <2> HIDE DEF Before, R
    <2> QED
      BY <2>1, <2>2, FS_CardinalityType DEF Place
  <1> HIDE DEF R
  <1>4. /\ \A i \in S : <<i, i>> \notin R
        /\ \A i, j, k \in S : <<i, j>> \in R /\ <<j, k>> \in R => <<i, k>> \in R
        /\ \A i, j \in S : i # j => <<i, j>> \in R \/ <<j, i>> \in R
    BY <1>2
  <1>5. /\ \A i \in S : Place(S, R, i) \in 1..Cardinality(S)
        /\ \A m \in 1..Cardinality(S) : \E i \in S : Place(S, R, i) = m
        /\ \A i, j \in S : <<i, j>> \in R => Place(S, R, i) < Place(S, R, j)
        /\ \A i, j \in S : Place(S, R, i) = Place(S, R, j) => i = j
    BY <1>4, RankIsBijection
  <1> HIDE DEF Before
  <1>6. ASSUME NEW i \in 1..Cardinality(S)
        PROVE  Nth(S, i) \in S /\ Place(S, R, Nth(S, i)) = i
    <2>1. PICK m \in S : Place(S, R, m) = i
      BY <1>5
    <2>2. Cardinality(Before(m)) = i - 1
      BY <1>1, <1>3, <2>1
    <2>3. Nth(S, i) \in S /\ Cardinality(Before(Nth(S, i))) = i - 1
      BY <2>2 DEF Nth, Before
    <2>4. PICK x \in S : x = Nth(S, i) /\ Cardinality(Before(x)) = i - 1
      BY <2>3
    <2>5. i \in Nat /\ Place(S, R, x) = Cardinality(Before(x)) + 1
      BY <1>1, <1>3
    <2> QED
      BY <2>4, <2>5
  <1>7. ASSUME NEW m \in S PROVE \E i \in 1..Cardinality(S) : Nth(S, i) = m
    <2>1. PICK i \in 1..Cardinality(S) : i = Place(S, R, m)
      BY <1>5
    <2> QED
      BY <1>5, <1>6, <2>1
  <1>8. \A i, k \in 1..Cardinality(S) : Nth(S, i) = Nth(S, k) => i = k
    BY <1>6
  <1> QED
    BY <1>1, <1>6, <1>7, <1>8

\* g holds the jobs after each of the first n markets.
SyncsTo(g, n, js, touched, catalog, mks, now) ==
    g = [k \in 0..n |->
            IF k = 0 THEN js
            ELSE LET m == Nth(touched, k)
                 IN  SyncedJobs(g[k - 1], m, catalog[m], mks[m], now)]

LEMMA SyncsExist ==
    ASSUME NEW N \in Nat, NEW js, NEW touched, NEW catalog, NEW mks, NEW now
    PROVE  \E g : SyncsTo(g, N, js, touched, catalog, mks, now)
  <1> DEFINE Bad == {n \in Nat : ~ \E g : SyncsTo(g, n, js, touched, catalog, mks, now)}
  <1>1. ASSUME Bad # {} PROVE FALSE
    <2>1. Bad \in SUBSET Nat
      OBVIOUS
    <2>2. PICK n \in Bad : \A m \in Bad : n <= m
      <3> HIDE DEF Bad
      <3> QED
        BY <1>1, <2>1, LeastNat
    <2>3. CASE n = 0
      <3> DEFINE g == [k \in 0..0 |-> js]
      <3>1. SyncsTo(g, 0, js, touched, catalog, mks, now)
        BY DEF SyncsTo
      <3> QED
        BY <2>2, <2>3, <3>1
    <2>4. CASE n # 0
      <3>1. n \in Nat /\ n - 1 \in Nat /\ n - 1 \notin Bad
        <4> HIDE DEF Bad
        <4> QED
          BY <2>1, <2>2, <2>4
      <3>2. PICK h : SyncsTo(h, n - 1, js, touched, catalog, mks, now)
        BY <3>1
      <3> DEFINE g == [k \in 0..n |->
                          IF k = 0 THEN js
                          ELSE LET m == Nth(touched, k)
                               IN  SyncedJobs(h[k - 1], m, catalog[m], mks[m], now)]
      <3>3. ASSUME NEW k \in 0..(n - 1) PROVE g[k] = h[k]
        BY <3>1, <3>2 DEF SyncsTo
      <3>4. ASSUME NEW k \in 0..n, k # 0 PROVE g[k - 1] = h[k - 1]
        <4>1. k - 1 \in 0..(n - 1)
          BY <3>1, <3>4
        <4> HIDE DEF g
        <4> QED
          BY <3>3, <4>1
      <3>5. SyncsTo(g, n, js, touched, catalog, mks, now)
        BY <3>4 DEF SyncsTo
      <3> QED
        BY <3>5
    <2> QED
      BY <2>3, <2>4
  <1> QED
    BY <1>1

\* After every market the jobs follow those of before the sync, and the
\* markets taken so far that are off are quiet.
LEMMA SyncsIs ==
    ASSUME NEW js, NEW touched \in SUBSET Markets, NEW catalog, NEW mks, NEW now,
           NEW ans, NEW cand, NEW g, Jobs(js, ans, cand),
           SyncsTo(g, Cardinality(touched), js, touched, catalog, mks, now),
           \A m \in touched : (Off(mks[m]) /\ catalog[m] = "tradable") => Quiet(js, m)
    PROVE  /\ Follows(js, g[Cardinality(touched)], touched, ans, cand)
           /\ \A m \in touched : Off(mks[m]) => Quiet(g[Cardinality(touched)], m)
  <1>1. touched \in SUBSET Nat /\ IsFiniteSet(touched)
    BY BackfillAssumption, FS_Subset
  <1>2. PICK N \in Nat : N = Cardinality(touched)
    BY <1>1, FS_CardinalityType
  <1>3. /\ \A i \in 1..N : Nth(touched, i) \in touched
        /\ \A i, k \in 1..N : Nth(touched, i) = Nth(touched, k) => i = k
        /\ \A m \in touched : \E i \in 1..N : Nth(touched, i) = m
    BY <1>1, <1>2, NthIs
  <1>4. g[0] = js
    BY <1>2 DEF SyncsTo
  <1> DEFINE Seen(k) == {Nth(touched, i) : i \in 1..k}
             Good(k) == /\ Follows(js, g[k], Seen(k), ans, cand)
                        /\ \A m \in Seen(k) : Off(mks[m]) => Quiet(g[k], m)
             Bad == {k \in Nat : k <= N /\ ~Good(k)}
  <1>5. Good(0)
    <2>1. Seen(0) = {}
      OBVIOUS
    <2>2. Follows(js, g[0], {}, ans, cand)
      BY <1>4, FollowsItself
    <2> HIDE DEF Seen
    <2> QED
      BY <2>1, <2>2
  <1>6. ASSUME NEW k \in Nat, k # 0, k <= N, Good(k - 1) PROVE Good(k)
    <2>1. PICK m, js1, js2 : m = Nth(touched, k) /\ js1 = g[k - 1] /\ js2 = g[k]
      OBVIOUS
    <2>2. k \in 1..N /\ k \in 0..N
      BY <1>2, <1>6
    <2>3. m \in touched /\ m \in Markets
      BY <1>3, <2>1, <2>2
    <2>4. js2 = SyncedJobs(js1, m, catalog[m], mks[m], now)
      BY <1>2, <1>6, <2>1, <2>2 DEF SyncsTo
    <2>5. Seen(k) = Seen(k - 1) \cup {m}
      <3>1. 1..k = 1..(k - 1) \cup {k}
        BY <1>6
      <3> QED
        BY <2>1, <3>1
    <2>6. m \notin Seen(k - 1)
      <3>1. ASSUME NEW i \in 1..(k - 1) PROVE Nth(touched, i) # m
        <4>1. i \in 1..N /\ i # k
          BY <1>2, <1>6
        <4> QED
          BY <1>3, <2>1, <2>2, <4>1
      <3> QED
        BY <3>1
    <2>7. PICK seen : seen = Seen(k - 1)
      OBVIOUS
    <2> HIDE DEF Seen
    <2>8. Follows(js, js1, seen, ans, cand) /\ \A x \in seen : Off(mks[x]) => Quiet(js1, x)
      BY <1>6, <2>1, <2>7
    <2>9. PICK item, mk : item = catalog[m] /\ mk = mks[m]
      OBVIOUS
    <2>10. Jobs(js1, ans, cand)
      BY <2>8 DEF Follows
    <2>11. (Off(mk) /\ item = "tradable") => Quiet(js1, m)
      BY <2>3, <2>6, <2>7, <2>8, <2>9 DEF Follows
    <2>12. /\ Follows(js1, js2, {m}, ans, cand)
           /\ Off(mk) => Quiet(js2, m)
      BY <2>3, <2>4, <2>9, <2>10, <2>11, SyncedIs
    <2>13. Follows(js, js2, seen \cup {m}, ans, cand)
      <3>1. PICK back : back = {m}
        OBVIOUS
      <3>2. Follows(js1, js2, back, ans, cand)
        BY <2>12, <3>1
      <3>3. Follows(js, js2, seen \cup back, ans, cand)
        BY <2>8, <3>2, FollowsTwice
      <3> QED
        BY <3>1, <3>3
    <2>14. ASSUME NEW x \in seen \cup {m}, Off(mks[x]) PROVE Quiet(js2, x)
      <3>1. CASE x = m
        BY <2>9, <2>12, <2>14, <3>1
      <3>2. CASE x # m
        <4>1. x \in seen /\ Quiet(js1, x)
          BY <2>8, <2>14, <3>2
        <4>2. x \in Markets
          BY <4>1, <2>7, <1>2, <1>3, <1>6 DEF Seen
        <4> QED
          BY <2>12, <3>2, <4>1, <4>2 DEF Follows
      <3> QED
        BY <3>1, <3>2
    <2> QED
      BY <2>1, <2>5, <2>7, <2>13, <2>14
  <1>7. Good(N)
    <2> SUFFICES ASSUME ~Good(N) PROVE FALSE
      OBVIOUS
    <2>1. Bad \in SUBSET Nat /\ N \in Bad
      <3> HIDE DEF Good
      <3> QED
        BY <1>2
    <2>2. PICK k \in Bad : \A x \in Bad : k <= x
      <3> HIDE DEF Bad
      <3> QED
        BY <2>1, LeastNat
    <2>3. k \in Nat /\ k <= N /\ ~Good(k)
      <3> HIDE DEF Good
      <3> QED
        BY <2>2
    <2>4. k # 0
      BY <1>5, <2>3
    <2>5. k - 1 \in Nat /\ k - 1 <= N /\ k - 1 \notin Bad
      <3> HIDE DEF Bad
      <3> QED
        BY <1>2, <2>1, <2>2, <2>3, <2>4
    <2> HIDE DEF Good
    <2>6. Good(k - 1)
      BY <2>5
    <2> QED
      BY <1>6, <2>3, <2>4, <2>6
  <1>8. Seen(N) = touched
    BY <1>3
  <1> HIDE DEF Seen
  <1> QED
    BY <1>2, <1>7, <1>8

-----------------------------------------------------------------------------
(* A step of the whole.                                                    *)

\* What a worker remembers stays true while jobs are added and answers stored.
LEMMA MemoryKept ==
    ASSUME NEW me, NEW js, NEW js2, NEW ans, NEW cand, NEW ans2, NEW cand2,
           Jobs(js, ans, cand), Memory(me, js, ans, cand), Grown(js, js2),
           \A m \in Markets : ans[m] \subseteq ans2[m] /\ cand[m] \subseteq cand2[m]
    PROVE  Memory(me, js2, ans2, cand2)
  <1>1. /\ DOMAIN me = MemoryFields
        /\ me.pc \in {"idle", "targets"} \cup AtTarget
    BY DEF Memory
  <1>2. ASSUME me.pc # "idle"
        PROVE  /\ me.job \in DOMAIN js /\ me.job \in DOMAIN js2
               /\ me.todo \in [DOMAIN me.todo -> AllTargets]
               /\ DOMAIN me.todo \subseteq DOMAIN js2[me.job].targets
               /\ JobSlots(js2[me.job]) = JobSlots(js[me.job])
               /\ DOMAIN js[me.job].targets \subseteq DOMAIN js2[me.job].targets
               /\ DOMAIN js[me.job].targets \subseteq Markets
    <2>1. /\ me.job \in DOMAIN js /\ me.todo \in [DOMAIN me.todo -> AllTargets]
          /\ DOMAIN me.todo \subseteq DOMAIN js[me.job].targets
      BY <1>2 DEF Memory
    <2>2. PICK old, new : old = js[me.job] /\ new = js2[me.job]
      OBVIOUS
    <2>3. /\ me.job \in DOMAIN js2 /\ new.lo = old.lo /\ new.hi = old.hi
          /\ DOMAIN old.targets \subseteq DOMAIN new.targets
      BY <2>1, <2>2 DEF Grown
    <2>4. JobSlots(new) = JobSlots(old)
      BY <2>3, SameSlots
    <2>5. DOMAIN old.targets \subseteq Markets
      BY <2>1, <2>2 DEF Jobs, JobOK, IsJob
    <2> QED
      BY <2>1, <2>2, <2>3, <2>4, <2>5
  <1>3. me.pc \in AtTarget => me.at \in DOMAIN js[me.job].targets /\ me.pc # "idle"
    BY DEF Memory, AtTarget
  <1>4. ASSUME me.pc \in {"range", "fetch", "progress", "succeed"}
        PROVE  JobSlots(js2[me.job]) \subseteq ans2[me.at] \cup cand2[me.at] \cup Left(me)
    <2>1. JobSlots(js[me.job]) \subseteq ans[me.at] \cup cand[me.at] \cup Left(me)
      BY <1>4 DEF Memory
    <2>2. me.pc \in AtTarget
      BY <1>4 DEF AtTarget
    <2>3. me.at \in Markets /\ JobSlots(js2[me.job]) = JobSlots(js[me.job])
      BY <1>2, <1>3, <2>2
    <2>4. ans[me.at] \subseteq ans2[me.at] /\ cand[me.at] \subseteq cand2[me.at]
      BY <2>3
    <2> QED
      BY <2>1, <2>3, <2>4
  <1>5. me.pc \in AtTarget => me.at \in DOMAIN js2[me.job].targets
    BY <1>2, <1>3
  <1> QED
    BY <1>1, <1>2, <1>4, <1>5 DEF Memory

\* The invariant is kept by a step whose jobs follow those before.
LEMMA Assemble ==
    ASSUME IInv, Tables', Console', Follows(jobs, jobs', Markets, answered', candles'),
           \A m \in Markets : answered[m] \subseteq answered'[m] /\ candles[m] \subseteq candles'[m],
           \A m \in Markets : Off(market'[m]) => Quiet(jobs', m),
           worker' = [w \in Workers |-> worker'[w]],
           \A w \in Workers : \/ worker'[w] = worker[w]
                              \/ Memory(worker'[w], jobs', answered', candles')
    PROVE  IInv'
  <1>1. PICK js2, ans2, cand2 : js2 = jobs' /\ ans2 = answered' /\ cand2 = candles'
    OBVIOUS
  <1>2. Jobs(js2, ans2, cand2) /\ Grown(jobs, js2) /\ (OneOpen(jobs) => OneOpen(js2))
    BY <1>1 DEF Follows
  <1>3. ASSUME NEW w \in Workers PROVE Memory(worker'[w], js2, ans2, cand2)
    <2>1. CASE worker'[w] = worker[w]
      <3>1. PICK me : me = worker[w]
        OBVIOUS
      <3>2. Memory(me, jobs, answered, candles) /\ Jobs(jobs, answered, candles)
        BY <3>1 DEF IInv
      <3>3. \A m \in Markets : answered[m] \subseteq ans2[m] /\ candles[m] \subseteq cand2[m]
        BY <1>1
      <3>4. Memory(me, js2, ans2, cand2)
        BY <1>2, <3>2, <3>3, MemoryKept
      <3> QED
        BY <2>1, <3>1, <3>4
    <2>2. CASE Memory(worker'[w], jobs', answered', candles')
      BY <1>1, <2>2
    <2> QED
      BY <2>1, <2>2
  <1>4. OneOpen(jobs)
    BY DEF IInv
  <1> QED
    BY <1>1, <1>2, <1>3, <1>4 DEF IInv

\* The same where the markets, the candles and the answers stay.
LEMMA AssembleJobs ==
    ASSUME IInv, UNCHANGED <<market, candles, answered>>,
           Follows(jobs, jobs', {}, answered, candles),
           UNCHANGED console \/ Console',
           worker' = [w \in Workers |-> worker'[w]],
           \A w \in Workers : \/ worker'[w] = worker[w]
                              \/ Memory(worker'[w], jobs', answered, candles)
    PROVE  IInv'
  <1>1. Tables'
    BY DEF IInv, Tables
  <1>2. Console'
    BY DEF IInv, Console, Follows, Grown
  <1>3. Follows(jobs, jobs', Markets, answered', candles')
    BY DEF Follows
  <1>4. \A m \in Markets : answered[m] \subseteq answered'[m] /\ candles[m] \subseteq candles'[m]
    OBVIOUS
  <1>5. \A m \in Markets : Off(market'[m]) => Quiet(jobs', m)
    BY DEF IInv, Follows
  <1>6. \A w \in Workers : \/ worker'[w] = worker[w]
                           \/ Memory(worker'[w], jobs', answered', candles')
    OBVIOUS
  <1> QED
    BY <1>1, <1>2, <1>3, <1>4, <1>5, <1>6, Assemble

-----------------------------------------------------------------------------
(* The steps of the catalog.                                               *)

LEMMA SyncStep == ASSUME IInv, SyncMarketCatalog PROVE IInv'
  <1>1. PICK catalog, touched :
            /\ touched = {m \in Markets : Touched(m, catalog[m])}
            /\ market' = [m \in Markets |->
                   IF m \in touched THEN Observed(market[m], catalog[m]) ELSE market[m]]
            /\ jobs' = SyncedAll(touched, catalog)
            /\ UNCHANGED <<candles, answered, worker, console>>
    BY DEF SyncMarketCatalog
  <1>2. touched \in SUBSET Markets
    BY <1>1
  <1>3. PICK js, mks, now : js = jobs /\ mks = market' /\ now = clock'
    OBVIOUS
  <1>4. PICK N \in Nat : N = Cardinality(touched)
    BY <1>2, BackfillAssumption, FS_Subset, FS_CardinalityType
  <1>5. PICK g : SyncsTo(g, N, js, touched, catalog, mks, now) /\ jobs' = g[N]
    <2> DEFINE it == CHOOSE g : SyncsTo(g, N, js, touched, catalog, mks, now)
    <2>1. SyncsTo(it, N, js, touched, catalog, mks, now)
      BY SyncsExist
    <2>2. SyncedAll(touched, catalog) = it[N]
      BY <1>3, <1>4 DEF SyncedAll, SyncsTo
    <2> HIDE DEF it
    <2> QED
      BY <1>1, <2>1, <2>2
  <1>6. ASSUME NEW m \in Markets
        PROVE  /\ IsMarket(market'[m])
               /\ m \notin touched => market'[m] = market[m]
               /\ (m \in touched /\ Off(market'[m]) /\ catalog[m] = "tradable") => Off(market[m])
    <2>1. PICK mk, item : mk = market[m] /\ item = catalog[m]
      OBVIOUS
    <2>2. IsMarket(mk)
      BY <2>1 DEF IInv, Tables
    <2>3. /\ IsMarket(Observed(mk, item))
          /\ (Off(Observed(mk, item)) /\ item = "tradable") => Off(mk)
      BY <2>2, ObservedIs
    <2>4. market'[m] = IF m \in touched THEN Observed(mk, item) ELSE mk
      BY <1>1, <2>1
    <2> QED
      BY <2>1, <2>2, <2>3, <2>4
  <1>7. Jobs(js, answered, candles)
    BY <1>3 DEF IInv
  <1>8. \A m \in touched : (Off(mks[m]) /\ catalog[m] = "tradable") => Quiet(js, m)
    BY <1>2, <1>3, <1>6 DEF IInv
  <1>9. /\ Follows(js, g[N], touched, answered, candles)
        /\ \A m \in touched : Off(mks[m]) => Quiet(g[N], m)
    BY <1>2, <1>4, <1>5, <1>7, <1>8, SyncsIs
  <1>10. Follows(jobs, jobs', Markets, answered', candles')
    BY <1>1, <1>3, <1>5, <1>9 DEF Follows
  <1>11. ASSUME NEW m \in Markets, Off(market'[m]) PROVE Quiet(jobs', m)
    <2>1. CASE m \in touched
      BY <1>3, <1>5, <1>9, <1>11, <2>1
    <2>2. CASE m \notin touched
      <3>1. Quiet(jobs, m)
        BY <1>6, <1>11, <2>2 DEF IInv
      <3> QED
        BY <1>3, <1>5, <1>9, <2>2, <3>1 DEF Follows
    <2> QED
      BY <2>1, <2>2
  <1>12. Tables'
    <2>1. DOMAIN market' = Markets /\ market' = [m \in Markets |-> market'[m]]
      BY <1>1
    <2> QED
      BY <1>1, <1>6, <2>1 DEF IInv, Tables
  <1>13. Console'
    BY <1>1, <1>10 DEF IInv, Console, Follows, Grown
  <1>14. \A m \in Markets : answered[m] \subseteq answered'[m] /\ candles[m] \subseteq candles'[m]
    BY <1>1
  <1>15. worker' = [w \in Workers |-> worker'[w]] /\ \A w \in Workers : worker'[w] = worker[w]
    BY <1>1 DEF IInv
  <1> QED
    BY <1>10, <1>11, <1>12, <1>13, <1>14, <1>15, Assemble

\* A market an operator has set: it is on when the state is active and the
\* policy takes the source candles.
LEMMA ConfiguredIs ==
    ASSUME NEW mk, IsMarket(mk), NEW policy, NEW state \in {"active", "paused", "excluded"}
    PROVE  /\ IsMarket(Configured(mk, policy, state))
           /\ Configured(mk, policy, state).status["source_candle"] =
                  IF Selected(mk, policy, "source_candle") THEN state ELSE "paused"
  <1> DEFINE sel == [d \in Types |-> Selected(mk, policy, d)]
             start == IF policy = None THEN mk.start ELSE policy.start
             cont == IF policy = None THEN mk.cont ELSE policy.cont
             changed == [d \in Types |->
                            \/ (mk.reason[d] # "policy_disabled") # sel[d]
                            \/ sel[d] /\ <<mk.start, mk.cont>> # <<start, cont>>]
             desire == [d \in Types |-> sel[d] /\ state = "active" /\ cont]
             status == [d \in Types |-> IF sel[d] THEN state ELSE "paused"]
             reason == [d \in Types |->
                           IF ~sel[d] THEN "policy_disabled"
                           ELSE CASE state = "active" -> None
                                  [] state = "paused" -> "operator_paused"
                                  [] state = "excluded" -> "operator_excluded"]
             gen == [d \in Types |-> IF mk.desire[d] # desire[d] \/ changed[d]
                                     THEN mk.gen[d] + 1 ELSE mk.gen[d]]
  <1>1. "source_candle" \in Types
    BY DEF Types
  <1>2. status["source_candle"] # "active" => ~desire["source_candle"]
    BY <1>1
  <1>3. status["source_candle"] =
            IF Selected(mk, policy, "source_candle") THEN state ELSE "paused"
    BY <1>1
  <1>4. DOMAIN status = Types /\ DOMAIN reason = Types /\ DOMAIN desire = Types
    OBVIOUS
  <1>5. ASSUME reason["source_candle"] = "policy_disabled" PROVE status["source_candle"] # "active"
    <2>1. CASE sel["source_candle"]
      <3>1. reason["source_candle"] =
                CASE state = "active" -> None
                  [] state = "paused" -> "operator_paused"
                  [] state = "excluded" -> "operator_excluded"
        BY <1>1, <2>1
      <3> HIDE DEF reason
      <3> QED
        BY <1>5, <3>1, DataFoundationAssumption
    <2>2. CASE ~sel["source_candle"]
      BY <1>1, <2>2
    <2> QED
      BY <2>1, <2>2
  <1>6. Configured(mk, policy, state) =
            [mk EXCEPT !.auto = FALSE, !.start = start, !.cont = cont, !.status = status,
                       !.reason = reason, !.desire = desire, !.gen = gen,
                       !.legacy = state = "active"]
    BY DEF Configured
  <1> HIDE DEF sel, start, cont, changed, desire, status, reason, gen
  <1>7. PICK next : next = Configured(mk, policy, state)
    OBVIOUS
  <1>8. /\ DOMAIN next = MarketFields /\ next.status = status /\ next.reason = reason
        /\ next.desire = desire
    BY <1>6, <1>7 DEF IsMarket, MarketFields
  <1>9. IsMarket(next)
    BY <1>2, <1>4, <1>5, <1>8 DEF IsMarket
  <1> QED
    BY <1>3, <1>7, <1>8, <1>9

LEMMA TargetStateStep ==
    ASSUME IInv, NEW m \in Markets, SetMarketTargetState(m)
    PROVE  IInv'
  <1>1. UNCHANGED <<clock, rows, worker, console>>
    BY DEF SetMarketTargetState
  <1>2. PICK state \in {"active", "paused", "excluded"}, policy \in Policies \cup {None} :
            LET mk == market[m]
                next == Configured(mk, policy, state)
                cleared == IF policy # None /\ PolicyChanged(mk, policy)
                           THEN Superseded(jobs, m) ELSE jobs
                moved == IF state = "active"
                         THEN Resumed(cleared, m, next.status["source_candle"] = "active")
                         ELSE Withdrawn(cleared, m, state)
            IN  /\ market' = [market EXCEPT ![m] = next]
                /\ jobs' = IF /\ Selected(mk, policy, "source_candle")
                              /\ state = "active"
                              /\ policy # None \/ mk.status["source_candle"] = "excluded"
                           THEN Ensured(moved, m, PolicyKey(m, next), next.start, clock)
                           ELSE moved
    BY Zenon DEF SetMarketTargetState
  <1>3. PICK mk : mk = market[m]
    OBVIOUS
  <1>4. PICK next : next = Configured(mk, policy, state)
    OBVIOUS
  <1>5. PICK cleared : cleared = IF policy # None /\ PolicyChanged(mk, policy)
                                  THEN Superseded(jobs, m) ELSE jobs
    OBVIOUS
  <1>6. PICK moved : moved = IF state = "active"
                              THEN Resumed(cleared, m, next.status["source_candle"] = "active")
                              ELSE Withdrawn(cleared, m, state)
    OBVIOUS
  <1>7. /\ mk = market[m] /\ next = Configured(mk, policy, state)
        /\ cleared = IF policy # None /\ PolicyChanged(mk, policy)
                     THEN Superseded(jobs, m) ELSE jobs
        /\ moved = IF state = "active"
                   THEN Resumed(cleared, m, next.status["source_candle"] = "active")
                   ELSE Withdrawn(cleared, m, state)
        /\ market' = [market EXCEPT ![m] = next]
        /\ jobs' = IF /\ Selected(mk, policy, "source_candle")
                      /\ state = "active"
                      /\ policy # None \/ mk.status["source_candle"] = "excluded"
                   THEN Ensured(moved, m, PolicyKey(m, next), next.start, clock)
                   ELSE moved
        /\ UNCHANGED <<clock, rows, worker, console>>
    BY <1>1, <1>2, <1>3, <1>4, <1>5, <1>6
  <1>8. IsMarket(mk) /\ (Off(mk) => Quiet(jobs, m)) /\ Jobs(jobs, answered, candles)
    BY <1>7 DEF IInv, Tables
  <1>9. /\ IsMarket(next)
        /\ next.status["source_candle"] =
               IF Selected(mk, policy, "source_candle") THEN state ELSE "paused"
    BY <1>7, <1>8, ConfiguredIs
  <1>10. PICK js, ans, cand : js = jobs /\ ans = answered /\ cand = candles
    OBVIOUS
  <1>11. Jobs(js, ans, cand)
    BY <1>8, <1>10
  <1>12. Follows(js, cleared, {}, ans, cand)
    <2>1. Follows(js, Superseded(js, m), {}, ans, cand)
      BY <1>11, SupersededIs
    <2>2. Follows(js, js, {}, ans, cand)
      BY <1>11, FollowsItself
    <2> QED
      BY <1>7, <1>10, <2>1, <2>2
  <1>13. Jobs(cleared, ans, cand)
    BY <1>12 DEF Follows
  <1> DEFINE Moves == /\ Follows(js, jobs', {m}, ans, cand)
                      /\ Off(next) => Quiet(jobs', m)
  <1>14. ASSUME state # "active" PROVE Moves
    <2>1. /\ Follows(cleared, Withdrawn(cleared, m, state), {}, ans, cand)
          /\ Quiet(Withdrawn(cleared, m, state), m)
      BY <1>13, WithdrawnIs
    <2>2. jobs' = Withdrawn(cleared, m, state)
      BY <1>7, <1>14
    <2>3. Follows(js, jobs', {} \cup {}, ans, cand)
      BY <1>12, <2>1, <2>2, FollowsTwice
    <2> QED
      BY <2>1, <2>2, <2>3 DEF Follows
  <1>15. ASSUME state = "active", ~Selected(mk, policy, "source_candle") PROVE Moves
    <2>1. jobs' = Resumed(cleared, m, FALSE)
      BY <1>7, <1>9, <1>15
    <2>2. Follows(cleared, Resumed(cleared, m, FALSE), {}, ans, cand)
      BY <1>13, ResumedIs
    <2>3. Quiet(cleared, m)
      <3>1. CASE policy # None /\ PolicyChanged(mk, policy)
        <4>1. cleared = Superseded(jobs, m)
          BY <1>7, <3>1
        <4>2. Quiet(Superseded(js, m), m)
          BY <1>11, SupersededIs
        <4> QED
          BY <1>10, <4>1, <4>2
      <3>2. CASE ~(policy # None /\ PolicyChanged(mk, policy))
        <4>1. mk.reason["source_candle"] = "policy_disabled"
          BY <1>15, <3>2 DEF Selected, PolicyChanged
        <4>2. Off(mk)
          BY <1>8, <4>1 DEF IsMarket, Off
        <4> QED
          BY <1>7, <1>8, <3>2, <4>2
      <3> QED
        BY <3>1, <3>2
    <2>4. Follows(js, jobs', {} \cup {}, ans, cand)
      BY <1>12, <2>1, <2>2, FollowsTwice
    <2> QED
      BY <2>1, <2>2, <2>3, <2>4 DEF Follows
  <1>16. ASSUME state = "active", Selected(mk, policy, "source_candle") PROVE Moves
    <2>1. moved = Resumed(cleared, m, TRUE)
      BY <1>7, <1>9, <1>16
    <2>2. PICK back : back = {m}
      OBVIOUS
    <2>3. m \in back
      BY <2>2
    <2>4. Follows(cleared, Resumed(cleared, m, TRUE), back, ans, cand)
      BY <1>13, <2>3, ResumedIs
    <2>5. Follows(cleared, moved, back, ans, cand)
      BY <2>1, <2>4
    <2>6. Jobs(moved, ans, cand)
      BY <2>5 DEF Follows
    <2>7. Follows(moved, jobs', back, ans, cand)
      <3>1. PICK key, lo, hi : key = PolicyKey(m, next) /\ lo = next.start /\ hi = clock
        OBVIOUS
      <3>2. Follows(moved, Ensured(moved, m, key, lo, hi), {m}, ans, cand)
        BY <2>6, EnsuredIs
      <3>3. Follows(moved, moved, {}, ans, cand)
        BY <2>6, FollowsItself
      <3>4. jobs' = Ensured(moved, m, key, lo, hi) \/ jobs' = moved
        BY <1>7, <3>1
      <3> QED
        BY <2>2, <3>2, <3>3, <3>4 DEF Follows
    <2>8. Follows(js, moved, {} \cup back, ans, cand)
      BY <1>12, <2>5, FollowsTwice
    <2>9. PICK b : b = {} \cup back
      OBVIOUS
    <2>10. Follows(js, jobs', b \cup back, ans, cand)
      BY <2>7, <2>8, <2>9, FollowsTwice
    <2>11. ~Off(next)
      BY <1>9, <1>16 DEF Off
    <2>12. b \cup back = {m}
      BY <2>2, <2>9
    <2> QED
      BY <2>10, <2>11, <2>12
  <1>17. Moves
    BY <1>14, <1>15, <1>16
  <1>18. Follows(jobs, jobs', Markets, answered', candles')
    BY <1>7, <1>10, <1>17 DEF Follows, rows
  <1>19. ASSUME NEW x \in Markets, Off(market'[x]) PROVE Quiet(jobs', x)
    <2>1. DOMAIN market = Markets
      BY DEF IInv, Tables
    <2>2. CASE x = m
      BY <1>7, <1>17, <1>19, <2>1, <2>2
    <2>3. CASE x # m
      <3>1. Quiet(jobs, x)
        BY <1>7, <1>19, <2>1, <2>3 DEF IInv
      <3> QED
        BY <1>10, <1>17, <2>3, <3>1 DEF Follows
    <2> QED
      BY <2>2, <2>3
  <1>20. Tables'
    <2>1. DOMAIN market = Markets /\ \A x \in Markets : IsMarket(market[x])
      BY DEF IInv, Tables
    <2>2. DOMAIN market' = Markets /\ market' = [x \in Markets |-> market'[x]]
      BY <1>7, <2>1
    <2>3. \A x \in Markets : IsMarket(market'[x])
      BY <1>7, <1>9, <2>1
    <2> QED
      BY <1>7, <2>2, <2>3 DEF IInv, Tables, rows
  <1>21. Console'
    BY <1>7, <1>18 DEF IInv, Console, Follows, Grown
  <1>22. \A x \in Markets : answered[x] \subseteq answered'[x] /\ candles[x] \subseteq candles'[x]
    BY <1>7 DEF rows
  <1>23. worker' = [w \in Workers |-> worker'[w]] /\ \A w \in Workers : worker'[w] = worker[w]
    BY <1>7 DEF IInv
  <1> QED
    BY <1>18, <1>19, <1>20, <1>21, <1>22, <1>23, Assemble

-----------------------------------------------------------------------------
(* The steps of the operator.                                              *)

\* A plan is made, or left, and nothing else changes than jobs and console.
LEMMA CreateStep == ASSUME IInv, CreatePlan PROVE IInv'
  <1>1. PICK p \in Plans :
            /\ \A m \in p.targets : ~Conflict(m, DOMAIN jobs)
            /\ jobs' = Append(jobs, NewJob(p.targets, TRUE, None, p.lo, p.hi))
            /\ UNCHANGED <<market, rows, worker, console>>
    BY DEF CreatePlan
  <1>2. PICK plan, lo, hi : plan = p.targets /\ lo = p.lo /\ hi = p.hi
    OBVIOUS
  <1>3. plan \subseteq Markets
    BY <1>2, BackfillAssumption
  <1>4. PICK job : job = NewJob(plan, TRUE, None, lo, hi)
    OBVIOUS
  <1>5. /\ DOMAIN job = JobFields /\ job.status = "planned"
        /\ job.manual = TRUE /\ job.forced = FALSE /\ job.plan = plan /\ job.tries \in Nat
        /\ job.targets = <<>>
    BY <1>4 DEF NewJob, JobFields
  <1>6. DOMAIN job.targets = {} /\ job.targets \in [DOMAIN job.targets -> AllTargets]
    BY <1>5
  <1>7. IsJob(job)
    BY <1>3, <1>5, <1>6, Words DEF IsJob
  <1>8. JobOK(job, answered, candles)
    BY <1>5, <1>6, <1>7 DEF JobOK
  <1>9. Jobs(jobs, answered, candles)
    BY DEF IInv
  <1>10. ASSUME NEW m \in Markets, HoldsOpen(job, m), NEW j \in DOMAIN jobs, Keeps(jobs[j])
         PROVE  ~HoldsOpen(jobs[j], m)
    <2>1. m \in plan
      BY <1>5, <1>6, <1>10 DEF HoldsOpen, TargetsIn
    <2>2. j \in OpenJobs(jobs) /\ IsJob(jobs[j])
      BY <1>9, <1>10 DEF Keeps, OpenJobs, Jobs, JobOK
    <2>3. m \notin jobs[j].plan
      BY <1>1, <1>2, <2>1, <2>2 DEF Conflict
    <2> QED
      BY <2>2, <2>3 DEF HoldsOpen, TargetsIn, IsJob
  <1>11. /\ Jobs(Append(jobs, job), answered, candles) /\ Grown(jobs, Append(jobs, job))
         /\ OneOpen(jobs) => OneOpen(Append(jobs, job))
         /\ \A m \in Markets : (Quiet(jobs, m) /\ QuietJob(job, m)) => Quiet(Append(jobs, job), m)
    BY <1>8, <1>9, <1>10, OneAdded
  <1>12. Follows(jobs, jobs', {}, answered, candles)
    BY <1>1, <1>2, <1>4, <1>5, <1>11 DEF Follows, QuietJob
  <1>13. worker' = [w \in Workers |-> worker'[w]] /\ \A w \in Workers : worker'[w] = worker[w]
    BY <1>1 DEF IInv
  <1>14. UNCHANGED <<market, candles, answered>> /\ UNCHANGED console
    BY <1>1 DEF rows
  <1> QED
    BY <1>12, <1>13, <1>14, AssembleJobs

\* An approved plan holds its markets alone.
LEMMA ApproveStep == ASSUME IInv, NEW i \in DOMAIN jobs, ApprovePlan(i) PROVE IInv'
  <1>1. PICK job, new :
            /\ job = jobs[i]
            /\ new = [job EXCEPT !.status = "pending", !.targets = [m \in job.plan |-> "pending"]]
    OBVIOUS
  <1>2. /\ job.status = "planned"
        /\ \A m \in job.plan : ~Conflict(m, DOMAIN jobs \ {i})
        /\ jobs' = [jobs EXCEPT ![i] = new]
        /\ UNCHANGED <<market, rows, worker, console>>
    BY <1>1 DEF ApprovePlan
  <1>3. /\ Jobs(jobs, answered, candles) /\ IsJob(job) /\ job.manual
    BY <1>1, <1>2 DEF IInv, Jobs, JobOK
  <1>4. /\ DOMAIN new = JobFields /\ new.status = "pending"
        /\ new.manual = job.manual /\ new.forced = job.forced /\ new.plan = job.plan
        /\ new.tries = job.tries /\ new.lo = job.lo /\ new.hi = job.hi
        /\ new.targets = [m \in job.plan |-> "pending"]
    BY <1>1, <1>3 DEF IsJob, JobFields
  <1>5. IsJob(new)
    BY <1>3, <1>4, Words DEF IsJob
  <1>6. JobOK(new, answered, candles)
    BY <1>4, <1>5 DEF JobOK
  <1>7. /\ DOMAIN jobs' = DOMAIN jobs /\ jobs'[i] = new
        /\ \A j \in DOMAIN jobs : j # i => jobs'[j] = jobs[j]
    BY <1>2
  <1>8. Jobs(jobs', answered, candles)
    <2>1. PICK js, js2 : js = jobs /\ js2 = jobs'
      OBVIOUS
    <2>2. js \in Seq({js[j] : j \in DOMAIN js})
      BY <1>3, <2>1 DEF Jobs
    <2>3. js2 = [j \in DOMAIN js |-> js2[j]]
      BY <1>2, <2>1
    <2>4. js2 \in Seq({js2[j] : j \in DOMAIN js2})
      BY <2>2, <2>3, SameDomain
    <2>5. \A j \in DOMAIN js2 : JobOK(js2[j], answered, candles)
      BY <1>3, <1>6, <1>7, <2>1 DEF Jobs
    <2> QED
      BY <2>1, <2>4, <2>5 DEF Jobs
  <1>9. Grown(jobs, jobs')
    <2>1. /\ new.lo = job.lo /\ new.hi = job.hi /\ DOMAIN job.targets \subseteq DOMAIN new.targets
      BY <1>3, <1>4 DEF IsJob
    <2> QED
      BY <1>1, <1>7, <2>1 DEF Grown
  <1>10. ASSUME NEW j \in DOMAIN jobs, j # i, NEW m \in Markets,
                Keeps(jobs[j]), HoldsOpen(jobs[j], m), HoldsOpen(new, m)
         PROVE  FALSE
    <2>1. m \in job.plan
      BY <1>4, <1>10 DEF HoldsOpen, TargetsIn
    <2>2. m \in jobs[j].plan /\ j \in OpenJobs(jobs) \cap (DOMAIN jobs \ {i})
      BY <1>3, <1>10 DEF HoldsOpen, TargetsIn, Keeps, OpenJobs, Jobs, JobOK, IsJob
    <2> QED
      BY <1>2, <2>1, <2>2 DEF Conflict
  <1>11. OneOpen(jobs) => OneOpen(jobs')
    BY <1>7, <1>10 DEF OneOpen
  <1>12. \A m \in Markets : Quiet(jobs, m) => Quiet(jobs', m)
    BY <1>3, <1>4, <1>7 DEF Quiet, QuietJob
  <1>13. Follows(jobs, jobs', {}, answered, candles)
    BY <1>8, <1>9, <1>11, <1>12 DEF Follows
  <1>14. worker' = [w \in Workers |-> worker'[w]] /\ \A w \in Workers : worker'[w] = worker[w]
    BY <1>2 DEF IInv
  <1>15. UNCHANGED <<market, candles, answered>> /\ UNCHANGED console
    BY <1>2 DEF rows
  <1> QED
    BY <1>13, <1>14, <1>15, AssembleJobs

\* A step that changes one job as an operation may, and no worker.
LEMMA OneJobStep ==
    ASSUME IInv, NEW i \in DOMAIN jobs, NEW job, jobs' = [jobs EXCEPT ![i] = job],
           Changed(jobs[i], job, {}), Earned(jobs[i], job, answered, candles),
           UNCHANGED <<market, candles, answered>>,
           UNCHANGED console \/ Console',
           worker' = [w \in Workers |-> worker'[w]],
           \A w \in Workers : \/ worker'[w] = worker[w]
                              \/ Memory(worker'[w], jobs', answered, candles)
    PROVE  IInv'
  <1>1. PICK js, js2, ans, cand : js = jobs /\ js2 = jobs' /\ ans = answered /\ cand = candles
    OBVIOUS
  <1>2. PICK back : back = {}
    OBVIOUS
  <1>3. /\ Jobs(js, ans, cand) /\ js2 = [js EXCEPT ![i] = job]
        /\ Changed(js[i], job, back) /\ Earned(js[i], job, ans, cand) /\ i \in DOMAIN js
    BY <1>1, <1>2 DEF IInv
  <1>4. /\ Jobs(js2, ans, cand) /\ Grown(js, js2) /\ DOMAIN js2 = DOMAIN js
        /\ OneOpen(js) => OneOpen(js2)
        /\ \A m \in Markets \ back : Quiet(js, m) => Quiet(js2, m)
    BY <1>3, OneChanges
  <1>5. Follows(jobs, jobs', {}, answered, candles)
    BY <1>1, <1>2, <1>4 DEF Follows
  <1> QED
    BY <1>5, AssembleJobs

\* A step whose jobs all keep their targets, and none is opened.
LEMMA ReadStep == ASSUME IInv, NEW i \in DOMAIN jobs, ReadControl(i) PROVE IInv'
  <1>1. /\ UNCHANGED <<market, clock, jobs, rows, worker>>
        /\ \E action : console' = [job |-> i, action |-> action]
    BY DEF ReadControl
  <1>2. Console'
    BY <1>1 DEF Console
  <1>3. Follows(jobs, jobs, {}, answered, candles)
    BY FollowsItself DEF IInv
  <1>4. worker' = [w \in Workers |-> worker'[w]] /\ \A w \in Workers : worker'[w] = worker[w]
    BY <1>1 DEF IInv
  <1>5. UNCHANGED <<market, candles, answered>> /\ Follows(jobs, jobs', {}, answered, candles)
    BY <1>1, <1>3 DEF rows
  <1> QED
    BY <1>2, <1>4, <1>5, AssembleJobs

LEMMA ControlStep == ASSUME IInv, CommitControl PROVE IInv'
  <1>1. /\ console # None /\ console' = None
        /\ UNCHANGED <<market, rows, worker>>
        /\ \/ jobs' = jobs
           \/ jobs' = [jobs EXCEPT ![console.job] = Controlled(@, console.action)]
    BY DEF CommitControl
  <1>2. Console'
    BY <1>1 DEF Console
  <1>3. worker' = [w \in Workers |-> worker'[w]] /\ \A w \in Workers : worker'[w] = worker[w]
    BY <1>1 DEF IInv
  <1>4. UNCHANGED <<market, candles, answered>>
    BY <1>1 DEF rows
  <1>5. CASE jobs' = jobs
    <2>1. Follows(jobs, jobs, {}, answered, candles)
      BY FollowsItself DEF IInv
    <2> QED
      BY <1>2, <1>3, <1>4, <1>5, <2>1, AssembleJobs
  <1>6. CASE jobs' = [jobs EXCEPT ![console.job] = Controlled(@, console.action)]
    <2>1. PICK i, action, job :
              i = console.job /\ action = console.action /\ job = Controlled(jobs[i], action)
      OBVIOUS
    <2>2. i \in DOMAIN jobs
      BY <1>1, <2>1 DEF IInv, Console
    <2>3. PICK old : old = jobs[i]
      OBVIOUS
    <2>4. JobOK(old, answered, candles)
      BY <2>2, <2>3 DEF IInv, Jobs
    <2>5. /\ Changed(old, Controlled(old, action), {})
          /\ Earned(old, Controlled(old, action), answered, candles)
      BY <2>4, ControlMoves
    <2>6. /\ Changed(jobs[i], job, {}) /\ Earned(jobs[i], job, answered, candles)
          /\ jobs' = [jobs EXCEPT ![i] = job]
      BY <1>6, <2>1, <2>3, <2>5
    <2> QED
      BY <1>2, <1>3, <1>4, <2>2, <2>6, OneJobStep
  <1> QED
    BY <1>1, <1>5, <1>6

LEMMA DeleteStep == ASSUME IInv, NEW i \in DOMAIN jobs, DeleteJob(i) PROVE IInv'
  <1>1. PICK old, new : old = jobs[i] /\ new = [old EXCEPT !.status = "deleted"]
    OBVIOUS
  <1>2. jobs' = [jobs EXCEPT ![i] = new] /\ UNCHANGED <<market, rows, worker, console>>
    BY <1>1 DEF DeleteJob
  <1>3. JobOK(old, answered, candles)
    BY <1>1 DEF IInv, Jobs
  <1>4. /\ DOMAIN new = JobFields /\ new.status = "deleted"
        /\ new.lo = old.lo /\ new.hi = old.hi /\ new.plan = old.plan
        /\ new.manual = old.manual /\ new.targets = old.targets /\ new.forced = old.forced
        /\ new.tries \in Nat
    BY <1>1, <1>3 DEF JobOK, IsJob, JobFields
  <1>5. "deleted" \in Statuses /\ "deleted" \notin Open
    BY Words
  <1>6. Changed(old, new, {}) /\ Earned(old, new, answered, candles)
    BY <1>3, <1>4, <1>5, StatusMoves
  <1>7. worker' = [w \in Workers |-> worker'[w]] /\ \A w \in Workers : worker'[w] = worker[w]
    BY <1>2 DEF IInv
  <1>8. UNCHANGED <<market, candles, answered>> /\ UNCHANGED console
    BY <1>2 DEF rows
  <1> QED
    BY <1>1, <1>2, <1>6, <1>7, <1>8, OneJobStep

-----------------------------------------------------------------------------
(* Time.                                                                   *)

LEMMA ExpireStep == ASSUME IInv, NEW i \in DOMAIN jobs, ExpireLease(i) PROVE IInv'
  <1>1. PICK old, new : old = jobs[i] /\ new = [old EXCEPT !.live = FALSE]
    OBVIOUS
  <1>2. jobs' = [jobs EXCEPT ![i] = new] /\ UNCHANGED <<market, rows, worker, console>>
    BY <1>1 DEF ExpireLease
  <1>3. JobOK(old, answered, candles) /\ old.status \in Statuses
    BY <1>1 DEF IInv, Jobs, JobOK, IsJob
  <1>4. /\ DOMAIN new = JobFields /\ new.status = old.status
        /\ new.lo = old.lo /\ new.hi = old.hi /\ new.plan = old.plan
        /\ new.manual = old.manual /\ new.targets = old.targets /\ new.forced = old.forced
        /\ new.tries \in Nat
    BY <1>1, <1>3 DEF JobOK, IsJob, JobFields
  <1>5. Changed(old, new, {}) /\ Earned(old, new, answered, candles)
    BY <1>3, <1>4, StatusMoves
  <1>6. worker' = [w \in Workers |-> worker'[w]] /\ \A w \in Workers : worker'[w] = worker[w]
    BY <1>2 DEF IInv
  <1>7. UNCHANGED <<market, candles, answered>> /\ UNCHANGED console
    BY <1>2 DEF rows
  <1> QED
    BY <1>1, <1>2, <1>5, <1>6, <1>7, OneJobStep

LEMMA DueStep == ASSUME IInv, NEW i \in DOMAIN jobs, RetryDue(i) PROVE IInv'
  <1>1. PICK old, new : old = jobs[i] /\ new = [old EXCEPT !.due = TRUE]
    OBVIOUS
  <1>2. jobs' = [jobs EXCEPT ![i] = new] /\ UNCHANGED <<market, rows, worker, console>>
    BY <1>1 DEF RetryDue
  <1>3. JobOK(old, answered, candles) /\ old.status \in Statuses
    BY <1>1 DEF IInv, Jobs, JobOK, IsJob
  <1>4. /\ DOMAIN new = JobFields /\ new.status = old.status
        /\ new.lo = old.lo /\ new.hi = old.hi /\ new.plan = old.plan
        /\ new.manual = old.manual /\ new.targets = old.targets /\ new.forced = old.forced
        /\ new.tries \in Nat
    BY <1>1, <1>3 DEF JobOK, IsJob, JobFields
  <1>5. Changed(old, new, {}) /\ Earned(old, new, answered, candles)
    BY <1>3, <1>4, StatusMoves
  <1>6. worker' = [w \in Workers |-> worker'[w]] /\ \A w \in Workers : worker'[w] = worker[w]
    BY <1>2 DEF IInv
  <1>7. UNCHANGED <<market, candles, answered>> /\ UNCHANGED console
    BY <1>2 DEF rows
  <1> QED
    BY <1>1, <1>2, <1>5, <1>6, <1>7, OneJobStep

\* A worker that is idle remembers nothing.
LEMMA IdleRemembers ==
    ASSUME NEW js, NEW ans, NEW cand
    PROVE  Memory(Idle, js, ans, cand)
  BY DEF Memory, Idle, MemoryFields, AtTarget

\* A worker whose process ends leaves its jobs to nobody.
LEMMA ExitStep ==
    ASSUME IInv, NEW w \in Workers, Exit(w),
           UNCHANGED <<market, candles, answered, console>>
    PROVE  IInv'
  <1>1. jobs' = Disowned(w) /\ worker' = [worker EXCEPT ![w] = Idle]
    BY DEF Exit, Leave
  <1>2. Jobs(jobs, answered, candles)
    BY DEF IInv
  <1>3. ASSUME NEW j \in DOMAIN jobs
        PROVE  Changed(jobs[j], jobs'[j], {}) /\ Earned(jobs[j], jobs'[j], answered, candles)
    <2>1. PICK old, new : old = jobs[j] /\ new = jobs'[j]
      OBVIOUS
    <2>2. JobOK(old, answered, candles) /\ old.status \in Statuses
      BY <1>2, <2>1 DEF Jobs, JobOK, IsJob
    <2>3. new = [old EXCEPT !.owner = Gone] \/ new = old
      BY <1>1, <2>1 DEF Disowned
    <2>4. /\ DOMAIN new = JobFields /\ new.status = old.status
          /\ new.lo = old.lo /\ new.hi = old.hi /\ new.plan = old.plan
          /\ new.manual = old.manual /\ new.targets = old.targets /\ new.forced = old.forced
          /\ new.tries \in Nat
      BY <2>2, <2>3 DEF JobOK, IsJob, JobFields
    <2>5. Changed(old, new, {}) /\ Earned(old, new, answered, candles)
      BY <2>2, <2>4, StatusMoves
    <2> QED
      BY <2>1, <2>5
  <1>4. PICK js, js2, ans, cand : js = jobs /\ js2 = jobs' /\ ans = answered /\ cand = candles
    OBVIOUS
  <1>5. PICK back : back = {}
    OBVIOUS
  <1>6. js2 = [j \in DOMAIN js |-> js2[j]]
    BY <1>1, <1>4 DEF Disowned
  <1>7. /\ Jobs(js, ans, cand)
        /\ \A j \in DOMAIN js : Changed(js[j], js2[j], back) /\ Earned(js[j], js2[j], ans, cand)
    BY <1>2, <1>3, <1>4, <1>5
  <1>8. \A x \in Markets : ans[x] \subseteq ans[x] /\ cand[x] \subseteq cand[x]
    OBVIOUS
  <1>9. /\ Jobs(js2, ans, cand) /\ Grown(js, js2) /\ DOMAIN js2 = DOMAIN js
        /\ OneOpen(js) => OneOpen(js2)
        /\ \A x \in Markets \ back : Quiet(js, x) => Quiet(js2, x)
    BY <1>6, <1>7, <1>8, AllChange
  <1>10. Follows(jobs, jobs', {}, answered, candles)
    BY <1>4, <1>5, <1>9 DEF Follows
  <1>11. DOMAIN worker = Workers
    BY DEF IInv
  <1>12. worker' = [v \in Workers |-> worker'[v]]
    BY <1>1, <1>11
  <1>13. Memory(Idle, jobs', answered, candles)
    BY IdleRemembers
  <1>14. \A v \in Workers : worker'[v] = worker[v] \/ Memory(worker'[v], jobs', answered, candles)
    BY <1>1, <1>11, <1>13
  <1> QED
    BY <1>10, <1>12, <1>14, AssembleJobs

LEMMA CrashStep == ASSUME IInv, NEW w \in Workers, Crash(w) PROVE IInv'
  <1>1. Exit(w) /\ UNCHANGED <<market, candles, answered, console>>
    BY DEF Crash, rows
  <1> QED
    BY <1>1, ExitStep

-----------------------------------------------------------------------------
(* The steps of a worker.                                                  *)

\* Jobs without attempts left are given up, and the first claimable one is
\* claimed with all its targets.
LEMMA ClaimStep == ASSUME IInv, NEW w \in Workers, ClaimNextJob(w) PROVE IInv'
  <1>1. PICK swept :
            /\ swept = [j \in DOMAIN jobs |->
                           IF j \in SpentJobs THEN DeadLettered(jobs[j]) ELSE jobs[j]]
    OBVIOUS
  <1>2. PICK next : next = Min(Claimable)
    OBVIOUS
  <1>3. /\ UNCHANGED <<market, candles, answered, console>>
        /\ IF Claimable = {} THEN jobs' = swept /\ worker' = worker
           ELSE /\ jobs' = [swept EXCEPT
                               ![next].status = "running", ![next].owner = w,
                               ![next].live = TRUE, ![next].due = FALSE,
                               ![next].tries = @ + 1]
                /\ worker' = [worker EXCEPT ![w] =
                       [Idle EXCEPT !.pc = "targets", !.job = next,
                                    !.todo = jobs[next].targets]]
    BY <1>1, <1>2 DEF ClaimNextJob
  <1>4. PICK js, ans, cand : js = jobs /\ ans = answered /\ cand = candles
    OBVIOUS
  <1>5. Jobs(js, ans, cand) /\ DOMAIN worker = Workers
    BY <1>4 DEF IInv
  <1>6. Follows(js, swept, {}, ans, cand) /\ DOMAIN swept = DOMAIN js
    <2>1. ASSUME NEW j \in DOMAIN js
          PROVE  Changed(js[j], swept[j], {}) /\ Earned(js[j], swept[j], ans, cand)
      <3>1. PICK old : old = js[j]
        OBVIOUS
      <3>2. JobOK(old, ans, cand)
        BY <1>5, <3>1 DEF Jobs
      <3>3. Changed(old, DeadLettered(old), {}) /\ Earned(old, DeadLettered(old), ans, cand)
        BY <3>2, DeadLetterMoves
      <3>4. Changed(old, old, {}) /\ Earned(old, old, ans, cand)
        BY <3>2, SameJob
      <3>5. swept[j] = DeadLettered(old) \/ swept[j] = old
        BY <1>1, <1>4, <3>1
      <3> QED
        BY <3>1, <3>3, <3>4, <3>5
    <2>2. PICK back : back = {}
      OBVIOUS
    <2>3. swept = [j \in DOMAIN js |-> swept[j]]
      BY <1>1, <1>4
    <2>4. /\ Jobs(js, ans, cand)
          /\ \A j \in DOMAIN js : Changed(js[j], swept[j], back) /\ Earned(js[j], swept[j], ans, cand)
      BY <1>5, <2>1, <2>2
    <2>5. \A x \in Markets : ans[x] \subseteq ans[x] /\ cand[x] \subseteq cand[x]
      OBVIOUS
    <2>6. /\ Jobs(swept, ans, cand) /\ Grown(js, swept) /\ DOMAIN swept = DOMAIN js
          /\ OneOpen(js) => OneOpen(swept)
          /\ \A x \in Markets \ back : Quiet(js, x) => Quiet(swept, x)
      BY <2>3, <2>4, <2>5, AllChange
    <2> QED
      BY <2>2, <2>6 DEF Follows
  <1>7. CASE Claimable = {}
    <2>1. worker' = [v \in Workers |-> worker'[v]] /\ \A v \in Workers : worker'[v] = worker[v]
      BY <1>3, <1>7 DEF IInv
    <2>2. Follows(jobs, jobs', {}, answered, candles)
      BY <1>3, <1>4, <1>6, <1>7
    <2>3. UNCHANGED <<market, candles, answered>> /\ UNCHANGED console
      BY <1>3
    <2> QED
      BY <2>1, <2>2, <2>3, AssembleJobs
  <1>8. CASE Claimable # {}
    <2>1. next \in Claimable
      <3>1. DOMAIN jobs \in SUBSET Nat
        <4>1. js \in Seq({js[j] : j \in DOMAIN js})
          BY <1>5 DEF Jobs
        <4>2. DOMAIN js = 1..Len(js)
          BY <4>1
        <4> QED
          BY <1>4, <4>2
      <3>2. Claimable \in SUBSET Nat
        BY <3>1 DEF Claimable
      <3>3. \E n \in Claimable : \A k \in Claimable : n <= k
        BY <1>8, <3>2, LeastNat
      <3> QED
        BY <1>2, <3>3 DEF Min
    <2>2. PICK old : old = js[next]
      OBVIOUS
    <2>3. JobOK(old, ans, cand) /\ IsJob(old) /\ next \in DOMAIN js /\ next \in DOMAIN swept
      BY <1>4, <1>5, <1>6, <2>1, <2>2 DEF Claimable, Jobs, JobOK
    <2>4. /\ old.tries < MaxAttempts /\ old.status \in Open /\ old.status # "succeeded"
      BY <1>4, <2>1, <2>2 DEF Claimable, Expired, Open
    <2>5. next \notin SpentJobs
      <3>1. old.tries \in Nat /\ MaxAttempts \in Nat
        BY <2>3, BackfillAssumption DEF IsJob
      <3>2. ~(old.tries >= MaxAttempts)
        BY <2>4, <3>1
      <3> QED
        BY <1>4, <2>2, <3>2 DEF SpentJobs
    <2>6. swept[next] = old
      BY <1>1, <1>4, <2>2, <2>3, <2>5
    <2>7. PICK new : new = [old EXCEPT !.status = "running", !.owner = w, !.live = TRUE,
                                       !.due = FALSE, !.tries = old.tries + 1]
      OBVIOUS
    <2>8. jobs' = [swept EXCEPT ![next] = new]
      BY <1>3, <1>8, <2>3, <2>6, <2>7
    <2>9. /\ DOMAIN new = JobFields /\ new.status = "running"
          /\ new.lo = old.lo /\ new.hi = old.hi /\ new.plan = old.plan
          /\ new.manual = old.manual /\ new.targets = old.targets /\ new.forced = old.forced
          /\ new.tries \in Nat
      BY <2>3, <2>7 DEF IsJob, JobFields
    <2>10. "running" \in Statuses
      BY Words
    <2>11. Changed(old, new, {}) /\ Earned(old, new, ans, cand)
      BY <2>3, <2>4, <2>9, <2>10, StatusMoves
    <2>12. PICK back, js2 : back = {} /\ js2 = jobs'
      OBVIOUS
    <2>13. /\ Jobs(swept, ans, cand) /\ js2 = [swept EXCEPT ![next] = new]
           /\ Changed(swept[next], new, back) /\ Earned(swept[next], new, ans, cand)
      BY <1>6, <2>6, <2>8, <2>11, <2>12 DEF Follows
    <2>14. /\ Jobs(js2, ans, cand) /\ Grown(swept, js2) /\ DOMAIN js2 = DOMAIN swept
           /\ OneOpen(swept) => OneOpen(js2)
           /\ \A x \in Markets \ back : Quiet(swept, x) => Quiet(js2, x)
      BY <2>3, <2>13, OneChanges
    <2>15. Follows(swept, js2, {}, ans, cand)
      BY <2>12, <2>14 DEF Follows
    <2>16. Follows(js, js2, {} \cup {}, ans, cand)
      BY <1>6, <2>15, FollowsTwice
    <2>17. Follows(jobs, jobs', {}, answered, candles)
      BY <1>4, <2>12, <2>16 DEF Follows
    <2>18. PICK me : me = [Idle EXCEPT !.pc = "targets", !.job = next, !.todo = old.targets]
      OBVIOUS
    <2>19. /\ DOMAIN me = MemoryFields /\ me.pc = "targets" /\ me.job = next
           /\ me.todo = old.targets
      BY <2>18 DEF Idle, MemoryFields
    <2>20. js2[next] = new /\ next \in DOMAIN js2
      BY <2>3, <2>13
    <2>21. Memory(me, js2, ans, cand)
      BY <2>3, <2>9, <2>19, <2>20 DEF Memory, AtTarget, IsJob
    <2>22. worker' = [worker EXCEPT ![w] = me]
      BY <1>3, <1>4, <1>8, <2>2, <2>18
    <2>23. /\ worker' = [v \in Workers |-> worker'[v]]
           /\ \A v \in Workers : worker'[v] = worker[v] \/ Memory(worker'[v], jobs', answered, candles)
      BY <1>4, <1>5, <2>12, <2>21, <2>22
    <2>24. UNCHANGED <<market, candles, answered>> /\ UNCHANGED console
      BY <1>3
    <2> QED
      BY <2>17, <2>23, <2>24, AssembleJobs
  <1> QED
    BY <1>7, <1>8

\* A worker moves on and the jobs stay.
LEMMA WorkerMoves ==
    ASSUME IInv, NEW w \in Workers, NEW me, Memory(me, jobs, answered, candles),
           worker' = [worker EXCEPT ![w] = me],
           UNCHANGED <<market, jobs, candles, answered, console>>
    PROVE  IInv'
  <1>1. Follows(jobs, jobs, {}, answered, candles)
    BY FollowsItself DEF IInv
  <1>2. DOMAIN worker = Workers
    BY DEF IInv
  <1>3. /\ worker' = [v \in Workers |-> worker'[v]]
        /\ \A v \in Workers : worker'[v] = worker[v] \/ Memory(worker'[v], jobs', answered, candles)
    BY <1>2
  <1>4. UNCHANGED <<market, candles, answered>> /\ UNCHANGED console
    OBVIOUS
  <1> QED
    BY <1>1, <1>3, <1>4, AssembleJobs

\* A worker moves on and a job is changed as an operation may.
LEMMA WorkerChanges ==
    ASSUME IInv, NEW w \in Workers, NEW me, Memory(me, jobs, answered, candles),
           worker' = [worker EXCEPT ![w] = me],
           NEW i \in DOMAIN jobs, NEW job, jobs' = [jobs EXCEPT ![i] = job],
           Changed(jobs[i], job, {}), Earned(jobs[i], job, answered, candles),
           UNCHANGED <<market, candles, answered, console>>
    PROVE  IInv'
  <1>1. PICK js, js2, ans, cand, back :
            js = jobs /\ js2 = jobs' /\ ans = answered /\ cand = candles /\ back = {}
    OBVIOUS
  <1>2. /\ Jobs(js, ans, cand) /\ js2 = [js EXCEPT ![i] = job]
        /\ Changed(js[i], job, back) /\ Earned(js[i], job, ans, cand) /\ i \in DOMAIN js
    BY <1>1 DEF IInv
  <1>3. /\ Jobs(js2, ans, cand) /\ Grown(js, js2) /\ DOMAIN js2 = DOMAIN js
        /\ OneOpen(js) => OneOpen(js2)
        /\ \A m \in Markets \ back : Quiet(js, m) => Quiet(js2, m)
    BY <1>2, OneChanges
  <1>4. \A m \in Markets : ans[m] \subseteq ans[m] /\ cand[m] \subseteq cand[m]
    OBVIOUS
  <1>5. Memory(me, js, ans, cand)
    BY <1>1
  <1>6. Memory(me, js2, ans, cand)
    BY <1>2, <1>3, <1>4, <1>5, MemoryKept
  <1>7. Follows(jobs, jobs', {}, answered, candles)
    BY <1>1, <1>3 DEF Follows
  <1>8. DOMAIN worker = Workers
    BY DEF IInv
  <1>9. /\ worker' = [v \in Workers |-> worker'[v]]
        /\ \A v \in Workers : worker'[v] = worker[v] \/ Memory(worker'[v], jobs', answered, candles)
    BY <1>1, <1>6, <1>8
  <1>10. UNCHANGED <<market, candles, answered>> /\ UNCHANGED console
    OBVIOUS
  <1> QED
    BY <1>7, <1>9, <1>10, AssembleJobs

\* What a worker remembers when it goes on to another place.
LEMMA SkipRemembers ==
    ASSUME NEW me, NEW js, NEW ans, NEW cand, NEW m, Memory(me, js, ans, cand), me.pc # "idle",
           NEW me2,
           \/ me2 = [me EXCEPT !.pc = "targets", !.ranges = {}, !.todo = Without(@, m)]
           \/ me2 = [me EXCEPT !.todo = Without(@, m)] /\ me.pc = "targets"
    PROVE  Memory(me2, js, ans, cand)
  <1>1. PICK todo : todo = Without(me.todo, m)
    OBVIOUS
  <1>2. me.todo \in [DOMAIN me.todo -> AllTargets]
    BY DEF Memory
  <1>3. todo \in [DOMAIN todo -> AllTargets] /\ DOMAIN todo \subseteq DOMAIN me.todo
    BY <1>1, <1>2 DEF Without
  <1>4. DOMAIN me2 = MemoryFields /\ me2.pc = "targets" /\ me2.job = me.job /\ me2.todo = todo
    BY <1>1 DEF Memory, MemoryFields
  <1> QED
    BY <1>3, <1>4 DEF Memory, AtTarget

LEMMA GotoRemembers ==
    ASSUME NEW me, NEW js, NEW ans, NEW cand, Memory(me, js, ans, cand), me.pc \in AtTarget,
           NEW pc \in AtTarget, NEW ranges,
           NEW me2, me2 = [me EXCEPT !.pc = pc] \/ me2 = [me EXCEPT !.ranges = ranges, !.pc = pc],
           pc \in {"range", "fetch", "progress", "succeed"} =>
               JobSlots(js[me.job]) \subseteq ans[me.at] \cup cand[me.at] \cup Left(me2)
    PROVE  Memory(me2, js, ans, cand)
  <1>1. /\ DOMAIN me2 = MemoryFields /\ me2.pc = pc /\ me2.job = me.job /\ me2.todo = me.todo
        /\ me2.at = me.at
    BY DEF Memory, MemoryFields
  <1>2. me.pc # "idle" /\ pc # "idle"
    BY DEF AtTarget
  <1> QED
    BY <1>1, <1>2 DEF Memory

\* A worker in a place of its own, and what it has in hand.
LEMMA AtWork ==
    ASSUME IInv, NEW w \in Workers, worker[w].pc # "idle"
    PROVE  /\ Memory(worker[w], jobs, answered, candles)
           /\ worker[w].job \in DOMAIN jobs
           /\ JobOK(jobs[worker[w].job], answered, candles)
           /\ DOMAIN jobs[worker[w].job].targets \subseteq Markets
           /\ DOMAIN worker = Workers
  <1>1. Memory(worker[w], jobs, answered, candles) /\ DOMAIN worker = Workers
    BY DEF IInv
  <1>2. worker[w].job \in DOMAIN jobs
    BY <1>1 DEF Memory
  <1>3. JobOK(jobs[worker[w].job], answered, candles)
    BY <1>2 DEF IInv, Jobs
  <1> QED
    BY <1>1, <1>2, <1>3 DEF JobOK, IsJob

LEMMA LeaveStep ==
    ASSUME IInv, NEW w \in Workers, Leave(w),
           UNCHANGED <<market, jobs, candles, answered, console>>
    PROVE  IInv'
  <1>1. worker' = [worker EXCEPT ![w] = Idle]
    BY DEF Leave
  <1>2. Memory(Idle, jobs, answered, candles)
    BY IdleRemembers
  <1> QED
    BY <1>1, <1>2, WorkerMoves

LEMMA NextTargetStep ==
    ASSUME IInv, NEW w \in Workers, worker[w].pc # "idle", NextTarget(w),
           UNCHANGED <<market, jobs, candles, answered, console>>
    PROVE  IInv'
  <1>1. PICK me, m : me = worker[w] /\ m = worker[w].at
    OBVIOUS
  <1>2. PICK me2 : me2 = [me EXCEPT !.pc = "targets", !.ranges = {}, !.todo = Without(@, m)]
    OBVIOUS
  <1>3. Memory(me, jobs, answered, candles) /\ me.pc # "idle" /\ DOMAIN worker = Workers
    BY <1>1, AtWork
  <1>4. Memory(me2, jobs, answered, candles)
    BY <1>2, <1>3, SkipRemembers
  <1>5. worker' = [worker EXCEPT ![w] = me2]
    BY <1>1, <1>2, <1>3 DEF NextTarget, Memory, MemoryFields
  <1> QED
    BY <1>4, <1>5, WorkerMoves

\* A worker in the middle of a target goes on with it.
LEMMA GotoStep ==
    ASSUME IInv, NEW w \in Workers, worker[w].pc \in AtTarget, NEW pc \in AtTarget, Goto(w, pc),
           NEW me2, me2 = [worker[w] EXCEPT !.pc = pc],
           pc \in {"range", "fetch", "progress", "succeed"} =>
               JobSlots(jobs[worker[w].job]) \subseteq
                   answered[worker[w].at] \cup candles[worker[w].at] \cup Left(me2),
           UNCHANGED <<market, jobs, candles, answered, console>>
    PROVE  IInv'
  <1>1. PICK me : me = worker[w]
    OBVIOUS
  <1>2. worker[w].pc # "idle"
    BY DEF AtTarget
  <1>3. Memory(me, jobs, answered, candles) /\ me.pc \in AtTarget
    BY <1>1, <1>2, AtWork
  <1>4. me2 = [me EXCEPT !.pc = pc] \/ me2 = [me EXCEPT !.ranges = {}, !.pc = pc]
    BY <1>1
  <1>5. pc \in {"range", "fetch", "progress", "succeed"} =>
            JobSlots(jobs[me.job]) \subseteq answered[me.at] \cup candles[me.at] \cup Left(me2)
    BY <1>1
  <1>6. Memory(me2, jobs, answered, candles)
    BY <1>3, <1>4, <1>5, GotoRemembers
  <1>7. worker' = [worker EXCEPT ![w] = me2]
    BY DEF Goto
  <1> QED
    BY <1>6, <1>7, WorkerMoves

\* After a failure nothing is claimed about the target.
LEMMA FailStep ==
    ASSUME IInv, NEW w \in Workers, worker[w].pc \in AtTarget, Goto(w, "fail"),
           UNCHANGED <<market, jobs, candles, answered, console>>
    PROVE  IInv'
  <1>1. PICK me2, pc : me2 = [worker[w] EXCEPT !.pc = pc] /\ pc = "fail"
    OBVIOUS
  <1>2. pc \in AtTarget /\ pc \notin {"range", "fetch", "progress", "succeed"} /\ Goto(w, pc)
    BY <1>1 DEF AtTarget
  <1> QED
    BY <1>1, <1>2, GotoStep

LEMMA TakeStep == ASSUME IInv, NEW w \in Workers, TakeTarget(w) PROVE IInv'
  <1>1. PICK me, m : me = worker[w] /\ m = Min(DOMAIN me.todo)
    OBVIOUS
  <1>2. /\ me.pc = "targets" /\ me.pc # "idle"
        /\ UNCHANGED <<market, candles, answered, console>>
    BY <1>1 DEF TakeTarget, rows
  <1>3. /\ Memory(me, jobs, answered, candles) /\ DOMAIN worker = Workers
        /\ me.job \in DOMAIN jobs /\ JobOK(jobs[me.job], answered, candles)
        /\ DOMAIN jobs[me.job].targets \subseteq Markets
    BY <1>1, <1>2, AtWork
  <1>4. CASE Leave(w) /\ jobs' = jobs
    BY <1>2, <1>4, LeaveStep
  <1>5. CASE Exit(w)
    BY <1>2, <1>5, ExitStep
  <1>6. CASE worker' = [worker EXCEPT ![w].todo = Without(@, m)] /\ jobs' = jobs
    <2>1. PICK me2 : me2 = [me EXCEPT !.todo = Without(@, m)]
      OBVIOUS
    <2>2. Memory(me2, jobs, answered, candles)
      BY <1>2, <1>3, <2>1, SkipRemembers
    <2>3. worker' = [worker EXCEPT ![w] = me2]
      BY <1>1, <1>3, <1>6, <2>1
    <2> QED
      BY <1>2, <1>6, <2>2, <2>3, WorkerMoves
  <1>7. CASE /\ DOMAIN me.todo # {}
             /\ worker' = [worker EXCEPT ![w].pc = "ranges", ![w].at = m]
             /\ \/ jobs' = jobs
                \/ /\ WriteOutcome(w, m) = "ok"
                   /\ jobs' = [jobs EXCEPT ![me.job].targets[m] = "running"]
    <2>1. m \in DOMAIN jobs[me.job].targets
      <3>1. DOMAIN me.todo \subseteq DOMAIN jobs[me.job].targets
        BY <1>2, <1>3 DEF Memory
      <3>2. DOMAIN me.todo \in SUBSET Nat
        BY <1>3, <3>1, BackfillAssumption
      <3>3. \E n \in DOMAIN me.todo : \A k \in DOMAIN me.todo : n <= k
        BY <1>7, <3>2, LeastNat
      <3>4. m \in DOMAIN me.todo
        BY <1>1, <3>3 DEF Min
      <3> QED
        BY <3>1, <3>4
    <2>2. PICK me2 : me2 = [me EXCEPT !.pc = "ranges", !.at = m]
      OBVIOUS
    <2>3. /\ DOMAIN me2 = MemoryFields /\ me2.pc = "ranges" /\ me2.at = m
          /\ me2.job = me.job /\ me2.todo = me.todo
      BY <1>3, <2>2 DEF Memory, MemoryFields
    <2>4. Memory(me2, jobs, answered, candles)
      BY <1>2, <1>3, <2>1, <2>3 DEF Memory, AtTarget
    <2>5. worker' = [worker EXCEPT ![w] = me2]
      BY <1>1, <1>3, <1>7, <2>2
    <2>6. CASE jobs' = jobs
      BY <1>2, <2>4, <2>5, <2>6, WorkerMoves
    <2>7. CASE /\ WriteOutcome(w, m) = "ok"
               /\ jobs' = [jobs EXCEPT ![me.job].targets[m] = "running"]
      <3>1. PICK i, old, new, v, back :
                /\ i = me.job /\ old = jobs[i] /\ new = [old EXCEPT !.targets[m] = v]
                /\ v = "running" /\ back = {}
        OBVIOUS
      <3>2. /\ old.status = "running" /\ old.targets[m] \in {"pending", "running"}
        BY <1>1, <2>7, <3>1 DEF WriteOutcome
      <3>3. /\ JobOK(old, answered, candles) /\ m \in DOMAIN old.targets
            /\ old.status \in Open /\ old.targets[m] \in OpenTarget
        BY <1>3, <2>1, <3>1, <3>2 DEF Open, OpenTarget
      <3>4. MayRun(old, m, v, back) /\ TargetMoved(old, new, m, v)
        BY <3>1, <3>2 DEF MayRun, TargetMoved
      <3>5. v \in {"pending", "running", "paused", "stopped"}
        BY <3>1
      <3>6. /\ Changed(old, new, back) /\ Earned(old, new, answered, candles)
            /\ DOMAIN new.targets = DOMAIN old.targets
            /\ new.targets[m] = v
        BY <3>3, <3>4, <3>5, TargetMoves
      <3>7. jobs' = [jobs EXCEPT ![i] = new] /\ i \in DOMAIN jobs
        BY <1>3, <2>7, <3>1
      <3>8. Changed(jobs[i], new, {}) /\ Earned(jobs[i], new, answered, candles)
        BY <3>1, <3>6
      <3> QED
        BY <1>2, <2>4, <2>5, <3>7, <3>8, WorkerChanges
    <2> QED
      BY <1>7, <2>6, <2>7
  <1> QED
    BY <1>1, <1>4, <1>5, <1>6, <1>7 DEF TakeTarget

\* The runs of adjacent slots hold all that is missing.
LEMMA BoundsOf ==
    ASSUME NEW lo \in Nat, NEW hi \in Nat, lo <= hi
    PROVE  Min(lo..hi) = lo /\ Max(lo..hi) = hi
  <1>1. \A x \in lo..hi : (\A y \in lo..hi : x <= y) <=> x = lo
    OBVIOUS
  <1>2. lo \in lo..hi /\ hi \in lo..hi
    OBVIOUS
  <1>3. \A x \in lo..hi : (\A y \in lo..hi : x >= y) <=> x = hi
    OBVIOUS
  <1>4. Min(lo..hi) = lo
    BY <1>1, <1>2 DEF Min
  <1>5. Max(lo..hi) = hi
    BY <1>2, <1>3 DEF Max
  <1> QED
    BY <1>4, <1>5

LEMMA RangesCover ==
    ASSUME NEW missing \in SUBSET Slots, NEW s \in missing
    PROVE  \E S \in MissingRanges(missing) : s \in S
  <1>1. /\ missing \subseteq Nat /\ s \in Nat /\ IsFiniteSet(missing)
    <2>1. Slots \subseteq Nat /\ IsFiniteSet(Slots)
      BY BackfillAssumption, FS_Interval DEF Slots
    <2> QED
      BY <2>1, FS_Subset
  <1> DEFINE L == {a \in missing : a <= s /\ \A t \in a..s : t \in missing}
             U == {b \in missing : s <= b /\ \A t \in s..b : t \in missing}
  <1>2. s \in L /\ s \in U /\ L \in SUBSET Nat /\ U \in SUBSET Int /\ IsFiniteSet(U)
    <2>1. s \in L /\ s \in U
      BY <1>1
    <2>2. L \subseteq missing /\ U \subseteq missing
      OBVIOUS
    <2> HIDE DEF L, U
    <2>3. IsFiniteSet(U)
      BY <1>1, <2>2, FS_Subset
    <2>4. L \in SUBSET Nat /\ U \in SUBSET Int
      BY <1>1, <2>2
    <2> QED
      BY <2>1, <2>3, <2>4
  <1>3. PICK lo \in L : \A a \in L : lo <= a
    <2> HIDE DEF L
    <2> QED
      BY <1>2, LeastNat
  <1>4. PICK hi \in U : \A b \in U : hi >= b
    <2> HIDE DEF U
    <2> QED
      BY <1>2, GreatestInt
  <1>5. lo \in Nat /\ hi \in Nat /\ lo <= s /\ s <= hi
    BY <1>1, <1>3, <1>4
  <1>6. \A t \in lo..hi : t \in missing
    <2> SUFFICES ASSUME NEW t \in lo..hi PROVE t \in missing
      OBVIOUS
    <2>1. t \in lo..s \/ t \in s..hi
      BY <1>1, <1>5
    <2> QED
      BY <1>3, <1>4, <2>1
  <1>7. hi + 1 \notin missing
    <2> SUFFICES ASSUME hi + 1 \in missing PROVE FALSE
      OBVIOUS
    <2>1. ASSUME NEW t \in s..(hi + 1) PROVE t \in missing
      <3>1. t \in s..hi \/ t = hi + 1
        BY <1>1, <1>5
      <3> QED
        BY <1>4, <3>1
    <2>2. s <= hi + 1
      BY <1>1, <1>5
    <2>3. hi + 1 \in U
      BY <2>1, <2>2
    <2> HIDE DEF U
    <2> QED
      BY <1>4, <1>5, <2>3
  <1>8. lo = 0 \/ (lo - 1) \notin missing
    <2> SUFFICES ASSUME lo # 0, lo - 1 \in missing PROVE FALSE
      OBVIOUS
    <2>1. ASSUME NEW t \in (lo - 1)..s PROVE t \in missing
      <3>1. t \in lo..s \/ t = lo - 1
        BY <1>1, <1>5
      <3> QED
        BY <1>3, <3>1
    <2>2. lo - 1 <= s
      BY <1>1, <1>5
    <2>3. lo - 1 \in L
      BY <2>1, <2>2
    <2> HIDE DEF L
    <2> QED
      BY <1>3, <1>5, <2>3
  <1> HIDE DEF L, U
  <1>9. PICK S : S = lo..hi
    OBVIOUS
  <1>10. lo <= hi
    BY <1>1, <1>5
  <1>11. Min(S) = lo /\ Max(S) = hi
    BY <1>5, <1>9, <1>10, BoundsOf
  <1>12. s \in S /\ S \in SUBSET missing
    BY <1>1, <1>5, <1>6, <1>9
  <1>13. \A t \in Min(S)..Max(S) : t \in S
    BY <1>9, <1>11
  <1>14. S \in MissingRanges(missing)
    BY <1>7, <1>8, <1>11, <1>12, <1>13 DEF MissingRanges
  <1> QED
    BY <1>12, <1>14

LEMMA FindStep == ASSUME IInv, NEW w \in Workers, FindRanges(w) PROVE IInv'
  <1>1. PICK me, missing : /\ me = worker[w]
                           /\ missing = JobSlots(jobs[me.job]) \ candles[me.at]
    OBVIOUS
  <1>2. /\ me.pc = "ranges" /\ me.pc # "idle" /\ me.pc \in AtTarget
        /\ UNCHANGED <<market, jobs, candles, answered, console>>
    BY <1>1 DEF FindRanges, rows, AtTarget
  <1>3. Memory(me, jobs, answered, candles) /\ DOMAIN worker = Workers
    BY <1>1, <1>2, AtWork
  <1>4. CASE missing = {} /\ Goto(w, "succeed")
    <2>1. PICK me2, pc : me2 = [worker[w] EXCEPT !.pc = pc] /\ pc = "succeed"
      OBVIOUS
    <2>2. pc \in AtTarget
      BY <2>1 DEF AtTarget
    <2>3. JobSlots(jobs[worker[w].job]) \subseteq
              answered[worker[w].at] \cup candles[worker[w].at] \cup Left(me2)
      BY <1>1, <1>4
    <2> QED
      BY <1>1, <1>2, <1>4, <2>1, <2>2, <2>3, GotoStep
  <1>5. CASE worker' = [worker EXCEPT ![w].pc = "range", ![w].ranges = MissingRanges(missing)]
    <2>1. PICK pc, ranges, me2 : /\ pc = "range" /\ ranges = MissingRanges(missing)
                                 /\ me2 = [me EXCEPT !.ranges = ranges, !.pc = pc]
      OBVIOUS
    <2>2. missing \subseteq UNION ranges
      <3>1. missing \in SUBSET Slots
        BY <1>1 DEF JobSlots
      <3>2. \A s \in missing : \E S \in MissingRanges(missing) : s \in S
        BY <3>1, RangesCover
      <3> QED
        BY <2>1, <3>2
    <2>3. /\ me2.pc = pc /\ me2.ranges = ranges
      BY <1>3, <2>1 DEF Memory, MemoryFields
    <2>4. JobSlots(jobs[me.job]) \subseteq answered[me.at] \cup candles[me.at] \cup Left(me2)
      BY <1>1, <2>1, <2>2, <2>3 DEF Left
    <2>5. pc \in AtTarget
      BY <2>1 DEF AtTarget
    <2>6. Memory(me2, jobs, answered, candles)
      BY <1>2, <1>3, <2>1, <2>4, <2>5, GotoRemembers
    <2>7. worker' = [worker EXCEPT ![w] = me2]
      BY <1>1, <1>3, <1>5, <2>1 DEF Memory, MemoryFields
    <2> QED
      BY <1>2, <2>6, <2>7, WorkerMoves
  <1>6. CASE NextTarget(w)
    BY <1>1, <1>2, <1>6, NextTargetStep
  <1>7. CASE Goto(w, "fail")
    BY <1>1, <1>2, <1>7, FailStep
  <1> QED
    BY <1>1, <1>4, <1>5, <1>6, <1>7 DEF FindRanges

LEMMA CheckStep == ASSUME IInv, NEW w \in Workers, CheckRange(w) PROVE IInv'
  <1>1. /\ worker[w].pc = "range" /\ worker[w].pc # "idle" /\ worker[w].pc \in AtTarget
        /\ UNCHANGED <<market, jobs, candles, answered, console>>
    BY DEF CheckRange, rows, AtTarget
  <1>2. CASE Leave(w)
    BY <1>1, <1>2, LeaveStep
  <1>3. CASE Goto(w, "fetch")
    <2>1. PICK me, me2, pc : me = worker[w] /\ me2 = [me EXCEPT !.pc = pc] /\ pc = "fetch"
      OBVIOUS
    <2>2. pc \in AtTarget
      BY <2>1 DEF AtTarget
    <2>3. Memory(me, jobs, answered, candles)
      BY <1>1, <2>1, AtWork
    <2>4. /\ me2.pc = "fetch" /\ me.pc = "range" /\ me2.ranges = me.ranges
      BY <1>1, <2>1, <2>3 DEF Memory, MemoryFields
    <2>5. Left(me2) = Left(me)
      BY <2>4 DEF Left
    <2>6. JobSlots(jobs[me.job]) \subseteq answered[me.at] \cup candles[me.at] \cup Left(me)
      BY <2>3, <2>4 DEF Memory
    <2> QED
      BY <1>1, <1>3, <2>1, <2>2, <2>5, <2>6, GotoStep
  <1> QED
    BY <1>2, <1>3 DEF CheckRange

\* A page answers the first range; everybody else remembers what was known.
LEMMA StoreStep == ASSUME IInv, NEW w \in Workers, StorePage(w) PROVE IInv'
  <1>1. PICK me, m, range : me = worker[w] /\ m = me.at /\ range = First(me.ranges)
    OBVIOUS
  <1>2. /\ me.pc = "fetch" /\ me.pc # "idle" /\ me.pc \in AtTarget
        /\ UNCHANGED <<market, console>>
    BY <1>1 DEF StorePage, AtTarget
  <1>3. /\ Memory(me, jobs, answered, candles) /\ DOMAIN worker = Workers
        /\ me.job \in DOMAIN jobs /\ JobOK(jobs[me.job], answered, candles)
        /\ DOMAIN jobs[me.job].targets \subseteq Markets
    BY <1>1, <1>2, AtWork
  <1>4. m \in DOMAIN jobs[me.job].targets /\ m \in Markets
    BY <1>1, <1>2, <1>3 DEF Memory
  <1>5. CASE /\ WriteOutcome(w, m) = "ok"
             /\ \E page : candles' = [candles EXCEPT ![m] = @ \cup page]
             /\ answered' = [answered EXCEPT ![m] = @ \cup range]
             /\ jobs' = [jobs EXCEPT ![me.job].targets[m] = "running"]
             /\ Goto(w, "progress")
    <2>1. PICK js, js2, ans, cand, ans2, cand2 :
              /\ js = jobs /\ js2 = jobs' /\ ans = answered /\ cand = candles
              /\ ans2 = answered' /\ cand2 = candles'
      OBVIOUS
    <2>2. PICK page : cand2 = [cand EXCEPT ![m] = @ \cup page]
      BY <1>5, <2>1
    <2>3. DOMAIN ans = Markets /\ DOMAIN cand = Markets
      BY <2>1 DEF IInv, Tables
    <2>4. ans2 = [ans EXCEPT ![m] = @ \cup range]
      BY <1>5, <2>1
    <2>5. \A x \in Markets : ans[x] \subseteq ans2[x] /\ cand[x] \subseteq cand2[x]
      BY <2>2, <2>3, <2>4
    <2>6. Tables'
      <3>1. DOMAIN ans2 = Markets /\ DOMAIN cand2 = Markets
        BY <2>2, <2>3, <2>4
      <3>2. ans2 = [x \in Markets |-> ans2[x]] /\ cand2 = [x \in Markets |-> cand2[x]]
        BY <2>2, <2>3, <2>4
      <3> QED
        BY <1>2, <2>1, <3>1, <3>2 DEF IInv, Tables
    <2>7. PICK i, old, new, v, back :
              /\ i = me.job /\ old = js[i] /\ new = [old EXCEPT !.targets[m] = v]
              /\ v = "running" /\ back = {}
      OBVIOUS
    <2>8. old.status = "running" /\ old.targets[m] \in {"pending", "running"}
      BY <1>1, <1>5, <2>1, <2>7 DEF WriteOutcome
    <2>9. /\ JobOK(old, ans, cand) /\ m \in DOMAIN old.targets
          /\ old.status \in Open /\ old.targets[m] \in OpenTarget
      BY <1>3, <1>4, <2>1, <2>7, <2>8 DEF Open, OpenTarget
    <2>10. MayRun(old, m, v, back) /\ TargetMoved(old, new, m, v)
      BY <2>7, <2>8 DEF MayRun, TargetMoved
    <2>11. v \in {"pending", "running", "paused", "stopped"}
      BY <2>7
    <2>12. /\ Changed(old, new, back) /\ Earned(old, new, ans, cand)
           /\ DOMAIN new.targets = DOMAIN old.targets
           /\ new.targets[m] = v
      BY <2>9, <2>10, <2>11, TargetMoves
    <2>13. js2 = [js EXCEPT ![i] = new] /\ i \in DOMAIN js
      BY <1>3, <1>5, <2>1, <2>7
    <2>14. ASSUME NEW j \in DOMAIN js
           PROVE  Changed(js[j], js2[j], back) /\ Earned(js[j], js2[j], ans2, cand2)
      <3>1. PICK job : job = js[j]
        OBVIOUS
      <3>2. JobOK(job, ans, cand) /\ DOMAIN job.targets \subseteq Markets
        BY <2>1, <3>1 DEF IInv, Jobs, JobOK, IsJob
      <3>3. CASE j = i
        <4>1. Changed(job, new, back) /\ Earned(job, new, ans, cand)
          BY <2>7, <2>12, <3>1, <3>3
        <4>2. Earned(job, new, ans2, cand2)
          BY <2>5, <3>2, <4>1 DEF Earned
        <4> QED
          BY <2>13, <3>1, <3>3, <4>1, <4>2
      <3>4. CASE j # i
        <4>1. Changed(job, job, {}) /\ Earned(job, job, ans, cand)
          BY <3>2, SameJob
        <4>2. Earned(job, job, ans2, cand2)
          BY DEF Earned
        <4> QED
          BY <2>7, <2>13, <3>1, <3>4, <4>1, <4>2
      <3> QED
        BY <3>3, <3>4
    <2>15. /\ Jobs(js, ans, cand)
           /\ \A j \in DOMAIN js : Changed(js[j], js2[j], back) /\ Earned(js[j], js2[j], ans2, cand2)
      BY <2>1, <2>14 DEF IInv
    <2>16. js2 = [j \in DOMAIN js |-> js2[j]]
      BY <2>13
    <2>17. /\ Jobs(js2, ans2, cand2) /\ Grown(js, js2) /\ DOMAIN js2 = DOMAIN js
           /\ OneOpen(js) => OneOpen(js2)
           /\ \A x \in Markets \ back : Quiet(js, x) => Quiet(js2, x)
      BY <2>5, <2>15, <2>16, AllChange
    <2>18. PICK me2, pc : me2 = [me EXCEPT !.pc = pc] /\ pc = "progress"
      OBVIOUS
    <2>19. Memory(me, js2, ans2, cand2)
      BY <1>3, <2>1, <2>5, <2>15, <2>17, MemoryKept
    <2>20. JobSlots(js2[me.job]) \subseteq ans2[me.at] \cup cand2[me.at] \cup Left(me2)
      <3>1. JobSlots(js2[me.job]) \subseteq ans2[me.at] \cup cand2[me.at] \cup UNION me.ranges
        BY <1>2, <2>19 DEF Memory, Left
      <3>2. range \subseteq ans2[me.at]
        BY <1>1, <1>4, <2>3, <2>4
      <3>3. me2.pc = "progress" /\ me2.ranges = me.ranges
        BY <1>3, <2>18 DEF Memory, MemoryFields
      <3>4. Left(me2) = UNION (me.ranges \ {range})
        BY <1>1, <3>3 DEF Left
      <3>5. UNION me.ranges \subseteq range \cup UNION (me.ranges \ {range})
        OBVIOUS
      <3> QED
        BY <3>1, <3>2, <3>4, <3>5
    <2>21. Memory(me2, js2, ans2, cand2)
      <3>1. pc \in AtTarget /\ (me2 = [me EXCEPT !.pc = pc] \/ me2 = [me EXCEPT !.ranges = {}, !.pc = pc])
        BY <2>18 DEF AtTarget
      <3>2. pc \in {"range", "fetch", "progress", "succeed"} =>
                JobSlots(js2[me.job]) \subseteq ans2[me.at] \cup cand2[me.at] \cup Left(me2)
        BY <2>20
      <3> QED
        BY <1>2, <2>19, <3>1, <3>2, GotoRemembers
    <2>22. worker' = [worker EXCEPT ![w] = me2]
      BY <1>1, <1>5, <2>18 DEF Goto
    <2>23. Follows(jobs, jobs', Markets, answered', candles')
      BY <2>1, <2>17 DEF Follows
    <2>24. \A x \in Markets : answered[x] \subseteq answered'[x] /\ candles[x] \subseteq candles'[x]
      BY <2>1, <2>5
    <2>25. \A x \in Markets : Off(market'[x]) => Quiet(jobs', x)
      BY <1>2, <2>1, <2>7, <2>17 DEF IInv
    <2>26. /\ worker' = [x \in Workers |-> worker'[x]]
           /\ \A x \in Workers : worker'[x] = worker[x] \/ Memory(worker'[x], jobs', answered', candles')
      BY <1>3, <2>1, <2>21, <2>22
    <2>27. Console'
      BY <1>2, <2>1, <2>17 DEF IInv, Console
    <2> QED
      BY <2>6, <2>23, <2>24, <2>25, <2>26, <2>27, Assemble
  <1>6. CASE NextTarget(w) /\ UNCHANGED <<jobs, rows>>
    BY <1>1, <1>2, <1>6, NextTargetStep DEF rows
  <1>7. CASE Goto(w, "fail") /\ UNCHANGED <<jobs, rows>>
    BY <1>1, <1>2, <1>7, FailStep DEF rows
  <1> QED
    BY <1>1, <1>5, <1>6, <1>7 DEF StorePage, FirstRange

LEMMA FetchFailsStep == ASSUME IInv, NEW w \in Workers, FetchFails(w) PROVE IInv'
  <1>1. /\ worker[w].pc \in AtTarget /\ Goto(w, "fail")
        /\ UNCHANGED <<market, jobs, candles, answered, console>>
    BY DEF FetchFails, rows, AtTarget
  <1> QED
    BY <1>1, FailStep

LEMMA DoneStep == ASSUME IInv, NEW w \in Workers, RangeDone(w) PROVE IInv'
  <1>1. PICK me, left : me = worker[w] /\ left = me.ranges \ {First(me.ranges)}
    OBVIOUS
  <1>2. /\ me.pc = "progress" /\ me.pc # "idle" /\ me.pc \in AtTarget
        /\ UNCHANGED <<market, jobs, candles, answered, console>>
    BY <1>1 DEF RangeDone, rows, AtTarget
  <1>3. Memory(me, jobs, answered, candles) /\ DOMAIN worker = Workers
    BY <1>1, <1>2, AtWork
  <1>4. CASE worker' = [worker EXCEPT ![w].ranges = left,
                                      ![w].pc = IF left = {} THEN "succeed" ELSE "range"]
    <2>1. PICK pc, me2 : /\ pc = (IF left = {} THEN "succeed" ELSE "range")
                         /\ me2 = [me EXCEPT !.ranges = left, !.pc = pc]
      OBVIOUS
    <2>2. me2.pc = pc /\ me2.ranges = left
      BY <1>3, <2>1 DEF Memory, MemoryFields
    <2>3. JobSlots(jobs[me.job]) \subseteq answered[me.at] \cup candles[me.at] \cup UNION left
      BY <1>1, <1>2, <1>3 DEF Memory, Left
    <2>4. UNION left \subseteq Left(me2)
      BY <2>1, <2>2 DEF Left
    <2>5. pc \in AtTarget
      BY <2>1 DEF AtTarget
    <2>6. pc \in {"range", "fetch", "progress", "succeed"} =>
              JobSlots(jobs[me.job]) \subseteq answered[me.at] \cup candles[me.at] \cup Left(me2)
      BY <2>3, <2>4
    <2>7. me2 = [me EXCEPT !.pc = pc] \/ me2 = [me EXCEPT !.ranges = left, !.pc = pc]
      BY <2>1
    <2>8. Memory(me2, jobs, answered, candles)
      BY <1>2, <1>3, <2>5, <2>6, <2>7, GotoRemembers
    <2>9. worker' = [worker EXCEPT ![w] = me2]
      BY <1>1, <1>3, <1>4, <2>1 DEF Memory, MemoryFields
    <2> QED
      BY <1>2, <2>8, <2>9, WorkerMoves
  <1>5. CASE NextTarget(w)
    BY <1>1, <1>2, <1>5, NextTargetStep
  <1>6. CASE Goto(w, "fail")
    BY <1>1, <1>2, <1>6, FailStep
  <1> QED
    BY <1>1, <1>4, <1>5, <1>6 DEF RangeDone, FirstRange

\* The target in hand has ended: the job is refreshed and the worker goes on.
LEMMA RefreshStep ==
    ASSUME IInv, NEW w \in Workers, worker[w].pc \in AtTarget,
           WriteOutcome(w, worker[w].at) = "ok", NextTarget(w),
           NEW v \in {"succeeded", "failed"},
           v = "succeeded" =>
               JobSlots(jobs[worker[w].job]) \subseteq
                   answered[worker[w].at] \cup candles[worker[w].at],
           jobs' = [jobs EXCEPT ![worker[w].job] =
                       Refreshed([jobs[worker[w].job] EXCEPT !.targets[worker[w].at] = v])],
           UNCHANGED <<market, candles, answered, console>>
    PROVE  IInv'
  <1>1. PICK me, i, m, old, new :
            /\ me = worker[w] /\ i = me.job /\ m = me.at /\ old = jobs[i]
            /\ new = Refreshed([old EXCEPT !.targets[m] = v])
    OBVIOUS
  <1>2. worker[w].pc # "idle"
    BY DEF AtTarget
  <1>3. /\ Memory(me, jobs, answered, candles) /\ DOMAIN worker = Workers /\ me.pc # "idle"
        /\ i \in DOMAIN jobs /\ JobOK(old, answered, candles)
    BY <1>1, <1>2, AtWork
  <1>4. m \in DOMAIN old.targets
    BY <1>1, <1>3 DEF Memory
  <1>5. old.status = "running" /\ old.targets[m] \in {"pending", "running"}
    BY <1>1 DEF WriteOutcome
  <1>6. v = "succeeded" => JobSlots(old) \subseteq answered[m] \cup candles[m]
    BY <1>1
  <1>7. /\ Changed(old, Refreshed([old EXCEPT !.targets[m] = v]), {})
        /\ Earned(old, Refreshed([old EXCEPT !.targets[m] = v]), answered, candles)
    BY <1>3, <1>4, <1>5, <1>6, RefreshMoves
  <1>8. PICK me2 : me2 = [me EXCEPT !.pc = "targets", !.ranges = {}, !.todo = Without(@, m)]
    OBVIOUS
  <1>9. Memory(me2, jobs, answered, candles)
    BY <1>3, <1>8, SkipRemembers
  <1>10. worker' = [worker EXCEPT ![w] = me2]
    BY <1>1, <1>3, <1>8 DEF NextTarget, Memory, MemoryFields
  <1>11. /\ jobs' = [jobs EXCEPT ![i] = new] /\ i \in DOMAIN jobs
         /\ Changed(jobs[i], new, {}) /\ Earned(jobs[i], new, answered, candles)
    BY <1>1, <1>3, <1>7
  <1> QED
    BY <1>9, <1>10, <1>11, WorkerChanges

LEMMA SucceedStep == ASSUME IInv, NEW w \in Workers, MarkSucceeded(w) PROVE IInv'
  <1>1. /\ worker[w].pc = "succeed" /\ worker[w].pc # "idle" /\ worker[w].pc \in AtTarget
        /\ UNCHANGED <<market, candles, answered, console>>
    BY DEF MarkSucceeded, rows, AtTarget
  <1>2. CASE /\ WriteOutcome(w, worker[w].at) = "ok" /\ NextTarget(w)
             /\ jobs' = [jobs EXCEPT ![worker[w].job] =
                       Refreshed([jobs[worker[w].job] EXCEPT !.targets[worker[w].at] = "succeeded"])]
    <2>1. Memory(worker[w], jobs, answered, candles)
      BY <1>1, AtWork
    <2>2. JobSlots(jobs[worker[w].job]) \subseteq answered[worker[w].at] \cup candles[worker[w].at]
      BY <1>1, <2>1 DEF Memory, Left
    <2>3. PICK v : v = "succeeded"
      OBVIOUS
    <2>4. /\ v \in {"succeeded", "failed"}
          /\ jobs' = [jobs EXCEPT ![worker[w].job] =
                       Refreshed([jobs[worker[w].job] EXCEPT !.targets[worker[w].at] = v])]
      BY <1>2, <2>3
    <2> QED
      BY <1>1, <1>2, <2>2, <2>4, RefreshStep
  <1>3. CASE NextTarget(w) /\ jobs' = jobs
    BY <1>1, <1>3, NextTargetStep
  <1>4. CASE Goto(w, "fail") /\ jobs' = jobs
    BY <1>1, <1>4, FailStep
  <1> QED
    BY <1>2, <1>3, <1>4 DEF MarkSucceeded

LEMMA MarkFailedStep == ASSUME IInv, NEW w \in Workers, MarkFailed(w) PROVE IInv'
  <1>1. /\ worker[w].pc = "fail" /\ worker[w].pc \in AtTarget
        /\ UNCHANGED <<market, candles, answered, console>>
    BY DEF MarkFailed, AtTarget
  <1>2. CASE /\ WriteOutcome(w, worker[w].at) = "ok" /\ NextTarget(w)
             /\ jobs' = [jobs EXCEPT ![worker[w].job] =
                       Refreshed([jobs[worker[w].job] EXCEPT !.targets[worker[w].at] = "failed"])]
    <2>1. PICK v : v = "failed"
      OBVIOUS
    <2>2. /\ v \in {"succeeded", "failed"} /\ v # "succeeded"
          /\ jobs' = [jobs EXCEPT ![worker[w].job] =
                       Refreshed([jobs[worker[w].job] EXCEPT !.targets[worker[w].at] = v])]
      BY <1>2, <2>1
    <2> QED
      BY <1>1, <1>2, <2>2, RefreshStep
  <1>3. CASE Exit(w)
    BY <1>1, <1>3, ExitStep
  <1> QED
    BY <1>2, <1>3 DEF MarkFailed

-----------------------------------------------------------------------------
(* The invariant holds.                                                    *)

LEMMA InitStep == Init => IInv
  <1> SUFFICES ASSUME Init PROVE IInv
    OBVIOUS
  <1>1. /\ jobs = <<>> /\ DOMAIN jobs = {} /\ console = None
        /\ market = [m \in Markets |-> NoMarket]
        /\ candles = [m \in Markets |-> {}] /\ answered = [m \in Markets |-> {}]
        /\ worker = [w \in Workers |-> Idle]
    BY DEF Init, BackfillInit
  <1>2. Jobs(jobs, answered, candles)
    BY <1>1 DEF Jobs
  <1>3. OneOpen(jobs) /\ \A m \in Markets : Quiet(jobs, m)
    BY <1>1 DEF OneOpen, Quiet
  <1>4. IsMarket(NoMarket)
    <2>1. "source_candle" \in Types
      BY DEF Types
    <2>2. /\ DOMAIN NoMarket = MarketFields
          /\ NoMarket.status = [d \in Types |-> "none"] /\ NoMarket.reason = [d \in Types |-> None]
          /\ NoMarket.desire = [d \in Types |-> FALSE]
      BY DEF NoMarket, MarketFields
    <2> QED
      BY <2>1, <2>2, DataFoundationAssumption DEF IsMarket
  <1>5. Tables
    BY <1>1, <1>4 DEF Tables
  <1>6. Memory(Idle, jobs, answered, candles)
    BY IdleRemembers
  <1>7. worker = [w \in Workers |-> worker[w]] /\ \A w \in Workers : worker[w] = Idle
    BY <1>1
  <1> QED
    BY <1>1, <1>2, <1>3, <1>5, <1>6, <1>7 DEF IInv, Console

LEMMA StutterStep == ASSUME IInv, UNCHANGED vars PROVE IInv'
  BY DEF IInv, vars, backfillVars, rows, Tables, Console

\* Every step of the operator, the catalog, the clock and the workers keeps it.
LEMMA NextStep == ASSUME IInv, Next PROVE IInv'
  <1>1. CASE CreatePlan
    BY <1>1, CreateStep
  <1>2. CASE CommitControl
    BY <1>2, ControlStep
  <1>3. ASSUME NEW j \in DOMAIN jobs,
               ApprovePlan(j) \/ ReadControl(j) \/ DeleteJob(j) \/ ExpireLease(j) \/ RetryDue(j)
        PROVE  IInv'
    BY <1>3, ApproveStep, ReadStep, DeleteStep, ExpireStep, DueStep
  <1>4. ASSUME NEW w \in Workers, ClaimNextJob(w) \/ FetchFails(w) \/ Crash(w)
        PROVE  IInv'
    BY <1>4, ClaimStep, FetchFailsStep, CrashStep
  <1>5. ASSUME NEW w \in Workers, WorkerStep(w) PROVE IInv'
    BY <1>5, TakeStep, FindStep, CheckStep, StoreStep, DoneStep, SucceedStep, MarkFailedStep
       DEF WorkerStep
  <1>6. CASE SyncMarketCatalog
    BY <1>6, SyncStep
  <1>7. ASSUME NEW m \in Markets, SetMarketTargetState(m) PROVE IInv'
    BY <1>7, TargetStateStep
  <1> QED
    BY <1>1, <1>2, <1>3, <1>4, <1>5, <1>6, <1>7 DEF Next, BackfillNext

\* The invariant of the jobs, the markets and the workers' memories.
THEOREM Inductive == Spec => []IInv
  <1>1. Init => IInv
    BY InitStep
  <1>2. IInv /\ [Next]_vars => IInv'
    BY NextStep, StutterStep
  <1> QED
    BY <1>1, <1>2, PTL DEF Spec

-----------------------------------------------------------------------------
(* What it promises.                                                       *)

\* A job that reports success was answered for every minute of every target
\* that was not stopped: a worker whose lease is lost, whose target is paused,
\* resumed or retried, cannot make it succeed with a hole
\* (collector.py run_backfill_once, _refresh_backfill_job_progress).
THEOREM Answered == Spec => []SucceededIsAnswered
  <1>1. IInv => SucceededIsAnswered
    <2> SUFFICES ASSUME IInv, NEW j \in DOMAIN jobs, jobs[j].status = "succeeded",
                        NEW m \in DOMAIN jobs[j].targets, jobs[j].targets[m] # "stopped"
                 PROVE  /\ jobs[j].targets[m] = "succeeded"
                        /\ JobSlots(jobs[j]) \subseteq answered[m] \cup candles[m]
      BY DEF SucceededIsAnswered
    <2>1. JobOK(jobs[j], answered, candles)
      BY DEF IInv, Jobs
    <2> QED
      BY <2>1 DEF JobOK
  <1> QED
    BY <1>1, Inductive, PTL

\* No two open jobs hold one market, unless an operator put one of them back:
\* the conflict queries of create_backfill_plan, approve_backfill_job and
\* _ensure_backfill_job are enough, whatever a job they look at becomes later.
THEOREM OneOpenJob == Spec => []OneOpenJobPerMarket
  <1>1. IInv => OneOpenJobPerMarket
    <2> SUFFICES ASSUME IInv, NEW j \in OpenJobs(jobs), NEW k \in OpenJobs(jobs), j # k,
                        NEW m \in Markets, HoldsOpen(jobs[j], m), HoldsOpen(jobs[k], m),
                        ~jobs[j].forced, ~jobs[k].forced
                 PROVE  FALSE
      BY Zenon DEF OneOpenJobPerMarket
    <2>1. j \in DOMAIN jobs /\ k \in DOMAIN jobs /\ Keeps(jobs[j]) /\ Keeps(jobs[k])
      BY DEF OpenJobs, Keeps
    <2> QED
      BY <2>1 DEF IInv, OneOpen
  <1> QED
    BY <1>1, Inductive, PTL

\* A market whose source spec is not active is not subscribed, and none of its
\* automatic jobs has anything to run unless an operator put the job back:
\* sync_market_catalog and set_market_target_state withdraw the work with the
\* state, and nothing brings it back before the market is active again.
THEOREM OffQuiet == Spec => []OffMarketsAreQuiet
  <1>1. IInv => OffMarketsAreQuiet
    <2> SUFFICES ASSUME IInv, NEW m \in Markets, market[m].status["source_candle"] # "active"
                 PROVE  /\ ~market[m].desire["source_candle"]
                        /\ \A j \in OpenJobs(jobs) :
                               m \in TargetsIn(jobs[j], {"pending", "running"}) =>
                                   jobs[j].manual \/ jobs[j].forced
      BY DEF OffMarketsAreQuiet
    <2>1. ~market[m].desire["source_candle"]
      BY DEF IInv, Tables, IsMarket
    <2>2. Quiet(jobs, m)
      BY DEF IInv, Off
    <2>3. ASSUME NEW j \in OpenJobs(jobs), m \in TargetsIn(jobs[j], {"pending", "running"}),
                 ~jobs[j].manual, ~jobs[j].forced
          PROVE  FALSE
      <3>1. j \in DOMAIN jobs /\ Keeps(jobs[j])
        BY <2>3 DEF OpenJobs, Keeps
      <3> QED
        BY <2>2, <2>3, <3>1 DEF Quiet, QuietJob
    <2> QED
      BY <2>1, <2>3
  <1> QED
    BY <1>1, Inductive, PTL
=============================================================================
