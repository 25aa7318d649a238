-------------------------- MODULE MarketDataProofs --------------------------
(***************************************************************************)
(* Proofs about what comes from the exchange, in three parts that share no *)
(* state.  First the rate limiter of the REST gateway (GatewayRest), which *)
(* holds its windows and its pauses for any number of threads, groups and  *)
(* answers.  Then the realtime stream and the microstructure queue, for    *)
(* any markets, types, settings and workers: a minute called available has *)
(* its frames, an applied desire is subscribed as it is desired, and no    *)
(* stored trade is forgotten by the queue.  Last the WebSocket session     *)
(* (GatewaySession), for any number of connections: what its frames are    *)
(* labelled with, and that no request drops a stream.                      *)
(***************************************************************************)
EXTENDS GatewayRest, GatewaySession, MicrostructureQueue, FiniteSums

-----------------------------------------------------------------------------
(* The pauses.                                                             *)

\* The greatest of finitely many numbers.
LEMMA MaxIsGreatest ==
    ASSUME NEW S \in SUBSET Int, IsFiniteSet(S), S # {}
    PROVE  Max(S) \in S /\ \A y \in S : y <= Max(S)
  <1>1. \E x \in S : \A y \in S : x >= y
    BY GreatestInt
  <1>2. Max(S) \in S /\ \A y \in S : Max(S) >= y
    BY <1>1 DEF Max
  <1> QED
    BY <1>2

\* Rounding a pause up to a second does not shorten it.
LEMMA CeilKeeps ==
    ASSUME NEW t \in Nat
    PROVE  CeilToSecond(t) \in Nat /\ t <= CeilToSecond(t)
  <1>1. Second \in Nat /\ Second > 0
    BY RestAssumption
  <1>2. PICK a, q, m : /\ a = t + Second - 1 /\ q = a \div Second /\ m = a % Second
    OBVIOUS
  <1>3. a \in Nat /\ q \in Nat /\ m \in 0..(Second - 1) /\ a = Second * q + m
    BY <1>1, <1>2
  <1>4. CeilToSecond(t) = q * Second /\ q * Second = Second * q /\ Second * q \in Nat
    BY <1>1, <1>2, <1>3 DEF CeilToSecond
  <1> QED
    BY <1>1, <1>2, <1>3, <1>4

\* The pause of a 418 lasts at least until the latest end that the answer
\* names: whether it names durations, deadlines, both or none that lies ahead.
LEMMA PenaltyIsEnough ==
    ASSUME NEW H \in SUBSET Pause, NEW B \in SUBSET Pause, IsFiniteSet(H), IsFiniteSet(B),
           NEW tick \in Nat
    PROVE  /\ PenaltySeconds(H, B, tick) \in Nat
           /\ \A a : a.status = 418 /\ a.header = H /\ a.body = B =>
                AskedUntil(a, tick) \in Nat /\ AskedUntil(a, tick) <= tick + PenaltySeconds(H, B, tick)
  <1> DEFINE end == [p \in Pause |-> IF p.kind = "duration" THEN tick + p.value ELSE p.value]
             ticks == [p \in Pause |-> PauseTicks(p, tick)]
             found == {ticks[p] : p \in H \union B} \ {0}
             later == {t \in {end[p] : p \in H \union B} : t > tick}
  <1>1. \A p \in Pause : /\ ticks[p] \in Nat /\ end[p] \in Nat
                         /\ end[p] > tick => end[p] = tick + ticks[p] /\ ticks[p] # 0
                         /\ ticks[p] # 0 => end[p] > tick
    BY DEF Pause, PauseTicks
  <1>2. IsFiniteSet(H \union B) /\ H \union B \subseteq Pause
    BY FS_Union
  <1>3. PICK P : P = H \union B
    OBVIOUS
  <1>4. found \in SUBSET Nat /\ later \in SUBSET Nat
    BY <1>1
  <1>5. IsFiniteSet(found) /\ IsFiniteSet(later)
    <2>1. IsFiniteSet({ticks[p] : p \in P}) /\ IsFiniteSet({end[p] : p \in P})
      <3> HIDE DEF ticks, end
      <3> QED
        BY <1>2, <1>3, ImageFinite
    <2>2. /\ found \in SUBSET {ticks[p] : p \in P}
          /\ later \in SUBSET {end[p] : p \in P}
      BY <1>3
    <2> HIDE DEF found, later, ticks, end
    <2> QED
      BY <2>1, <2>2, FS_Subset
  <1>6. Candidates(H, B, tick) = found
    BY <1>2 DEF Candidates
  <1>7. \A a : a.status = 418 /\ a.header = H /\ a.body = B =>
          AskedUntil(a, tick) = IF later = {} THEN tick + Fallback ELSE Max(later)
    <2>1. \A a : a.status = 418 /\ a.header = H /\ a.body = B =>
            LET ends == {IF p.kind = "duration" THEN tick + p.value ELSE p.value : p \in H \union B}
                ahead == {t \in ends : t > tick}
            IN  AskedUntil(a, tick) = IF ahead = {} THEN tick + Fallback ELSE Max(ahead)
      BY DEF AskedUntil
    <2>2. {IF p.kind = "duration" THEN tick + p.value ELSE p.value : p \in H \union B}
            = {end[p] : p \in H \union B}
      BY <1>2
    <2>3. PICK ends : ends = {IF p.kind = "duration" THEN tick + p.value ELSE p.value : p \in H \union B}
      OBVIOUS
    <2>4. later = {t \in ends : t > tick}
      BY <2>2, <2>3
    <2> HIDE DEF later
    <2> QED
      BY <2>1, <2>3, <2>4
  <1>8. /\ \A t \in later : \E d \in found : t = tick + d
        /\ later = {} => found = {}
    BY <1>1, <1>2
  <1>9. PenaltySeconds(H, B, tick) = IF found = {} THEN Fallback ELSE CeilToSecond(Max(found))
    BY <1>6 DEF PenaltySeconds
  <1> HIDE DEF found, later, ticks, end
  <1>10. Fallback \in Nat
    BY RestAssumption
  <1>11. found # {} => /\ Max(found) \in Nat /\ CeilToSecond(Max(found)) \in Nat
                       /\ \A d \in found : d <= CeilToSecond(Max(found))
    <2> SUFFICES ASSUME found # {}
                 PROVE  /\ Max(found) \in Nat /\ CeilToSecond(Max(found)) \in Nat
                        /\ \A d \in found : d <= CeilToSecond(Max(found))
      OBVIOUS
    <2>1. Max(found) \in found /\ \A d \in found : d <= Max(found)
      BY <1>4, <1>5, MaxIsGreatest
    <2>2. PICK top \in Nat : top = Max(found)
      BY <1>4, <2>1
    <2>3. CeilToSecond(top) \in Nat /\ top <= CeilToSecond(top)
      BY CeilKeeps
    <2> QED
      BY <1>4, <2>1, <2>2, <2>3
  <1>12. later # {} => Max(later) \in later
    BY <1>4, <1>5, MaxIsGreatest
  <1>13. PenaltySeconds(H, B, tick) \in Nat
    BY <1>9, <1>10, <1>11
  <1>14. (IF later = {} THEN tick + Fallback ELSE Max(later)) \in Nat
         /\ (IF later = {} THEN tick + Fallback ELSE Max(later)) <= tick + PenaltySeconds(H, B, tick)
    <2>1. CASE later = {}
      BY <1>8, <1>9, <1>10, <2>1
    <2>2. CASE later # {}
      <3>1. PICK t \in later : t = Max(later) /\ t \in Nat
        BY <1>4, <1>12, <2>2
      <3>2. PICK d \in found : t = tick + d /\ d \in Nat
        BY <1>4, <1>8
      <3>3. d <= PenaltySeconds(H, B, tick)
        BY <1>9, <1>11
      <3> QED
        BY <1>13, <2>2, <3>1, <3>2, <3>3
    <2> QED
      BY <2>1, <2>2
  <1> QED
    BY <1>7, <1>13, <1>14

\* What an answer asks for is covered by the pause execute imposes.
LEMMA DeferIsEnough ==
    ASSUME NEW c \in Calls, NEW a \in Answers[c], clock \in Nat, DeferTicks(a) > 0,
           NEW b, b = [a EXCEPT !.body = IF a.json THEN @ ELSE {}]
    PROVE  /\ DeferTicks(a) \in Nat /\ AskedUntil(b, clock) \in Nat
           /\ AskedUntil(b, clock) <= clock + DeferTicks(a)
  <1>1. /\ a \in Answer /\ a.status \in Nat /\ a.json \in BOOLEAN
        /\ a.header \in SUBSET Pause /\ a.body \in SUBSET Pause
        /\ IsFiniteSet(a.header) /\ IsFiniteSet(a.body) /\ Second \in Nat
    BY AnswerAssumption, RestAssumption DEF Answer
  <1>2. /\ b.status = a.status /\ b.json = a.json /\ b.header = a.header
        /\ b.body = IF a.json THEN a.body ELSE {}
    BY <1>1 DEF Answer
  <1>3. PICK B \in SUBSET Pause : B = b.body /\ IsFiniteSet(B)
    BY <1>1, <1>2, FS_EmptySet
  <1>4. CASE a.status = 418
    <2>1. DeferTicks(a) = PenaltySeconds(a.header, B, clock)
      BY <1>1, <1>2, <1>3, <1>4 DEF DeferTicks
    <2>2. /\ PenaltySeconds(a.header, B, clock) \in Nat /\ AskedUntil(b, clock) \in Nat
          /\ AskedUntil(b, clock) <= clock + PenaltySeconds(a.header, B, clock)
      <3>1. PICK H, tick : H = a.header /\ tick = clock
        OBVIOUS
      <3>2. /\ PenaltySeconds(H, B, tick) \in Nat
            /\ \A x : x.status = 418 /\ x.header = H /\ x.body = B =>
                 AskedUntil(x, tick) \in Nat /\ AskedUntil(x, tick) <= tick + PenaltySeconds(H, B, tick)
        BY <1>1, <1>3, <3>1, PenaltyIsEnough
      <3> QED
        BY <1>2, <1>3, <1>4, <3>1, <3>2
    <2> QED
      BY <2>1, <2>2
  <1>5. CASE a.status = 429 /\ a.json
    BY <1>1, <1>2, <1>5 DEF DeferTicks, AskedUntil
  <1>6. CASE a.status # 418 /\ ~(a.status = 429 /\ a.json)
    BY <1>6 DEF DeferTicks
  <1> QED
    BY <1>4, <1>5, <1>6

-----------------------------------------------------------------------------
(* The windows.                                                            *)

\* The deque cs of a group with the grants gs so far: the deque is the end of
\* the grants, what it has forgotten is older than the window, and the window
\* has never been exceeded.
WindowKept(cs, gs, tick, window, limit) ==
    /\ cs \in Seq(Nat) /\ gs \in Seq(Nat) /\ Len(cs) <= Len(gs) /\ Len(cs) <= limit
    /\ \A i \in 1..Len(cs) : cs[i] = gs[Len(gs) - Len(cs) + i]
    /\ \A i, j \in 1..Len(gs) : i <= j => gs[i] <= gs[j]
    /\ \A i \in 1..Len(gs) : gs[i] <= tick
    /\ \A i \in 1..(Len(gs) - Len(cs)) : tick - gs[i] >= window
    /\ \A i \in 1..Len(gs) : i + limit <= Len(gs) => gs[i + limit] - gs[i] >= window

\* Calls at the front that are as old as the window may be forgotten.
LEMMA KeptPop ==
    ASSUME NEW cs, NEW gs, NEW tick \in Nat, NEW window \in Nat, NEW limit \in Nat,
           WindowKept(cs, gs, tick, window, limit), NEW n \in 0..Len(cs),
           \A i \in 1..n : tick - cs[i] >= window
    PROVE  WindowKept(SubSeq(cs, n + 1, Len(cs)), gs, tick, window, limit)
  <1>1. PICK rest : rest = SubSeq(cs, n + 1, Len(cs))
    OBVIOUS
  <1>2. cs \in Seq(Nat) /\ gs \in Seq(Nat) /\ Len(cs) \in Nat /\ Len(gs) \in Nat
    BY DEF WindowKept
  <1>3. /\ rest \in Seq(Nat) /\ Len(rest) = Len(cs) - n
        /\ \A i \in 1..(Len(cs) - n) : rest[i] = cs[n + i]
    BY <1>1, <1>2
  <1>4. \A i \in 1..Len(rest) : rest[i] = gs[Len(gs) - Len(rest) + i]
    <2> SUFFICES ASSUME NEW i \in 1..Len(rest) PROVE rest[i] = gs[Len(gs) - Len(rest) + i]
      OBVIOUS
    <2>1. rest[i] = cs[n + i] /\ n + i \in 1..Len(cs)
      BY <1>2, <1>3
    <2>2. cs[n + i] = gs[Len(gs) - Len(cs) + (n + i)]
      BY <2>1 DEF WindowKept
    <2>3. Len(gs) - Len(cs) + (n + i) = Len(gs) - Len(rest) + i
      BY <1>2, <1>3
    <2> QED
      BY <2>1, <2>2, <2>3
  <1>5. ASSUME NEW i \in 1..(Len(gs) - Len(rest)) PROVE tick - gs[i] >= window
    <2>1. CASE i <= Len(gs) - Len(cs)
      BY <1>2, <2>1 DEF WindowKept
    <2>2. CASE i > Len(gs) - Len(cs)
      <3>1. PICK k : k = i - (Len(gs) - Len(cs))
        OBVIOUS
      <3>2. k \in 1..n /\ k \in 1..Len(cs) /\ i = Len(gs) - Len(cs) + k
        <4>1. PICK m, l : m = Len(gs) /\ l = Len(cs) /\ m \in Nat /\ l \in Nat /\ l <= m
          BY <1>2 DEF WindowKept
        <4>2. i \in 1..(m - (l - n)) /\ i > m - l /\ k = i - (m - l) /\ n \in 0..l
          BY <1>3, <2>2, <3>1, <4>1
        <4>3. k \in 1..n /\ k \in 1..l /\ i = m - l + k
          BY <4>1, <4>2
        <4> QED
          BY <4>1, <4>3
      <3>3. cs[k] = gs[i]
        BY <3>2 DEF WindowKept
      <3> QED
        BY <3>2, <3>3
    <2> QED
      BY <1>2, <2>1, <2>2
  <1>6. Len(rest) <= Len(gs) /\ Len(rest) <= limit
    BY <1>2, <1>3 DEF WindowKept
  <1> QED
    BY <1>1, <1>2, <1>3, <1>4, <1>5, <1>6 DEF WindowKept

\* A call may be granted while the deque is not full.
LEMMA KeptGrant ==
    ASSUME NEW cs, NEW gs, NEW tick \in Nat, NEW window \in Nat, NEW limit \in Nat,
           WindowKept(cs, gs, tick, window, limit), Len(cs) < limit
    PROVE  WindowKept(Append(cs, tick), Append(gs, tick), tick, window, limit)
  <1>1. PICK ds, hs : ds = Append(cs, tick) /\ hs = Append(gs, tick)
    OBVIOUS
  <1>2. PICK k, n : k = Len(cs) /\ n = Len(gs)
    OBVIOUS
  <1>3. /\ cs \in Seq(Nat) /\ gs \in Seq(Nat) /\ k \in Nat /\ n \in Nat /\ k <= n /\ k < limit
        /\ \A i \in 1..k : cs[i] = gs[n - k + i]
        /\ \A i, j \in 1..n : i <= j => gs[i] <= gs[j]
        /\ \A i \in 1..n : gs[i] <= tick /\ gs[i] \in Nat
        /\ \A i \in 1..(n - k) : tick - gs[i] >= window
        /\ \A i \in 1..n : i + limit <= n => gs[i + limit] - gs[i] >= window
    BY <1>2 DEF WindowKept
  <1>4. /\ ds \in Seq(Nat) /\ Len(ds) = k + 1 /\ ds[k + 1] = tick
        /\ hs \in Seq(Nat) /\ Len(hs) = n + 1 /\ hs[n + 1] = tick
        /\ \A i \in 1..k : ds[i] = cs[i]
        /\ \A i \in 1..n : hs[i] = gs[i]
    BY <1>1, <1>2, <1>3
  <1>5. \A i \in 1..(k + 1) : ds[i] = hs[(n + 1) - (k + 1) + i]
    <2> SUFFICES ASSUME NEW i \in 1..(k + 1) PROVE ds[i] = hs[(n + 1) - (k + 1) + i]
      OBVIOUS
    <2>1. (n + 1) - (k + 1) + i = n - k + i
      BY <1>3
    <2>2. CASE i = k + 1
      <3>1. n - k + i = n + 1
        BY <1>3, <2>2
      <3> QED
        BY <1>4, <2>1, <2>2, <3>1
    <2>3. CASE i # k + 1
      <3>1. i \in 1..k /\ n - k + i \in 1..n
        BY <1>3, <2>3
      <3> QED
        BY <1>3, <1>4, <2>1, <3>1
    <2> QED
      BY <2>2, <2>3
  <1>6. ASSUME NEW i \in 1..(n + 1) PROVE hs[i] <= tick
    <2>1. CASE i = n + 1
      BY <1>4, <2>1
    <2>2. CASE i # n + 1
      <3>1. i \in 1..n
        BY <1>3, <2>2
      <3> QED
        BY <1>3, <1>4, <3>1
    <2> QED
      BY <2>1, <2>2
  <1>7. ASSUME NEW i \in 1..(n + 1), NEW j \in 1..(n + 1), i <= j PROVE hs[i] <= hs[j]
    <2>1. CASE j = n + 1
      BY <1>4, <1>6, <2>1
    <2>2. CASE j # n + 1
      <3>1. i \in 1..n /\ j \in 1..n
        BY <1>3, <1>7, <2>2
      <3> QED
        BY <1>3, <1>4, <1>7, <3>1
    <2> QED
      BY <2>1, <2>2
  <1>8. ASSUME NEW i \in 1..((n + 1) - (k + 1)) PROVE tick - hs[i] >= window
    <2>1. i \in 1..(n - k) /\ i \in 1..n
      BY <1>3
    <2>2. hs[i] = gs[i] /\ tick - gs[i] >= window
      BY <1>3, <1>4, <2>1
    <2> QED
      BY <2>2
  <1>9. ASSUME NEW i \in 1..(n + 1), i + limit <= n + 1 PROVE hs[i + limit] - hs[i] >= window
    <2>1. CASE i + limit = n + 1
      <3>1. i \in 1..(n - k) /\ i \in 1..n
        BY <1>3, <2>1
      <3>2. hs[i + limit] = tick /\ hs[i] = gs[i]
        BY <1>4, <2>1, <3>1
      <3> QED
        BY <1>3, <3>1, <3>2
    <2>2. CASE i + limit # n + 1
      <3>1. i \in 1..n /\ i + limit \in 1..n
        BY <1>3, <1>9, <2>2
      <3>2. hs[i + limit] = gs[i + limit] /\ hs[i] = gs[i]
        BY <1>4, <3>1
      <3> QED
        BY <1>3, <3>1, <3>2
    <2> QED
      BY <2>1, <2>2
  <1>10. WindowKept(ds, hs, tick, window, limit)
    BY <1>3, <1>4, <1>5, <1>6, <1>7, <1>8, <1>9 DEF WindowKept
  <1> QED
    BY <1>1, <1>10

\* Time only ages what was forgotten.
LEMMA KeptTick ==
    ASSUME NEW cs, NEW gs, NEW tick \in Nat, NEW window \in Nat, NEW limit \in Nat,
           WindowKept(cs, gs, tick, window, limit)
    PROVE  WindowKept(cs, gs, tick + 1, window, limit)
  <1>1. \A i \in 1..Len(gs) : gs[i] \in Nat /\ gs[i] <= tick
    BY DEF WindowKept
  <1>2. \A i \in 1..(Len(gs) - Len(cs)) : i \in 1..Len(gs)
    BY DEF WindowKept
  <1>3. ASSUME NEW i \in 1..(Len(gs) - Len(cs)) PROVE tick + 1 - gs[i] >= window
    <2>1. gs[i] \in Nat /\ tick - gs[i] >= window
      BY <1>1, <1>2 DEF WindowKept
    <2> QED
      BY <2>1
  <1>4. \A i \in 1..Len(gs) : gs[i] <= tick + 1
    BY <1>1
  <1> QED
    BY <1>3, <1>4 DEF WindowKept

-----------------------------------------------------------------------------
(* The inductive invariant.                                                *)

\* A call past Request is one of a group with a limit, and the answer it works
\* through is one of Upbit's.
Threads ==
    /\ pc \in [Calls -> {"new", "acquire", "granted", "settle", "done"}]
    /\ DOMAIN req = Calls /\ DOMAIN answer = Calls
    /\ \A c \in Calls : /\ pc[c] \in {"acquire", "granted", "settle"} => GroupOf(c) \in Groups
                        /\ pc[c] = "settle" => answer[c] \in Answers[c]

Windows ==
    /\ DOMAIN calls = Groups /\ DOMAIN grants = Groups
    /\ \A g \in Groups : WindowKept(calls[g], grants[g], clock, Window[g], Limit[g])

\* A group is blocked at least until the end of the pauses Upbit has named.
Pauses ==
    /\ blocked \in [Groups -> Nat] /\ owed \in [Groups -> Nat]
    /\ \A g \in Groups : owed[g] <= blocked[g]

IInv == clock \in Nat /\ Threads /\ Windows /\ Pauses

\* A limiter that has seen no call.
LEMMA InitIInv == RestInit => IInv
  <1> SUFFICES ASSUME RestInit PROVE IInv
    OBVIOUS
  <1>1. clock \in Nat /\ Threads /\ Pauses
    BY DEF RestInit, Threads, Pauses
  <1>2. Windows
    <2> SUFFICES ASSUME NEW g \in Groups PROVE WindowKept(calls[g], grants[g], clock, Window[g], Limit[g])
      BY DEF RestInit, Windows
    <2>1. Limit[g] \in Nat /\ calls[g] = <<>> /\ grants[g] = <<>>
      BY RestAssumption DEF RestInit
    <2> QED
      BY <2>1 DEF WindowKept
  <1> QED
    BY <1>1, <1>2 DEF IInv

\* A call that ends leaves the limiter alone.
LEMMA FinishThreads ==
    ASSUME Threads, NEW c \in Calls, Finish(c)
    PROVE  Threads'
  BY DEF Threads, Finish, GroupOf

\* A call begins, or is refused.
LEMMA RequestStep ==
    ASSUME IInv, NEW c \in Calls, Request(c)
    PROVE  IInv'
  <1>1. UNCHANGED <<clock, calls, blocked, grants, owed>>
    BY DEF Request, limiter
  <1>2. Threads'
    <2>1. PICK r \in Requests[c] :
            \/ /\ Admitted(r) /\ pc' = [pc EXCEPT ![c] = "acquire"]
               /\ req' = [req EXCEPT ![c] = r] /\ UNCHANGED <<wake, answer>>
            \/ Finish(c)
      BY DEF Request
    <2>2. CASE Finish(c)
      BY <2>2, FinishThreads DEF IInv
    <2>3. CASE /\ Admitted(r) /\ pc' = [pc EXCEPT ![c] = "acquire"]
               /\ req' = [req EXCEPT ![c] = r] /\ UNCHANGED <<wake, answer>>
      <3>1. r.endpoint.group \in Groups
        BY <2>3, CatalogueAssumption DEF Admitted
      <3> QED
        BY <2>3, <3>1 DEF IInv, Threads, GroupOf
    <2> QED
      BY <2>1, <2>2, <2>3
  <1> QED
    BY <1>1, <1>2 DEF IInv, Windows, Pauses

\* The purge drops a prefix of calls that are as old as the window.
LEMMA RecentKept ==
    ASSUME IInv, NEW g \in Groups
    PROVE  WindowKept(Recent(g), grants[g], clock, Window[g], Limit[g])
  <1> DEFINE old == {n \in 0..Len(calls[g]) : \A i \in 1..n : clock - calls[g][i] >= Window[g]}
  <1>1. WindowKept(calls[g], grants[g], clock, Window[g], Limit[g])
    BY DEF IInv, Windows
  <1>2. Len(calls[g]) \in Nat /\ Window[g] \in Nat /\ Limit[g] \in Nat /\ clock \in Nat
    BY <1>1, RestAssumption DEF WindowKept, IInv
  <1>3. IsFiniteSet(old) /\ old \in SUBSET Int /\ old # {}
    <2>1. PICK n : n = Len(calls[g])
      OBVIOUS
    <2>2. old \in SUBSET Nat /\ n \in Nat /\ (\A k \in old : k <= n) /\ 0 \in old
      BY <1>2, <2>1
    <2> HIDE DEF old
    <2>3. IsFiniteSet(old)
      BY <2>2, FS_BoundedSetOfNaturals
    <2> QED
      BY <2>2, <2>3
  <1>4. Max(old) \in old
    <2> HIDE DEF old
    <2> QED
      BY <1>3, MaxIsGreatest
  <1>5. PICK n : n = Max(old)
    OBVIOUS
  <1>6. n \in 0..Len(calls[g]) /\ \A i \in 1..n : clock - calls[g][i] >= Window[g]
    BY <1>4, <1>5
  <1>7. Recent(g) = SubSeq(calls[g], n + 1, Len(calls[g]))
    BY <1>5 DEF Recent, Popped
  <1>8. PICK cs, gs, tick, window, limit :
          /\ cs = calls[g] /\ gs = grants[g] /\ tick = clock
          /\ window = Window[g] /\ limit = Limit[g]
    OBVIOUS
  <1>9. WindowKept(SubSeq(cs, n + 1, Len(cs)), gs, tick, window, limit)
    BY <1>1, <1>2, <1>6, <1>8, KeptPop
  <1> QED
    BY <1>7, <1>8, <1>9

\* One look of a call at its group.
LEMMA AcquireStep ==
    ASSUME IInv, NEW c \in Calls, Acquire(c)
    PROVE  IInv'
  <1>1. PICK g : g = GroupOf(c)
    OBVIOUS
  <1>2. /\ pc[c] = "acquire" /\ g \in Groups
        /\ UNCHANGED <<clock, blocked, req, answer, owed>>
        /\ DOMAIN calls = Groups /\ DOMAIN grants = Groups
    BY <1>1 DEF Acquire, IInv, Threads, Windows
  <1>3. Threads'
    <2>1. UNCHANGED pc \/ pc' = [pc EXCEPT ![c] = "granted"]
      BY DEF Acquire
    <2> QED
      BY <1>1, <1>2, <2>1 DEF IInv, Threads, GroupOf
  <1>4. WindowKept(Recent(g), grants[g], clock, Window[g], Limit[g])
    BY <1>2, RecentKept
  <1>5. Windows'
    <2>1. CASE UNCHANGED <<calls, grants>>
      BY <1>2, <2>1 DEF IInv, Windows
    <2>2. CASE /\ Len(Recent(g)) < Limit[g]
               /\ calls' = [calls EXCEPT ![g] = Append(Recent(g), clock)]
               /\ grants' = [grants EXCEPT ![g] = Append(grants[g], clock)]
      <3>1. PICK cs, gs, tick, window, limit :
              /\ cs = Recent(g) /\ gs = grants[g] /\ tick = clock
              /\ window = Window[g] /\ limit = Limit[g]
        OBVIOUS
      <3>2. tick \in Nat /\ window \in Nat /\ limit \in Nat
        BY <1>2, <3>1, RestAssumption DEF IInv
      <3>3. WindowKept(Append(cs, tick), Append(gs, tick), tick, window, limit)
        BY <1>4, <2>2, <3>1, <3>2, KeptGrant
      <3> QED
        BY <1>2, <2>2, <3>1, <3>3 DEF IInv, Windows
    <2>3. CASE calls' = [calls EXCEPT ![g] = Recent(g)] /\ grants' = grants
      BY <1>2, <1>4, <2>3 DEF IInv, Windows
    <2> QED
      BY <1>1, <2>1, <2>2, <2>3 DEF Acquire
  <1> QED
    BY <1>2, <1>3, <1>5 DEF IInv, Pauses

\* A call that ends without an answer.
LEMMA UnansweredStep ==
    ASSUME IInv, NEW c \in Calls, NoCredentials(c) \/ NoAnswerComes(c)
    PROVE  IInv'
  <1>1. Finish(c) /\ UNCHANGED <<clock, calls, blocked, grants, owed>>
    BY DEF NoCredentials, NoAnswerComes, limiter
  <1> QED
    BY <1>1, FinishThreads DEF IInv, Windows, Pauses

\* A block only grows.
LEMMA LongerKeeps ==
    ASSUME NEW old \in Nat, NEW new \in Nat
    PROVE  Longer(old, new) \in Nat /\ old <= Longer(old, new) /\ new <= Longer(old, new)
  BY DEF Longer

\* The header of an answer.
LEMMA ObserveStep ==
    ASSUME IInv, NEW c \in Calls, Observe(c)
    PROVE  IInv'
  <1>1. PICK a \in Answers[c] :
          /\ answer' = [answer EXCEPT ![c] = a]
          /\ IF a.remaining.group \in Groups /\ a.remaining.sec = 0
             THEN blocked' = [blocked EXCEPT ![a.remaining.group] = Longer(@, clock + Second)]
             ELSE UNCHANGED blocked
    BY DEF Observe
  <1>2. /\ pc[c] = "granted" /\ pc' = [pc EXCEPT ![c] = "settle"]
        /\ req' = [req EXCEPT ![c] = [endpoint |-> [group |-> GroupOf(c)]]]
        /\ UNCHANGED <<clock, calls, grants, owed>>
    BY DEF Observe
  <1>3. Threads'
    <2>1. GroupOf(c) \in Groups
      BY <1>2 DEF IInv, Threads
    <2>2. ASSUME NEW d \in Calls
          PROVE  /\ pc'[d] \in {"acquire", "granted", "settle"} => GroupOf(d)' \in Groups
                 /\ pc'[d] = "settle" => answer'[d] \in Answers[d]
      BY <1>1, <1>2, <2>1 DEF IInv, Threads, GroupOf
    <2> QED
      BY <1>1, <1>2, <2>2 DEF IInv, Threads
  <1>4. Pauses'
    <2>1. CASE UNCHANGED blocked
      BY <1>2, <2>1 DEF IInv, Pauses
    <2>2. CASE ~UNCHANGED blocked
      <3>1. PICK g \in Groups : blocked' = [blocked EXCEPT ![g] = Longer(blocked[g], clock + Second)]
        BY <1>1, <2>2
      <3>2. clock + Second \in Nat /\ blocked[g] \in Nat /\ owed[g] \in Nat /\ owed[g] <= blocked[g]
        BY RestAssumption DEF IInv, Pauses
      <3>3. Longer(blocked[g], clock + Second) \in Nat /\ blocked[g] <= Longer(blocked[g], clock + Second)
        BY <3>2, LongerKeeps
      <3> QED
        BY <1>2, <3>1, <3>2, <3>3 DEF IInv, Pauses
    <2> QED
      BY <2>1, <2>2
  <1> QED
    BY <1>2, <1>3, <1>4 DEF IInv, Windows

\* The pause of an answer.
LEMMA SettleStep ==
    ASSUME IInv, NEW c \in Calls, Settle(c)
    PROVE  IInv'
  <1>1. PICK a, g : a = answer[c] /\ g = GroupOf(c)
    OBVIOUS
  <1>2. /\ pc[c] = "settle" /\ Finish(c) /\ UNCHANGED <<clock, calls, grants>>
        /\ a \in Answers[c] /\ g \in Groups
    BY <1>1 DEF Settle, IInv, Threads
  <1>3. Pauses'
    <2>1. CASE UNCHANGED <<blocked, owed>>
      BY <2>1 DEF IInv, Pauses
    <2>2. CASE ~UNCHANGED <<blocked, owed>>
      <3>1. PICK b, ticks : /\ b = [a EXCEPT !.body = IF a.json THEN @ ELSE {}]
                            /\ ticks = DeferTicks(a)
        OBVIOUS
      <3>2. /\ ticks > 0 /\ blocked' = [blocked EXCEPT ![g] = Longer(blocked[g], clock + ticks)]
            /\ owed' = [owed EXCEPT ![g] = Max({owed[g], AskedUntil(b, clock)})]
        BY <1>1, <2>2, <3>1 DEF Settle, Deferred
      <3>3. /\ ticks \in Nat /\ AskedUntil(b, clock) \in Nat /\ AskedUntil(b, clock) <= clock + ticks
        BY <1>2, <3>1, <3>2, DeferIsEnough DEF IInv
      <3>4. PICK asked \in Nat : asked = AskedUntil(b, clock)
        BY <3>3
      <3>5. clock + ticks \in Nat /\ blocked[g] \in Nat /\ owed[g] \in Nat /\ owed[g] <= blocked[g]
        BY <1>2, <3>3 DEF IInv, Pauses
      <3>6. PICK till \in Nat : /\ till = Longer(blocked[g], clock + ticks)
                                /\ blocked[g] <= till /\ clock + ticks <= till
        BY <3>5, LongerKeeps
      <3>7. Max({owed[g], asked}) \in {owed[g], asked}
        <4>1. PICK S : S = {owed[g], asked}
          OBVIOUS
        <4>2. IsFiniteSet(S)
          <5>1. PICK x, T : x = owed[g] /\ T = {asked}
            OBVIOUS
          <5>2. IsFiniteSet(T)
            BY <5>1, FS_Singleton
          <5>3. IsFiniteSet(T \cup {x})
            BY <5>2, FS_AddElement
          <5>4. S = T \cup {x}
            BY <4>1, <5>1
          <5> QED
            BY <5>3, <5>4
        <4> QED
          BY <3>4, <3>5, <4>1, <4>2, MaxIsGreatest
      <3>8. Max({owed[g], asked}) \in Nat /\ Max({owed[g], asked}) <= till
        BY <1>2, <3>3, <3>4, <3>5, <3>6, <3>7 DEF IInv
      <3> QED
        BY <1>2, <3>2, <3>4, <3>6, <3>8 DEF IInv, Pauses
    <2> QED
      BY <2>1, <2>2
  <1>4. Threads'
    BY <1>2, FinishThreads DEF IInv
  <1> QED
    BY <1>2, <1>3, <1>4 DEF IInv, Windows

\* Time passes.
LEMMA TickStep ==
    ASSUME IInv, RestTick
    PROVE  IInv'
  <1>1. clock' = clock + 1 /\ UNCHANGED <<calls, blocked, grants, owed, pc, req, answer>>
    BY DEF RestTick, limiter
  <1>2. clock \in Nat /\ clock' \in Nat
    BY <1>1 DEF IInv
  <1>3. Windows'
    <2> SUFFICES ASSUME NEW g \in Groups
                 PROVE  WindowKept(calls[g], grants[g], clock + 1, Window[g], Limit[g])
      BY <1>1 DEF IInv, Windows
    <2>1. WindowKept(calls[g], grants[g], clock, Window[g], Limit[g])
      BY DEF IInv, Windows
    <2>2. PICK cs, gs, tick, window, limit :
            /\ cs = calls[g] /\ gs = grants[g] /\ tick = clock
            /\ window = Window[g] /\ limit = Limit[g]
      OBVIOUS
    <2>3. tick \in Nat /\ window \in Nat /\ limit \in Nat
      BY <1>2, <2>2, RestAssumption
    <2>4. WindowKept(cs, gs, tick + 1, window, limit)
      BY <2>1, <2>2, <2>3, KeptTick
    <2> QED
      BY <2>2, <2>4
  <1>4. Threads' /\ Pauses'
    BY <1>1 DEF IInv, Threads, Pauses, GroupOf
  <1> QED
    BY <1>2, <1>3, <1>4 DEF IInv

\* Every step keeps the inductive invariant.
LEMMA NextIInv == IInv /\ [RestNext]_restVars => IInv'
  <1> SUFFICES ASSUME IInv, [RestNext]_restVars PROVE IInv'
    OBVIOUS
  <1>1. CASE UNCHANGED restVars
    BY <1>1 DEF restVars, IInv, Threads, Windows, Pauses, GroupOf
  <1>2. ASSUME NEW c \in Calls, RestStep(c) PROVE IInv'
    BY <1>2, RequestStep, AcquireStep, UnansweredStep, ObserveStep, SettleStep DEF RestStep
  <1> QED
    BY <1>1, <1>2, TickStep DEF RestNext

-----------------------------------------------------------------------------
(* Theorems.                                                               *)

\* What the limiter remembers and what it has granted stay together.
THEOREM Inductive == RestSpec => []IInv
  BY InitIInv, NextIInv, PTL DEF RestSpec

\* However many threads call, whatever they wait for and whatever Upbit
\* answers, no window of a group holds more grants than its limit (acquire).
THEOREM LimitHeld == RestSpec => []WindowLimit
  <1>1. IInv => WindowLimit
    BY DEF IInv, Windows, WindowKept, WindowLimit
  <1> QED
    BY <1>1, Inductive, PTL

\* No call of a group is granted before the longest pause that Upbit has named
\* for it is over (acquire, observe, defer, parse_penalty_seconds).
THEOREM PenaltyKept == RestSpec => PenaltyHonoured
  <1>1. ASSUME IInv, [RestNext]_restVars
        PROVE  [\A g \in Groups : Len(grants'[g]) > Len(grants[g]) => clock >= owed[g]]_restVars
    <2> SUFFICES ASSUME NEW g \in Groups, Len(grants'[g]) > Len(grants[g])
                 PROVE  clock >= owed[g]
      OBVIOUS
    <2>1. Len(grants[g]) \in Nat
      BY <1>1 DEF IInv, Windows, WindowKept
    <2>2. grants' # grants
      BY <2>1
    <2>3. PICK c \in Calls : Acquire(c)
      BY <1>1, <2>2 DEF RestNext, RestStep, RestTick, Request, NoCredentials, NoAnswerComes, Observe,
         Settle, limiter, restVars
    <2>4. /\ GroupOf(c) \in Groups /\ blocked[GroupOf(c)] <= clock
          /\ grants' = [grants EXCEPT ![GroupOf(c)] = Append(@, clock)]
      BY <1>1, <2>2, <2>3 DEF Acquire, IInv, Threads
    <2>5. g = GroupOf(c)
      BY <1>1, <2>1, <2>4 DEF IInv, Windows
    <2> QED
      BY <1>1, <2>4, <2>5 DEF IInv, Pauses
  <1> QED
    BY <1>1, Inductive, PTL DEF RestSpec, PenaltyHonoured

-----------------------------------------------------------------------------
(* Sequences of a set's elements, and sequences joined.                    *)

\* The elements of a finite set in some order.
LEMMA Listed ==
    ASSUME NEW S, IsFiniteSet(S)
    PROVE  SetToSeq(S) \in Seq(S) /\ Len(SetToSeq(S)) = Cardinality(S)
  <1>1. PICK n \in Nat : ExistsBijection(1..n, S)
    BY FS_NatBijection
  <1>2. IsFiniteSet(1..n) /\ Cardinality(1..n) = n
    BY FS_Interval
  <1>3. n = Cardinality(S)
    BY <1>1, <1>2, FS_Bijection
  <1>4. PICK g \in [1..n -> S] : \A a, b \in 1..n : g[a] = g[b] => a = b
    BY <1>1 DEF ExistsBijection, Bijection, Injection, IsInjective
  <1>5. \E h \in [1..Cardinality(S) -> S] : IsInjective(h)
    BY <1>3, <1>4 DEF IsInjective
  <1>6. SetToSeq(S) \in [1..Cardinality(S) -> S]
    BY <1>5 DEF SetToSeq
  <1> QED
    BY <1>3, <1>6

-----------------------------------------------------------------------------
(* Verdicts.                                                               *)

\* The rows of realtime_connection_quality_intervals.
VerdictRow ==
    [conn : Nat, market : Markets \cup {All}, type : Types, from : Int, to : Int,
     quality : {"available", "unverified", "missing"},
     reason : {"continuous_connection", "failed", "partial", "reconnection_gap"}, at : Int]

\* Inserting verdicts of V into verdicts of V.
LEMMA InsertedVerdicts ==
    ASSUME NEW V, NEW vs \in Seq(V), NEW new \in Seq(V)
    PROVE  InsertVerdicts(vs, new) \in Seq(V)
  <1> DEFINE f == [p \in Seq(V) \X V |-> InsertVerdict(p[1], p[2])]
             Is(it) == it = [t \in SUBSET DOMAIN new |->
                               IF t = {} THEN vs
                               ELSE InsertVerdict(it[t \ {Max(t)}], new[Max(t)])]
             fold == CHOOSE it : Is(it)
  <1>1. f \in [Seq(V) \X V -> Seq(V)]
    BY DEF InsertVerdict
  <1>2. PICK it : IsFold(it, f, vs, new, Seq(V), V)
    <2> HIDE DEF f
    <2> QED
      BY <1>1, FoldExists
  <1>3. Is(it)
    BY <1>2 DEF IsFold, FoldsTo
  <1>4. Is(fold)
    BY <1>3
  <1>5. InsertVerdicts(vs, new) = fold[DOMAIN new]
    BY DEF InsertVerdicts, FoldLeft, MapThenFoldSet
  <1>6. StepsTo(fold, f, vs, new, Seq(V))
    <2>1. ASSUME NEW t \in SUBSET DOMAIN new, t # {}, fold[t \ {Max(t)}] \in Seq(V)
          PROVE  fold[t] = f[<<fold[t \ {Max(t)}], new[Max(t)]>>]
      <3>1. new[Max(t)] \in V
        BY <1>2, <2>1 DEF IsFold
      <3>2. fold[t] = InsertVerdict(fold[t \ {Max(t)}], new[Max(t)])
        BY <1>4, <2>1
      <3> HIDE DEF fold
      <3> QED
        BY <2>1, <3>1, <3>2
    <2>2. fold[{}] = vs
      BY <1>4
    <2>3. DOMAIN new = 1..Len(new)
      OBVIOUS
    <2> HIDE DEF fold, f
    <2> QED
      BY <2>1, <2>2, <2>3 DEF StepsTo
  <1>7. \A t \in SUBSET (1..Len(new)) : fold[t] \in Seq(V)
    <2> HIDE DEF fold, f
    <2> QED
      BY <1>1, <1>6, FoldWithin
  <1>8. DOMAIN new \in SUBSET (1..Len(new))
    OBVIOUS
  <1> HIDE DEF fold
  <1> QED
    BY <1>5, <1>7, <1>8

\* The elements of several sequences, one after the other.
LEMMA Flattened ==
    ASSUME NEW V, NEW ss \in Seq(Seq(V))
    PROVE  FlattenSeq(ss) \in Seq(V)
  <1> DEFINE f == [p \in Seq(V) \X Seq(V) |-> p[1] \o p[2]]
             Is(h) == h = [i \in 1..Len(ss) |-> IF i = 1 THEN ss[i] ELSE h[i - 1] \o ss[i]]
             flat == CHOOSE h : Is(h)
  <1>1. Len(ss) \in Nat /\ DOMAIN ss = 1..Len(ss) /\ \A i \in 1..Len(ss) : ss[i] \in Seq(V)
    OBVIOUS
  <1>2. f \in [Seq(V) \X Seq(V) -> Seq(V)] /\ <<>> \in Seq(V)
    OBVIOUS
  <1>3. PICK it : IsFold(it, f, <<>>, ss, Seq(V), Seq(V))
    <2> HIDE DEF f
    <2> QED
      BY <1>2, FoldExists
  <1>4. ASSUME NEW i \in 1..Len(ss)
        PROVE  Max(1..i) = i /\ (1..i) \ {i} = 1..(i - 1) /\ 1..i # {}
    <2>1. i \in Nat /\ i \in 1..i /\ 1..i \in SUBSET (1..i)
      BY <1>1
    <2>2. Max(1..i) \in 1..i /\ Max(1..i) >= i
      <3>1. IsFiniteSet(1..i)
        BY <2>1, FS_Interval
      <3>2. 1..i \in SUBSET Int
        OBVIOUS
      <3>3. 1..i # {}
        BY <2>1
      <3> QED
        BY <2>1, <3>1, <3>2, <3>3, MaxIn
    <2>3. Max(1..i) = i
      BY <2>1, <2>2
    <2>4. \A j : j \in (1..i) \ {i} <=> j \in 1..(i - 1)
      BY <2>1
    <2> QED
      BY <2>1, <2>3, <2>4
  <1>5. ASSUME NEW i \in 1..Len(ss)
        PROVE  it[1..i] = it[1..(i - 1)] \o ss[i] /\ it[1..(i - 1)] \in Seq(V)
    <2>1. 1..i \in SUBSET DOMAIN ss /\ 1..i # {}
      BY <1>1, <1>4
    <2>2. it[1..i] = f[<<it[(1..i) \ {Max(1..i)}], ss[Max(1..i)]>>]
      BY <1>3, <2>1 DEF IsFold, FoldsTo
    <2>3. it[(1..i) \ {Max(1..i)}] \in Seq(V)
      BY <1>3, <2>1 DEF IsFold
    <2>4. it[1..(i - 1)] \in Seq(V) /\ it[1..i] = f[<<it[1..(i - 1)], ss[i]>>]
      BY <1>4, <2>2, <2>3
    <2> QED
      BY <1>1, <2>4
  <1>6. it[{}] = <<>> /\ 1..0 = {}
    BY <1>1, <1>3 DEF IsFold, FoldsTo
  <1>7. Is([i \in 1..Len(ss) |-> it[1..i]])
    <2> DEFINE g == [i \in 1..Len(ss) |-> it[1..i]]
    <2>1. ASSUME NEW i \in 1..Len(ss)
          PROVE  it[1..i] = IF i = 1 THEN ss[i] ELSE g[i - 1] \o ss[i]
      <3>1. CASE i = 1
        <4>1. it[1..i] = it[1..(i - 1)] \o ss[i]
          BY <1>5
        <4>2. it[1..i] = <<>> \o ss[i]
          <5>1. 1..(i - 1) = {}
            BY <3>1
          <5> QED
            BY <1>6, <4>1, <5>1
        <4> QED
          BY <1>1, <3>1, <4>2
      <3>2. CASE i # 1
        <4>1. i - 1 \in 1..Len(ss)
          BY <1>1, <3>2
        <4>2. g[i - 1] = it[1..(i - 1)]
          BY <4>1
        <4> QED
          BY <1>5, <3>2, <4>2
      <3> QED
        BY <3>1, <3>2
    <2> QED
      BY <2>1
  <1>8. Is(flat)
    BY <1>7
  <1>9. Len(ss) # 0 => FlattenSeq(ss) = flat[Len(ss)]
    BY DEF FlattenSeq
  <1>10. \A i \in 1..Len(ss) : flat[i] \in Seq(V)
    <2> DEFINE Bad == {i \in 1..Len(ss) : flat[i] \notin Seq(V)}
    <2>1. ASSUME Bad # {} PROVE FALSE
      <3>1. Bad \in SUBSET Nat
        <4> HIDE DEF flat
        <4> QED
          OBVIOUS
      <3>2. PICK i \in Bad : \A j \in Bad : i <= j
        <4> HIDE DEF Bad
        <4> QED
          BY <2>1, <3>1, LeastNat
      <3>3. i \in 1..Len(ss) /\ flat[i] \notin Seq(V)
        OBVIOUS
      <3>4. flat[i] = IF i = 1 THEN ss[i] ELSE flat[i - 1] \o ss[i]
        BY <1>8, <3>3
      <3>5. i # 1 => flat[i - 1] \in Seq(V)
        <4>1. ASSUME i # 1 PROVE i - 1 \in 1..Len(ss) /\ ~(i <= i - 1)
          BY <1>1, <3>3, <4>1
        <4>2. i # 1 => i - 1 \notin Bad
          <5> HIDE DEF Bad
          <5> QED
            BY <3>2, <4>1
        <4> HIDE DEF flat
        <4> QED
          BY <4>1, <4>2
      <3> HIDE DEF flat
      <3> QED
        BY <1>1, <3>3, <3>4, <3>5
    <2> HIDE DEF flat
    <2> QED
      BY <2>1
  <1>11. CASE Len(ss) = 0
    <2>1. ss = <<>>
      BY <1>11
    <2> QED
      BY <1>11, <2>1 DEF FlattenSeq
  <1>12. CASE Len(ss) # 0
    <2> HIDE DEF flat
    <2> QED
      BY <1>1, <1>9, <1>10, <1>12
  <1> QED
    BY <1>11, <1>12

\* The rows of realtime_connection_sessions.
Session ==
    [on : SUBSET Channels, scope : SUBSET Channels, connected : Nat,
     status : {"active", "failed", "closed"}, ended : Nat]

\* Halves of minutes are integers.
LEMMA Halves ==
    ASSUME NEW t \in Int
    PROVE  Floor(t) \in Int /\ Ceil(t) \in Int
  BY DEF Floor, Ceil

LEMMA EarlierHalf ==
    ASSUME NEW t \in Int, NEW u \in Int, t <= u
    PROVE  Floor(t) <= Floor(u)
  BY DEF Floor

LEMMA MaxOfTwo ==
    ASSUME NEW a \in Int, NEW b \in Int
    PROVE  Max2(a, b) \in Int /\ Min2(a, b) \in Int /\ Max2(a, b) >= a /\ Max2(a, b) >= b
  BY DEF Max2, Min2

\* The ends of verdicts are finitely many integers.
LEMMA EndsOfVerdicts ==
    ASSUME NEW vs \in Seq(VerdictRow), NEW s, NEW d, NEW qs
    PROVE  Ends(vs, s, d, qs) \in SUBSET Int /\ IsFiniteSet(Ends(vs, s, d, qs))
  <1> DEFINE D == {j \in DOMAIN vs : vs[j].conn = s /\ vs[j].type = d /\ vs[j].quality \in qs}
             f == [j \in DOMAIN vs |-> vs[j].to]
  <1>1. \A j \in DOMAIN vs : vs[j] \in VerdictRow
    OBVIOUS
  <1>2. \A j \in DOMAIN vs : vs[j].to \in Int
    BY <1>1 DEF VerdictRow
  <1>3. IsFiniteSet(D)
    <2>1. Len(vs) \in Nat /\ DOMAIN vs = 1..Len(vs) /\ D \subseteq DOMAIN vs
      OBVIOUS
    <2>2. IsFiniteSet(1..Len(vs))
      BY <2>1, FS_Interval
    <2> HIDE DEF D
    <2> QED
      BY <2>1, <2>2, FS_Subset
  <1>4. IsFiniteSet({f[j] : j \in D})
    <2> HIDE DEF D, f
    <2> QED
      BY <1>3, ImageFinite
  <1>5. Ends(vs, s, d, qs) = {f[j] : j \in D}
    BY DEF Ends
  <1>6. Ends(vs, s, d, qs) \in SUBSET Int
    BY <1>2 DEF Ends
  <1> QED
    BY <1>4, <1>5, <1>6

\* The types of a session's scope, in some order.
LEMMA TypesInScope ==
    ASSUME sessions \in Seq(Session), NEW s \in 1..Len(sessions)
    PROVE  ScopeTypes(s) \in Seq(Types)
  <1> DEFINE S == {c[2] : c \in sessions[s].scope}
  <1>1. sessions[s] \in Session
    OBVIOUS
  <1>2. sessions[s].scope \subseteq Channels
    BY <1>1 DEF Session
  <1>3. S \subseteq Types
    BY <1>2 DEF Channels
  <1>4. IsFiniteSet(S)
    BY <1>3, StreamAssumption, FS_Subset
  <1>5. SetToSeq(S) \in Seq(S)
    <2> HIDE DEF S
    <2> QED
      BY <1>4, Listed
  <1>6. SetToSeq(S) \in Seq(Types)
    <2> HIDE DEF S
    <2> QED
      BY <1>3, <1>5
  <1> QED
    BY <1>6 DEF ScopeTypes

\* What a flush says of the complete minutes.
LEMMA Progress ==
    ASSUME sessions \in Seq(Session), NEW s \in 1..Len(sessions), NEW vs \in Seq(VerdictRow),
           NEW last \in Int, NEW V,
           \A d \in Types, from \in Int : from + 1 <= Floor(last) =>
               Verdict(s, All, d, from, from + 1, "available", "continuous_connection", last) \in V
    PROVE  ProgressVerdicts(vs, s, last) \in Seq(V)
  <1> DEFINE first == Ceil(sessions[s].connected)
             start(d) == Max(Ends(vs, s, d, {"available"}) \cup {first})
             minutes(d) == [k \in 1..Max2(0, CompletedThrough(last) - start(d)) |->
                              Verdict(s, All, d, start(d) + k - 1, start(d) + k,
                                      "available", "continuous_connection", last)]
             ss == [i \in DOMAIN ScopeTypes(s) |-> minutes(ScopeTypes(s)[i])]
  <1>1. first \in Int
    <2>1. sessions[s] \in Session
      OBVIOUS
    <2>2. sessions[s].connected \in Int
      BY <2>1 DEF Session
    <2> QED
      BY <2>2, Halves
  <1>2. ASSUME NEW d \in Types PROVE start(d) \in Int
    <2> DEFINE E == Ends(vs, s, d, {"available"}) \cup {first}
    <2>1. E \in SUBSET Int /\ E # {}
      BY <1>1, EndsOfVerdicts
    <2>2. IsFiniteSet(E)
      BY EndsOfVerdicts, FS_AddElement
    <2> HIDE DEF E
    <2>3. Max(E) \in Int
      BY <2>1, <2>2, MaxIn
    <2> QED
      BY <2>3 DEF E
  <1> HIDE DEF start, first
  <1>3. ASSUME NEW d \in Types PROVE minutes(d) \in Seq(V)
    <2>1. Floor(last) \in Int /\ start(d) \in Int
      BY <1>2, Halves
    <2>2. PICK n : n = Max2(0, CompletedThrough(last) - start(d))
      OBVIOUS
    <2>3. n \in Nat /\ (n # 0 => n = Floor(last) - start(d))
      BY <2>1, <2>2 DEF Max2, CompletedThrough
    <2>4. ASSUME NEW k \in 1..n
          PROVE  Verdict(s, All, d, start(d) + k - 1, start(d) + k,
                         "available", "continuous_connection", last) \in V
      <3>1. PICK from \in Int : from = start(d) + k - 1
        BY <2>1, <2>3
      <3>2. from + 1 = start(d) + k /\ from + 1 <= Floor(last)
        BY <2>1, <2>3, <3>1
      <3>3. Verdict(s, All, d, from, from + 1, "available", "continuous_connection", last) \in V
        BY <3>2
      <3> QED
        BY <3>1, <3>2, <3>3
    <2> QED
      BY <2>2, <2>3, <2>4
  <1>4. ss \in Seq(Seq(V))
    <2>1. ScopeTypes(s) \in Seq(Types)
      BY TypesInScope
    <2> HIDE DEF minutes
    <2>2. \A i \in DOMAIN ScopeTypes(s) : minutes(ScopeTypes(s)[i]) \in Seq(V)
      BY <1>3, <2>1
    <2> QED
      BY <2>1, <2>2
  <1>5. FlattenSeq(ss) \in Seq(V)
    <2> HIDE DEF ss
    <2> QED
      BY <1>4, Flattened
  <1> QED
    BY <1>5 DEF ProgressVerdicts, start, first

\* A row of a verdict.
LEMMA VerdictInTable ==
    ASSUME NEW s \in Nat, NEW m \in Markets \cup {All}, NEW d \in Types, NEW from \in Int, NEW to \in Int,
           NEW q \in {"available", "unverified", "missing"},
           NEW r \in {"continuous_connection", "failed", "partial", "reconnection_gap"},
           NEW at \in Int
    PROVE  /\ Verdict(s, m, d, from, to, q, r, at) \in VerdictRow
           /\ Verdict(s, m, d, from, to, q, r, at).conn = s
           /\ Verdict(s, m, d, from, to, q, r, at).from = from
           /\ Verdict(s, m, d, from, to, q, r, at).to = to
           /\ Verdict(s, m, d, from, to, q, r, at).quality = q
  BY DEF Verdict, VerdictRow

\* The rows that say nothing good, and those of V.
LEMMA InsertedVerdict ==
    ASSUME NEW V, NEW vs \in Seq(V), NEW v \in V
    PROVE  InsertVerdict(vs, v) \in Seq(V)
  BY DEF InsertVerdict

\* What closing a session says of a data type.
LEMMA Closing ==
    ASSUME sessions \in Seq(Session), NEW s \in 1..Len(sessions), NEW failed \in BOOLEAN,
           now \in Int, NEW V \in SUBSET VerdictRow, NEW vs \in Seq(V), NEW d \in Types,
           \A from, to \in Int, q \in {"unverified", "missing"}, r \in {"failed", "partial"} :
               Verdict(s, All, d, from, to, q, r, now) \in V
    PROVE  CloseType(s, failed, vs, d) \in Seq(V)
  <1> DEFINE c == sessions[s].connected
             unverified(from, to) ==
                 Verdict(s, All, d, from, to, "unverified", IF failed THEN "failed" ELSE "partial", now)
             one == IF c % 2 = 1 /\ c < now
                    THEN InsertVerdict(vs, unverified(Floor(c), Ceil(Min2(2 * Ceil(c), now))))
                    ELSE vs
             ends == Ends(one, s, d, {"available", "unverified", "missing"})
             latest == IF ends = {} THEN Ceil(c) ELSE Max(ends)
             missing == Max2(Ceil(c), latest)
             two == IF failed /\ missing < Floor(now)
                    THEN InsertVerdict(one,
                            Verdict(s, All, d, missing, Floor(now), "missing", "failed", now))
                    ELSE one
             partial == Max({c, 2 * Floor(now), 2 * latest})
             three == IF partial < now THEN InsertVerdict(two, unverified(Floor(partial), Ceil(now))) ELSE two
  <1>1. c \in Int
    <2>1. sessions[s] \in Session
      OBVIOUS
    <2> QED
      BY <2>1 DEF Session
  <1>2. \A from, to \in Int : unverified(from, to) \in V
    OBVIOUS
  <1> HIDE DEF c, unverified
  <1>3. one \in Seq(V)
    <2>1. Floor(c) \in Int /\ Ceil(c) \in Int
      BY <1>1, Halves
    <2>2. PICK a : a = Min2(2 * Ceil(c), now)
      OBVIOUS
    <2>3. a \in Int
      BY <2>1, <2>2 DEF Min2
    <2>4. Ceil(a) \in Int
      BY <2>3, Halves
    <2>5. InsertVerdict(vs, unverified(Floor(c), Ceil(a))) \in Seq(V)
      BY <1>2, <2>1, <2>4, InsertedVerdict
    <2> QED
      BY <2>2, <2>5
  <1> HIDE DEF one
  <1>4. ends \in SUBSET Int /\ IsFiniteSet(ends)
    <2>1. one \in Seq(VerdictRow)
      BY <1>3
    <2> QED
      BY <2>1, EndsOfVerdicts
  <1> HIDE DEF ends
  <1>5. latest \in Int
    <2>1. ends # {} => Max(ends) \in Int
      BY <1>4, MaxIn
    <2>2. Ceil(c) \in Int
      BY <1>1, Halves
    <2> QED
      BY <2>1, <2>2
  <1> HIDE DEF latest
  <1>6. missing \in Int
    BY <1>1, <1>5, Halves DEF Max2
  <1> HIDE DEF missing
  <1>7. two \in Seq(V)
    <2>1. Floor(now) \in Int
      BY Halves
    <2>2. Verdict(s, All, d, missing, Floor(now), "missing", "failed", now) \in V
      BY <1>6, <2>1
    <2> QED
      BY <1>3, <2>2, InsertedVerdict
  <1> HIDE DEF two
  <1>8. partial \in Int
    <2> DEFINE E == {c, 2 * Floor(now), 2 * latest}
    <2>1. Floor(now) \in Int
      BY Halves
    <2>2. E \in SUBSET Int /\ E # {}
      BY <1>1, <1>5, <2>1
    <2>3. IsFiniteSet(E)
      <3>1. IsFiniteSet({c}) /\ IsFiniteSet({2 * Floor(now)}) /\ IsFiniteSet({2 * latest})
        BY FS_Singleton
      <3>2. E = ({c} \cup {2 * Floor(now)}) \cup {2 * latest}
        OBVIOUS
      <3> HIDE DEF E
      <3> QED
        BY <3>1, <3>2, FS_Union
    <2> HIDE DEF E
    <2>4. Max(E) \in Int
      BY <2>2, <2>3, MaxIn
    <2> QED
      BY <2>4 DEF E
  <1> HIDE DEF partial
  <1>9. three \in Seq(V)
    <2>1. Floor(partial) \in Int /\ Ceil(now) \in Int
      BY <1>8, Halves
    <2>2. unverified(Floor(partial), Ceil(now)) \in V
      BY <1>2, <2>1
    <2> QED
      BY <1>7, <2>2, InsertedVerdict
  <1> QED
    BY <1>9 DEF CloseType, c, unverified, one, ends, latest, missing, two, partial

\* What a reconnection says of the gap.
LEMMA Gaps ==
    ASSUME sessions \in Seq(Session), now \in Int, NEW on \in SUBSET Channels,
           NEW V,
           \A s \in Nat, m \in Markets, d \in Types, from, to \in Int :
               Verdict(s, m, d, from, to, "missing", "reconnection_gap", now) \in V
    PROVE  GapVerdicts(on) \in Seq(V)
  <1> DEFINE from(c) == Floor(sessions[LastGapSession(c[1], c[2])].ended)
             gaps == {c \in Scope(on) : GapSessions(c[1], c[2]) # {} /\ from(c) < Ceil(now)}
             verdict(c) == Verdict(LastGapSession(c[1], c[2]), c[1], c[2], from(c), Ceil(now),
                                   "missing", "reconnection_gap", now)
             cs == SetToSeq(gaps)
  <1>1. gaps \subseteq Channels
    BY DEF Scope, Channels
  <1>2. IsFiniteSet(gaps)
    <2>1. IsFiniteSet(Markets \X Types)
      BY StreamAssumption, FS_Product
    <2> HIDE DEF gaps
    <2> QED
      BY <1>1, <2>1, FS_Subset DEF Channels
  <1>3. cs \in Seq(gaps)
    <2> HIDE DEF gaps
    <2> QED
      BY <1>2, Listed
  <1>4. ASSUME NEW c \in gaps PROVE verdict(c) \in V
    <2>1. c[1] \in Markets /\ c[2] \in Types
      <3> HIDE DEF gaps
      <3> QED
        BY <1>1 DEF Channels
    <2> DEFINE G == GapSessions(c[1], c[2])
               last == LastGapSession(c[1], c[2])
    <2>2. G # {} /\ G \subseteq DOMAIN sessions
      BY DEF GapSessions
    <2>3. Len(sessions) \in Nat /\ DOMAIN sessions = 1..Len(sessions)
      OBVIOUS
    <2>4. \A s \in DOMAIN sessions : sessions[s].ended \in Int
      <3>1. \A s \in DOMAIN sessions : sessions[s] \in Session
        OBVIOUS
      <3> QED
        BY <3>1 DEF Session
    <2>5. last \in G
      <3> DEFINE ended == [s \in DOMAIN sessions |-> sessions[s].ended]
                 E == {ended[s] : s \in G}
      <3>1. IsFiniteSet(G)
        <4>1. IsFiniteSet(1..Len(sessions))
          BY <2>3, FS_Interval
        <4> HIDE DEF G
        <4> QED
          BY <2>2, <2>3, <4>1, FS_Subset
      <3>2. IsFiniteSet(E)
        <4> HIDE DEF G, ended
        <4> QED
          BY <3>1, ImageFinite
      <3>3. E \in SUBSET Int /\ E # {}
        <4> HIDE DEF G
        <4> QED
          BY <2>2, <2>4
      <3>4. PICK x \in E : \A y \in E : x >= y
        <4> HIDE DEF E
        <4> QED
          BY <3>2, <3>3, GreatestInt
      <3>5. PICK s \in G : x = ended[s]
        <4> HIDE DEF G
        <4> QED
          OBVIOUS
      <3>6. \A o \in G : sessions[o].ended <= sessions[s].ended
        <4> HIDE DEF G
        <4>1. \A o \in G : ended[o] \in E /\ ended[o] = sessions[o].ended /\ ended[o] \in Int
          BY <2>2, <2>4
        <4> HIDE DEF E, ended
        <4>2. x = sessions[s].ended
          BY <3>5, <4>1
        <4>3. \A o \in G : x >= sessions[o].ended
          BY <3>4, <4>1
        <4> QED
          BY <2>2, <2>4, <4>2, <4>3
      <3>7. \E z \in G : \A o \in G : sessions[o].ended <= sessions[z].ended
        BY <3>6
      <3> QED
        BY <3>7 DEF LastGapSession
    <2>6. last \in Nat /\ sessions[last].ended \in Int
      <3> HIDE DEF G, last
      <3> QED
        BY <2>2, <2>3, <2>4, <2>5
    <2>7. from(c) \in Int /\ Ceil(now) \in Int
      BY <2>6, Halves
    <2> HIDE DEF from, last
    <2> QED
      BY <2>1, <2>6, <2>7 DEF last
  <1> HIDE DEF gaps, verdict
  <1>5. [i \in DOMAIN cs |-> verdict(cs[i])] \in Seq(V)
    <2> HIDE DEF cs
    <2>1. \A i \in DOMAIN cs : verdict(cs[i]) \in V
      BY <1>3, <1>4
    <2> QED
      BY <1>3, <2>1
  <1> QED
    BY <1>5 DEF GapVerdicts, gaps, verdict

\* What closing a session says of all its data types.
LEMMA Closed ==
    ASSUME sessions \in Seq(Session), NEW s \in 1..Len(sessions), NEW failed \in BOOLEAN,
           now \in Int, NEW V \in SUBSET VerdictRow, NEW vs \in Seq(V),
           \A d \in Types, from, to \in Int, q \in {"unverified", "missing"}, r \in {"failed", "partial"} :
               Verdict(s, All, d, from, to, q, r, now) \in V
    PROVE  CloseVerdicts(vs, s, failed) \in Seq(V)
  <1> DEFINE ds == ScopeTypes(s)
  <1> DEFINE f == [p \in Seq(V) \X Types |-> CloseType(s, failed, p[1], p[2])]
             Is(it) == it = [t \in SUBSET DOMAIN ds |->
                               IF t = {} THEN vs
                               ELSE CloseType(s, failed, it[t \ {Max(t)}], ds[Max(t)])]
             fold == CHOOSE it : Is(it)
  <1>1. ds \in Seq(Types)
    BY TypesInScope
  <1>2. f \in [Seq(V) \X Types -> Seq(V)]
    BY Closing
  <1>3. PICK it : IsFold(it, f, vs, ds, Seq(V), Types)
    <2> HIDE DEF f, ds
    <2> QED
      BY <1>1, <1>2, FoldExists
  <1>4. Is(it)
    BY <1>3 DEF IsFold, FoldsTo
  <1>5. Is(fold)
    BY <1>4
  <1>6. CloseVerdicts(vs, s, failed) = fold[DOMAIN ds]
    BY DEF CloseVerdicts, FoldLeft, MapThenFoldSet
  <1>7. StepsTo(fold, f, vs, ds, Seq(V))
    <2>1. ASSUME NEW t \in SUBSET DOMAIN ds, t # {}, fold[t \ {Max(t)}] \in Seq(V)
          PROVE  fold[t] = f[<<fold[t \ {Max(t)}], ds[Max(t)]>>]
      <3>1. ds[Max(t)] \in Types
        BY <1>3, <2>1 DEF IsFold
      <3>2. fold[t] = CloseType(s, failed, fold[t \ {Max(t)}], ds[Max(t)])
        BY <1>5, <2>1
      <3> HIDE DEF fold, ds
      <3> QED
        BY <2>1, <3>1, <3>2
    <2>2. fold[{}] = vs
      BY <1>5
    <2>3. DOMAIN ds = 1..Len(ds)
      BY <1>1
    <2> HIDE DEF fold, f, ds
    <2> QED
      BY <2>1, <2>2, <2>3 DEF StepsTo
  <1>8. \A t \in SUBSET (1..Len(ds)) : fold[t] \in Seq(V)
    <2> HIDE DEF fold, f, ds
    <2> QED
      BY <1>1, <1>2, <1>7, FoldWithin
  <1>9. DOMAIN ds \in SUBSET (1..Len(ds))
    BY <1>1
  <1> HIDE DEF fold, ds
  <1> QED
    BY <1>6, <1>8, <1>9

-----------------------------------------------------------------------------
(* Frames and trades.                                                      *)

\* The rows of trade_events, and what a table of them may grow to.
TradeRow == [market : Markets, trade : Nat, bucket : Int, at : Int]
Grown(ts) ==
    {us \in Seq(TradeRow) : Len(ts) <= Len(us) /\ \A i \in 1..Len(ts) : us[i] = ts[i]}

\* A frame on its way, and one in the buffer: the trade it carries happened.
Sent(tp) ==
    {x \in [channel : Channels, trade : Nat] : x.trade \in 1..Len(tp[x.channel[1]])}
Buffered(n, tp) ==
    {x \in [seq : Nat, channel : Channels, trade : Nat, at : Nat] :
        x.at <= n /\ (x.trade # 0 => x.trade \in 1..Len(tp[x.channel[1]]))}

\* A frame adds at most its trade.
LEMMA FrameInserted ==
    ASSUME NEW tp, tape = tp, tp \in [Markets -> Seq(Nat)], NEW s, NEW ts, NEW acc \in Grown(ts),
           ts \in Seq(TradeRow), NEW x \in Buffered(now, tp)
    PROVE  InsertFrame(s, acc, x) \in Grown(ts)
  <1> DEFINE row == [market |-> x.channel[1], trade |-> x.trade,
                     bucket |-> Floor(tape[x.channel[1]][x.trade]), at |-> x.at]
  <1>1. /\ x.channel \in Channels /\ x.trade \in Nat /\ x.at \in Nat
        /\ x.trade # 0 => x.trade \in 1..Len(tp[x.channel[1]])
    BY DEF Buffered
  <1>2. x.channel[1] \in Markets
    BY <1>1 DEF Channels
  <1>3. CASE x.trade = 0
    BY <1>3 DEF InsertFrame
  <1>4. CASE x.trade # 0
    <2>1. tp[x.channel[1]] \in Seq(Nat)
      BY <1>2
    <2>2. tp[x.channel[1]][x.trade] \in Int
      BY <1>1, <1>4, <2>1
    <2>3. Floor(tape[x.channel[1]][x.trade]) \in Int
      BY <2>2, Halves
    <2>4. row \in TradeRow
      BY <1>1, <1>2, <2>3 DEF TradeRow
    <2> HIDE DEF row
    <2>5. Append(acc, row) \in Grown(ts)
      <3>1. acc \in Seq(TradeRow) /\ Len(ts) <= Len(acc) /\ \A i \in 1..Len(ts) : acc[i] = ts[i]
        BY DEF Grown
      <3>2. Len(ts) \in Nat /\ Len(acc) \in Nat
        BY <3>1
      <3>3. Append(acc, row) \in Seq(TradeRow) /\ Len(Append(acc, row)) = Len(acc) + 1
        BY <2>4, <3>1
      <3>4. \A i \in 1..Len(ts) : Append(acc, row)[i] = ts[i]
        BY <3>1, <3>2
      <3>5. PICK us : us = Append(acc, row)
        OBVIOUS
      <3>6. us \in Seq(TradeRow) /\ Len(ts) <= Len(us) /\ \A i \in 1..Len(ts) : us[i] = ts[i]
        BY <3>1, <3>2, <3>3, <3>4, <3>5
      <3>7. us \in Grown(ts)
        BY <3>6 DEF Grown
      <3> QED
        BY <3>5, <3>7
    <2> QED
      BY <2>5 DEF InsertFrame, row
  <1> QED
    BY <1>3, <1>4

\* The frames of a buffer only add trades.
FramesStored(s, frames) ==
    FoldLeft(LAMBDA acc, x : InsertFrame(s, acc, x), trades, frames)

LEMMA FramesInserted ==
    ASSUME tape \in [Markets -> Seq(Nat)], trades \in Seq(TradeRow), NEW s,
           NEW frames \in Seq(Buffered(now, tape))
    PROVE  FramesStored(s, frames) \in Grown(trades)
  <1> DEFINE f == [p \in Grown(trades) \X Buffered(now, tape) |-> InsertFrame(s, p[1], p[2])]
             Is(it) == it = [t \in SUBSET DOMAIN frames |->
                               IF t = {} THEN trades
                               ELSE InsertFrame(s, it[t \ {Max(t)}], frames[Max(t)])]
             fold == CHOOSE it : Is(it)
  <1>1. frames \in Seq(Buffered(now, tape)) /\ trades \in Grown(trades)
    BY DEF Grown
  <1>2. f \in [Grown(trades) \X Buffered(now, tape) -> Grown(trades)]
    BY FrameInserted
  <1>3. PICK it : IsFold(it, f, trades, frames, Grown(trades), Buffered(now, tape))
    <2> HIDE DEF f
    <2> QED
      BY <1>1, <1>2, FoldExists
  <1>4. Is(it)
    BY <1>3 DEF IsFold, FoldsTo
  <1>5. Is(fold)
    BY <1>4
  <1>6. FramesStored(s, frames) = fold[DOMAIN frames]
    BY DEF FramesStored, FoldLeft, MapThenFoldSet
  <1>7. StepsTo(fold, f, trades, frames, Grown(trades))
    <2>1. ASSUME NEW t \in SUBSET DOMAIN frames, t # {}, fold[t \ {Max(t)}] \in Grown(trades)
          PROVE  fold[t] = f[<<fold[t \ {Max(t)}], frames[Max(t)]>>]
      <3>1. frames[Max(t)] \in Buffered(now, tape)
        BY <1>3, <2>1 DEF IsFold
      <3>2. fold[t] = InsertFrame(s, fold[t \ {Max(t)}], frames[Max(t)])
        BY <1>5, <2>1
      <3> HIDE DEF fold
      <3> QED
        BY <2>1, <3>1, <3>2
    <2>2. fold[{}] = trades
      BY <1>5
    <2>3. DOMAIN frames = 1..Len(frames)
      BY <1>1
    <2> HIDE DEF fold, f
    <2> QED
      BY <2>1, <2>2, <2>3 DEF StepsTo
  <1>8. \A t \in SUBSET (1..Len(frames)) : fold[t] \in Grown(trades)
    <2> HIDE DEF fold, f
    <2> QED
      BY <1>1, <1>2, <1>7, FoldWithin
  <1>9. DOMAIN frames \in SUBSET (1..Len(frames))
    BY <1>1
  <1> HIDE DEF fold
  <1> QED
    BY <1>6, <1>8, <1>9

-----------------------------------------------------------------------------
(* The inductive invariant of the stream.                                  *)

\* The verdicts that may stand beside what was received and stored: a verdict
\* calls only past minutes available, and no frame of them is missing.
Fine(n, rcv, rec) ==
    {v \in VerdictRow :
        v.quality = "available" =>
            /\ v.from < v.to /\ v.to <= Floor(n)
            /\ \A x \in rcv : x.conn = v.conn /\ x \notin rec => Floor(x.at) >= v.to}

Tables ==
    /\ bound \in Bounds
    /\ now \in Nat
    /\ tape \in [Markets -> Seq(Nat)]
    /\ wire \in Seq(Sent(tape))
    /\ sessions \in Seq(Session)
    /\ verdicts \in Seq(Fine(now, received, receipts))
    /\ trades \in Seq(TradeRow)
    /\ \A x \in received : x.conn \in 1..Len(sessions) /\ x.at \in Nat

Places == {"idle", "off", "open", "connect", "stream", "flush", "finish", "close"}
AtSession == {"connect", "stream", "flush", "finish", "close"}

\* What the worker keeps in memory.
Memory(n, tp) ==
    [pc : Places, plan : [on : SUBSET Channels, gens : [Channels -> Nat]], conn : Nat,
     buffer : Seq(Buffered(n, tp)), seq : Nat, failed : BOOLEAN]

\* Until the buffer is given up, it has every frame of the connection that is
\* not stored.
WorkerMemory ==
    /\ w \in Memory(now, tape)
    /\ w.pc = "off" => w.plan.on = {}
    /\ w.pc \in AtSession => w.conn \in 1..Len(sessions) /\ sessions[w.conn].on = w.plan.on
    /\ w.pc \in AtSession \ {"close"} =>
           \A x \in received : x.conn = w.conn =>
               \/ x \in receipts
               \/ \E i \in DOMAIN w.buffer : x = ReceiptOf(w.conn, w.buffer[i])

\* A generation belongs to one mind about a channel, so a plan that has the
\* current one has the current wish.
Desires ==
    /\ desires \in [Channels -> [on : BOOLEAN, gen : Nat, applied : Nat, conn : Nat]]
    /\ \A c \in Channels :
           /\ desires[c].applied <= desires[c].gen
           /\ desires[c].conn \in 0..Len(sessions)
           /\ desires[c].applied = desires[c].gen =>
                  (desires[c].on <=> desires[c].conn # 0 /\ c \in sessions[desires[c].conn].on)
           /\ w.pc # "idle" =>
                  /\ w.plan.gens[c] <= desires[c].gen
                  /\ w.plan.gens[c] = desires[c].gen => (desires[c].on <=> c \in w.plan.on)

StreamInv == Tables /\ WorkerMemory /\ Desires

\* What was fine stays fine: time passes, and what arrives later is of a later
\* minute.
LEMMA FineStays ==
    ASSUME NEW n \in Nat, NEW k \in Nat, n <= k, NEW rcv, NEW rcv2, NEW rec, NEW rec2,
           rec \subseteq rec2, \A x \in rcv2 : x \in rcv \/ x.at = k
    PROVE  Fine(n, rcv, rec) \subseteq Fine(k, rcv2, rec2)
  <1> SUFFICES ASSUME NEW v \in Fine(n, rcv, rec) PROVE v \in Fine(k, rcv2, rec2)
    OBVIOUS
  <1>1. v \in VerdictRow
    BY DEF Fine
  <1>2. v.to \in Int
    BY <1>1 DEF VerdictRow
  <1>3. Floor(n) \in Int /\ Floor(k) \in Int /\ Floor(n) <= Floor(k)
    BY Halves, EarlierHalf
  <1>4. ASSUME v.quality = "available"
        PROVE  /\ v.from < v.to /\ v.to <= Floor(k)
               /\ \A x \in rcv2 : x.conn = v.conn /\ x \notin rec2 => Floor(x.at) >= v.to
    <2>1. /\ v.from < v.to /\ v.to <= Floor(n)
          /\ \A x \in rcv : x.conn = v.conn /\ x \notin rec => Floor(x.at) >= v.to
      BY <1>4 DEF Fine
    <2>2. v.to <= Floor(k)
      BY <1>2, <1>3, <2>1
    <2>3. ASSUME NEW x \in rcv2, x.conn = v.conn, x \notin rec2 PROVE Floor(x.at) >= v.to
      <3>1. CASE x \in rcv
        BY <2>1, <2>3, <3>1
      <3>2. CASE x.at = k
        BY <1>2, <1>3, <2>2, <3>2
      <3> QED
        BY <3>1, <3>2
    <2> QED
      BY <2>1, <2>2, <2>3
  <1> QED
    BY <1>1, <1>4 DEF Fine

\* A verdict that calls nothing available is fine.
LEMMA FineUnless ==
    ASSUME NEW n, NEW rcv, NEW rec, NEW v \in VerdictRow, v.quality # "available"
    PROVE  v \in Fine(n, rcv, rec)
  BY DEF Fine

\* Sequences over a larger set.
LEMMA SeqMono ==
    ASSUME NEW A, NEW B, A \subseteq B, NEW s \in Seq(A)
    PROVE  s \in Seq(B)
  OBVIOUS

\* Frames that happened by then also happened later.
LEMMA BufferedStays ==
    ASSUME NEW n \in Nat, NEW k \in Nat, n <= k, NEW tp \in [Markets -> Seq(Nat)],
           NEW tp2 \in [Markets -> Seq(Nat)], \A m \in Markets : Len(tp[m]) <= Len(tp2[m])
    PROVE  Buffered(n, tp) \subseteq Buffered(k, tp2) /\ Sent(tp) \subseteq Sent(tp2)
  <1>1. ASSUME NEW c \in Channels, NEW i \in Nat, i \in 1..Len(tp[c[1]])
        PROVE  i \in 1..Len(tp2[c[1]])
    <2>1. c[1] \in Markets
      BY DEF Channels
    <2>2. tp[c[1]] \in Seq(Nat) /\ tp2[c[1]] \in Seq(Nat)
      BY <2>1
    <2>3. Len(tp[c[1]]) \in Nat /\ Len(tp2[c[1]]) \in Nat /\ Len(tp[c[1]]) <= Len(tp2[c[1]])
      BY <2>1, <2>2
    <2> QED
      BY <1>1, <2>3
  <1>2. ASSUME NEW x \in Buffered(n, tp) PROVE x \in Buffered(k, tp2)
    <2>1. /\ x \in [seq : Nat, channel : Channels, trade : Nat, at : Nat] /\ x.at <= n
          /\ x.trade # 0 => x.trade \in 1..Len(tp[x.channel[1]])
      BY DEF Buffered
    <2>2. x.channel \in Channels /\ x.trade \in Nat /\ x.at \in Nat
      BY <2>1
    <2>3. x.at <= k /\ (x.trade # 0 => x.trade \in 1..Len(tp2[x.channel[1]]))
      BY <1>1, <2>1, <2>2
    <2> QED
      BY <2>1, <2>3 DEF Buffered
  <1>3. ASSUME NEW x \in Sent(tp) PROVE x \in Sent(tp2)
    <2>1. x \in [channel : Channels, trade : Nat] /\ x.trade \in 1..Len(tp[x.channel[1]])
      BY DEF Sent
    <2>2. x.channel \in Channels /\ x.trade \in Nat
      BY <2>1
    <2>3. x.trade \in 1..Len(tp2[x.channel[1]])
      BY <1>1, <2>1, <2>2
    <2> QED
      BY <2>1, <2>3 DEF Sent
  <1> QED
    BY <1>2, <1>3

\* A flush stores the buffer with the verdicts of its last frame.
LEMMA Recorded ==
    ASSUME StreamInv, w.pc \in {"flush", "finish"}, RecordFrames
    PROVE  /\ receipts \subseteq receipts'
           /\ verdicts' \in Seq(Fine(now, received, receipts'))
           /\ trades' \in Grown(trades)
           /\ \A x \in received : x.conn = w.conn => x \in receipts'
  <1>1. /\ now \in Nat /\ now \in Int /\ tape \in [Markets -> Seq(Nat)] /\ sessions \in Seq(Session)
        /\ verdicts \in Seq(Fine(now, received, receipts)) /\ trades \in Seq(TradeRow)
        /\ w.conn \in 1..Len(sessions) /\ w.buffer \in Seq(Buffered(now, tape))
        /\ \A x \in received : x.conn = w.conn =>
               x \in receipts \/ \E i \in DOMAIN w.buffer : x = ReceiptOf(w.conn, w.buffer[i])
    BY DEF StreamInv, Tables, WorkerMemory, AtSession, Memory
  <1>2. CASE w.buffer = <<>>
    <2>1. verdicts' = verdicts /\ receipts' = receipts /\ trades' = trades
      BY <1>2 DEF RecordFrames
    <2>2. trades \in Grown(trades)
      BY <1>1 DEF Grown
    <2>3. DOMAIN w.buffer = {}
      BY <1>2
    <2> QED
      BY <1>1, <2>1, <2>2, <2>3
  <1>3. CASE w.buffer # <<>>
    <2>1. /\ verdicts' = InsertVerdicts(verdicts, ProgressVerdicts(verdicts, w.conn, Last(w.buffer).at))
          /\ receipts' = receipts \cup {ReceiptOf(w.conn, w.buffer[i]) : i \in DOMAIN w.buffer}
          /\ trades' = FramesStored(w.conn, w.buffer)
      BY <1>3 DEF RecordFrames, FramesStored
    <2>2. PICK rec : rec = receipts'
      OBVIOUS
    <2>3. PICK last : last = Last(w.buffer).at
      OBVIOUS
    <2>4. last \in Nat /\ last \in Int /\ last <= now
      <3>1. Last(w.buffer) \in Buffered(now, tape)
        BY <1>1, <1>3 DEF Last
      <3> QED
        BY <2>3, <3>1 DEF Buffered
    <2>5. \A x \in received : x.conn = w.conn => x \in rec
      BY <1>1, <2>1, <2>2
    <2>6. receipts \subseteq rec
      BY <2>1, <2>2
    <2> DEFINE V == Fine(now, received, rec)
    <2>7. Fine(now, received, receipts) \subseteq V
      BY <1>1, <2>6, FineStays
    <2>8. verdicts \in Seq(V)
      <3> HIDE DEF V
      <3> QED
        BY <1>1, <2>7, SeqMono
    <2>9. ASSUME NEW d \in Types, NEW from \in Int, from + 1 <= Floor(last)
          PROVE  Verdict(w.conn, All, d, from, from + 1, "available", "continuous_connection", last) \in V
      <3>1. PICK v : v = Verdict(w.conn, All, d, from, from + 1, "available", "continuous_connection", last)
        OBVIOUS
      <3>2. w.conn \in Nat /\ from + 1 \in Int /\ All \in Markets \cup {All}
        BY <1>1
      <3>3. v \in VerdictRow /\ v.conn = w.conn /\ v.from = from /\ v.to = from + 1
        BY <2>4, <3>1, <3>2 DEF Verdict, VerdictRow
      <3>4. Floor(last) \in Int /\ Floor(now) \in Int /\ Floor(last) <= Floor(now)
        BY <1>1, <2>4, Halves, EarlierHalf
      <3>5. v.from < v.to /\ v.to <= Floor(now)
        BY <2>9, <3>2, <3>3, <3>4
      <3>6. v \in V
        BY <2>5, <3>3, <3>5 DEF Fine
      <3> HIDE DEF V
      <3> QED
        BY <3>1, <3>6
    <2>10. verdicts \in Seq(VerdictRow)
      <3>1. V \subseteq VerdictRow
        BY DEF Fine
      <3> HIDE DEF V
      <3> QED
        BY <2>8, <3>1, SeqMono
    <2>11. ProgressVerdicts(verdicts, w.conn, last) \in Seq(V)
      <3> HIDE DEF V
      <3> QED
        BY <1>1, <2>4, <2>9, <2>10, Progress
    <2>12. InsertVerdicts(verdicts, ProgressVerdicts(verdicts, w.conn, last)) \in Seq(V)
      <3> HIDE DEF V
      <3> QED
        BY <2>8, <2>11, InsertedVerdicts
    <2>13. trades' \in Grown(trades)
      BY <1>1, <2>1, FramesInserted
    <2> QED
      BY <2>1, <2>2, <2>3, <2>5, <2>6, <2>12, <2>13
  <1> QED
    BY <1>2, <1>3

\* Sessions that were opened before keep what they subscribed to.
Kept ==
    /\ Len(sessions) \in Nat /\ Len(sessions') \in Nat /\ Len(sessions) <= Len(sessions')
    /\ \A i \in 1..Len(sessions) : sessions'[i].on = sessions[i].on

LEMMA SessionsSame ==
    ASSUME Tables, sessions' = sessions
    PROVE  Kept
  <1>1. Len(sessions) \in Nat
    BY DEF Tables
  <1> QED
    BY <1>1 DEF Kept

\* Desires the step leaves alone.
LEMMA DesiresKept ==
    ASSUME StreamInv, Kept, desires' = desires,
           w'.pc = "idle" \/ (w.pc # "idle" /\ w'.plan = w.plan)
    PROVE  Desires'
  <1>1. desires' \in [Channels -> [on : BOOLEAN, gen : Nat, applied : Nat, conn : Nat]]
    BY DEF StreamInv, Desires
  <1>2. ASSUME NEW c \in Channels
        PROVE  /\ desires'[c].applied <= desires'[c].gen
               /\ desires'[c].conn \in 0..Len(sessions')
               /\ desires'[c].applied = desires'[c].gen =>
                      (desires'[c].on <=> desires'[c].conn # 0 /\ c \in sessions'[desires'[c].conn].on)
    <2>1. /\ desires[c].applied <= desires[c].gen
          /\ desires[c].conn \in 0..Len(sessions)
          /\ desires[c].applied = desires[c].gen =>
                 (desires[c].on <=> desires[c].conn # 0 /\ c \in sessions[desires[c].conn].on)
      BY DEF StreamInv, Desires
    <2>2. desires[c].conn \in 0..Len(sessions')
      BY <2>1 DEF Kept
    <2>3. desires[c].conn # 0 => sessions'[desires[c].conn].on = sessions[desires[c].conn].on
      BY <2>1 DEF Kept
    <2> QED
      BY <2>1, <2>2, <2>3
  <1>3. ASSUME NEW c \in Channels, w'.pc # "idle"
        PROVE  /\ w'.plan.gens[c] <= desires'[c].gen
               /\ w'.plan.gens[c] = desires'[c].gen => (desires'[c].on <=> c \in w'.plan.on)
    BY <1>3 DEF StreamInv, Desires
  <1> QED
    BY <1>1, <1>2, <1>3 DEF Desires

\* Desires marked as applied by a connection, or by none.
LEMMA DesiresMarked ==
    ASSUME StreamInv, sessions' = sessions, w.pc # "idle", NEW s \in 0..Len(sessions),
           desires' = MarkApplied(w.plan, s),
           s = 0 => w.plan.on = {},
           s # 0 => sessions[s].on = w.plan.on,
           w'.pc = "idle" \/ w'.plan = w.plan
    PROVE  Desires'
  <1>1. /\ desires \in [Channels -> [on : BOOLEAN, gen : Nat, applied : Nat, conn : Nat]]
        /\ Len(sessions) \in Nat
    BY DEF StreamInv, Desires, Tables
  <1>2. ASSUME NEW c \in Channels
        PROVE  /\ desires'[c] \in [on : BOOLEAN, gen : Nat, applied : Nat, conn : Nat]
               /\ desires'[c].applied <= desires'[c].gen
               /\ desires'[c].conn \in 0..Len(sessions')
               /\ desires'[c].applied = desires'[c].gen =>
                      (desires'[c].on <=> desires'[c].conn # 0 /\ c \in sessions'[desires'[c].conn].on)
               /\ desires'[c].on = desires[c].on /\ desires'[c].gen = desires[c].gen
    <2>1. desires[c] \in [on : BOOLEAN, gen : Nat, applied : Nat, conn : Nat]
      BY <1>1
    <2>2. /\ desires[c].applied <= desires[c].gen
          /\ desires[c].conn \in 0..Len(sessions)
          /\ desires[c].applied = desires[c].gen =>
                 (desires[c].on <=> desires[c].conn # 0 /\ c \in sessions[desires[c].conn].on)
          /\ w.plan.gens[c] = desires[c].gen => (desires[c].on <=> c \in w.plan.on)
      BY DEF StreamInv, Desires
    <2>3. CASE w.plan.gens[c] = desires[c].gen
      <3>1. desires'[c] = [desires[c] EXCEPT !.applied = desires[c].gen, !.conn = s]
        BY <2>3 DEF MarkApplied
      <3>2. /\ desires'[c] \in [on : BOOLEAN, gen : Nat, applied : Nat, conn : Nat]
            /\ desires'[c].applied = desires[c].gen /\ desires'[c].conn = s
            /\ desires'[c].on = desires[c].on /\ desires'[c].gen = desires[c].gen
        <4>1. PICK old, new : old = desires[c] /\ new = desires'[c]
          OBVIOUS
        <4>2. /\ old \in [on : BOOLEAN, gen : Nat, applied : Nat, conn : Nat] /\ s \in Nat
              /\ new = [old EXCEPT !.applied = old.gen, !.conn = s]
          BY <1>1, <2>1, <3>1, <4>1
        <4>3. new \in [on : BOOLEAN, gen : Nat, applied : Nat, conn : Nat]
          BY <4>2
        <4>4. new.applied = old.gen /\ new.conn = s /\ new.on = old.on /\ new.gen = old.gen
          BY <4>2
        <4> QED
          BY <4>1, <4>3, <4>4
      <3>3. desires[c].on <=> s # 0 /\ c \in sessions[s].on
        BY <2>2, <2>3
      <3> QED
        BY <2>1, <3>2, <3>3
    <2>4. CASE w.plan.gens[c] # desires[c].gen
      <3>1. desires'[c] = desires[c]
        BY <2>4 DEF MarkApplied
      <3> QED
        BY <2>1, <2>2, <3>1
    <2> QED
      BY <2>3, <2>4
  <1>3. desires' \in [Channels -> [on : BOOLEAN, gen : Nat, applied : Nat, conn : Nat]]
    <2>1. desires' = [c \in Channels |-> desires'[c]]
      BY DEF MarkApplied
    <2> QED
      BY <1>2, <2>1
  <1>4. ASSUME NEW c \in Channels, w'.pc # "idle"
        PROVE  /\ w'.plan.gens[c] <= desires'[c].gen
               /\ w'.plan.gens[c] = desires'[c].gen => (desires'[c].on <=> c \in w'.plan.on)
    <2>1. /\ w.plan.gens[c] <= desires[c].gen
          /\ w.plan.gens[c] = desires[c].gen => (desires[c].on <=> c \in w.plan.on)
      BY DEF StreamInv, Desires
    <2>2. w'.plan = w.plan /\ desires'[c].on = desires[c].on /\ desires'[c].gen = desires[c].gen
      BY <1>2, <1>4
    <2> QED
      BY <2>1, <2>2
  <1> QED
    BY <1>2, <1>3, <1>4 DEF Desires

\* Tables the step leaves alone, but for what is on the wire.
LEMMA TablesKept ==
    ASSUME Tables, UNCHANGED <<bound, now, tape, sessions, verdicts, receipts, trades, received>>,
           wire' \in Seq(Sent(tape))
    PROVE  Tables' /\ Kept /\ trades' \in Grown(trades)
  <1>1. Kept
    BY SessionsSame
  <1>2. trades' \in Grown(trades)
    BY DEF Tables, Grown
  <1>3. Tables'
    BY DEF Tables
  <1> QED
    BY <1>1, <1>2, <1>3

LEMMA IdleMemory ==
    ASSUME NEW n, NEW tp
    PROVE  Idle \in Memory(n, tp)
  <1>1. <<>> \in Seq(Buffered(n, tp))
    OBVIOUS
  <1> QED
    BY <1>1 DEF Idle, NoPlan, Memory, Places

\* The worker is idle again.
LEMMA MemoryFreed ==
    ASSUME w' = Idle
    PROVE  WorkerMemory' /\ w'.pc = "idle"
  <1>1. w' \in Memory(now', tape')
    BY IdleMemory
  <1>2. w'.pc = "idle"
    BY DEF Idle
  <1> QED
    BY <1>1, <1>2 DEF WorkerMemory, AtSession

\* The worker keeps its connection and its buffer.
LEMMA MemoryKept ==
    ASSUME StreamInv, UNCHANGED <<now, tape, sessions, receipts, received>>,
           w' \in Memory(now, tape), w.pc \in AtSession \ {"close"}, w'.pc \in AtSession,
           w'.plan = w.plan, w'.conn = w.conn, w'.buffer = w.buffer
    PROVE  WorkerMemory'
  <1>1. w.conn \in 1..Len(sessions) /\ sessions[w.conn].on = w.plan.on
    BY DEF StreamInv, WorkerMemory, AtSession
  <1>2. w'.pc # "off"
    BY DEF AtSession
  <1>3. \A x \in received : x.conn = w.conn =>
            \/ x \in receipts
            \/ \E i \in DOMAIN w.buffer : x = ReceiptOf(w.conn, w.buffer[i])
    BY DEF StreamInv, WorkerMemory
  <1>4. \A x \in received' : x.conn = w'.conn =>
            \/ x \in receipts'
            \/ \E i \in DOMAIN w'.buffer : x = ReceiptOf(w.conn, w'.buffer[i])
    BY <1>3
  <1> QED
    BY <1>1, <1>2, <1>4 DEF WorkerMemory, ReceiptOf

\* An empty wire.
LEMMA NoFrames == <<>> \in Seq(Sent(tape))
  OBVIOUS

LEMMA OnLoadPlan ==
    ASSUME StreamInv, LoadPlan
    PROVE  StreamInv' /\ trades' \in Grown(trades)
  <1> DEFINE on == {c \in Channels : desires[c].on}
             gens == [c \in Channels |-> desires[c].gen]
  <1>1. desires \in [Channels -> [on : BOOLEAN, gen : Nat, applied : Nat, conn : Nat]]
    BY DEF StreamInv, Desires
  <1>2. on \in SUBSET Channels /\ gens \in [Channels -> Nat]
    BY <1>1
  <1>3. PICK at : at = IF on = {} THEN "off" ELSE "open"
    OBVIOUS
  <1>4. w' = [Idle EXCEPT !.pc = at, !.plan = [on |-> on, gens |-> gens]]
    BY <1>3 DEF LoadPlan
  <1>5. \A c \in Channels : (c \in on <=> desires[c].on) /\ gens[c] = desires[c].gen
    OBVIOUS
  <1>6. on = {} => at = "off"
    BY <1>3
  <1>7. at \in {"off", "open"} /\ (at = "off" => on = {})
    BY <1>3
  <1> HIDE DEF on, gens
  <1>8. w'.pc = at /\ w'.plan.on = on /\ w'.plan.gens = gens
    BY <1>4 DEF Idle
  <1>9. w' \in Memory(now, tape)
    <2>1. Idle \in Memory(now, tape)
      BY IdleMemory
    <2> QED
      BY <1>2, <1>4, <1>7, <2>1 DEF Memory, Places
  <1>10. UNCHANGED <<bound, now, tape, wire, desires, sessions, verdicts, receipts, trades, received>>
    BY DEF LoadPlan
  <1>11. Tables' /\ trades' \in Grown(trades)
    BY <1>10, TablesKept DEF StreamInv, Tables
  <1>12. WorkerMemory'
    BY <1>7, <1>8, <1>9, <1>10 DEF WorkerMemory, AtSession
  <1>13. Desires'
    <2>1. \A c \in Channels : w'.plan.gens[c] <= desires'[c].gen
      BY <1>1, <1>5, <1>8, <1>10
    <2>2. \A c \in Channels : desires'[c].on <=> c \in w'.plan.on
      BY <1>5, <1>8, <1>10
    <2> QED
      BY <1>10, <2>1, <2>2 DEF StreamInv, Desires
  <1> QED
    BY <1>11, <1>12, <1>13 DEF StreamInv

LEMMA OnApplyEmptyPlan ==
    ASSUME StreamInv, ApplyEmptyPlan
    PROVE  StreamInv' /\ trades' \in Grown(trades)
  <1>1. Tables' /\ trades' \in Grown(trades)
    BY TablesKept DEF StreamInv, Tables, ApplyEmptyPlan
  <1>2. WorkerMemory' /\ w'.pc = "idle"
    BY MemoryFreed DEF ApplyEmptyPlan
  <1>3. /\ w.pc # "idle" /\ w.plan.on = {} /\ sessions' = sessions
        /\ desires' = MarkApplied(w.plan, 0)
    BY DEF ApplyEmptyPlan, StreamInv, WorkerMemory
  <1>4. 0 \in 0..Len(sessions)
    BY DEF StreamInv, Tables
  <1>5. Desires'
    BY <1>2, <1>3, <1>4, DesiresMarked
  <1> QED
    BY <1>1, <1>2, <1>5 DEF StreamInv

LEMMA OnOpenSession ==
    ASSUME StreamInv, OpenSession
    PROVE  StreamInv' /\ trades' \in Grown(trades)
  <1> DEFINE row == [on |-> w.plan.on, scope |-> Scope(w.plan.on), connected |-> now,
                     status |-> "active", ended |-> 0]
             n == Len(sessions) + 1
  <1>1. /\ now \in Nat /\ now \in Int /\ sessions \in Seq(Session)
        /\ verdicts \in Seq(Fine(now, received, receipts)) /\ trades \in Seq(TradeRow)
        /\ w \in Memory(now, tape) /\ w.pc = "open"
    BY DEF StreamInv, Tables, WorkerMemory, OpenSession
  <1>2. w.plan.on \in SUBSET Channels
    BY <1>1 DEF Memory
  <1>3. row \in Session
    <2>1. Scope(w.plan.on) \in SUBSET Channels
      BY <1>2 DEF Scope, Channels
    <2> QED
      BY <1>1, <1>2, <2>1 DEF Session
  <1>4. /\ sessions' = Append(sessions, row)
        /\ verdicts' = InsertVerdicts(verdicts, GapVerdicts(w.plan.on))
        /\ w' = [w EXCEPT !.pc = "connect", !.conn = n]
        /\ UNCHANGED <<bound, now, tape, wire, desires, receipts, trades, received>>
    BY DEF OpenSession
  <1>5. row.on = w.plan.on
    OBVIOUS
  <1> HIDE DEF row
  <1>6. /\ sessions' \in Seq(Session) /\ Len(sessions) \in Nat /\ Len(sessions') = n
        /\ \A i \in 1..Len(sessions) : sessions'[i] = sessions[i]
        /\ sessions'[n] = row
    BY <1>1, <1>3, <1>4
  <1>7. verdicts' \in Seq(Fine(now, received, receipts))
    <2> DEFINE V == Fine(now, received, receipts)
    <2>1. ASSUME NEW s \in Nat, NEW m \in Markets, NEW d \in Types, NEW from \in Int, NEW to \in Int
          PROVE  Verdict(s, m, d, from, to, "missing", "reconnection_gap", now) \in V
      <3>1. PICK v : v = Verdict(s, m, d, from, to, "missing", "reconnection_gap", now)
        OBVIOUS
      <3>2. v \in VerdictRow /\ v.quality # "available"
        BY <1>1, <3>1 DEF Verdict, VerdictRow
      <3> QED
        BY <3>1, <3>2, FineUnless
    <2> HIDE DEF V
    <2>2. GapVerdicts(w.plan.on) \in Seq(V)
      BY <1>1, <1>2, <2>1, Gaps
    <2>3. InsertVerdicts(verdicts, GapVerdicts(w.plan.on)) \in Seq(V)
      BY <1>1, <2>2, InsertedVerdicts DEF V
    <2> QED
      BY <1>4, <2>3 DEF V
  <1>8. Tables'
    <2>1. \A x \in received' : x.conn \in 1..Len(sessions') /\ x.at \in Nat
      BY <1>4, <1>6 DEF StreamInv, Tables
    <2> QED
      BY <1>4, <1>6, <1>7, <2>1 DEF StreamInv, Tables
  <1>9. /\ w' \in Memory(now, tape) /\ w'.pc = "connect" /\ w'.conn = n
        /\ w'.plan = w.plan /\ w'.buffer = w.buffer
    <2>1. n \in Nat
      BY <1>6
    <2>2. "connect" \in Places
      BY DEF Places
    <2> HIDE DEF n
    <2> QED
      BY <1>1, <1>4, <2>1, <2>2 DEF Memory
  <1>10. \A x \in received : x.conn # n
    <2>1. \A x \in received : x.conn \in 1..Len(sessions)
      BY DEF StreamInv, Tables
    <2> QED
      BY <1>6, <2>1
  <1>11. WorkerMemory'
    <2>1. w'.conn \in 1..Len(sessions') /\ sessions'[w'.conn].on = w'.plan.on
      BY <1>5, <1>6, <1>9
    <2>2. \A x \in received' : x.conn # w'.conn
      BY <1>4, <1>9, <1>10
    <2> QED
      BY <1>4, <1>9, <2>1, <2>2 DEF WorkerMemory
  <1>12. Desires'
    <2>1. Kept
      BY <1>6 DEF Kept
    <2> QED
      BY <1>1, <1>4, <1>9, <2>1, DesiresKept
  <1>13. trades' \in Grown(trades)
    BY <1>1, <1>4 DEF Grown
  <1> QED
    BY <1>8, <1>11, <1>12, <1>13 DEF StreamInv

LEMMA OnConnect ==
    ASSUME StreamInv, Connect
    PROVE  StreamInv' /\ trades' \in Grown(trades)
  <1> DEFINE asked == {m \in Markets : <<m, "trade_event">> \in w.plan.on /\ tape[m] # <<>>}
             g == [m \in Markets |-> [channel |-> <<m, "trade_event">>, trade |-> Len(tape[m])]]
             S == {[channel |-> <<m, "trade_event">>, trade |-> Len(tape[m])] : m \in asked}
  <1>1. /\ tape \in [Markets -> Seq(Nat)] /\ w \in Memory(now, tape) /\ w.pc = "connect"
        /\ w.conn \in 1..Len(sessions) /\ sessions[w.conn].on = w.plan.on /\ Len(sessions) \in Nat
    BY DEF StreamInv, Tables, WorkerMemory, Connect, AtSession
  <1>2. /\ desires' = MarkApplied(w.plan, w.conn) /\ wire' = SetToSeq(S)
        /\ w' = [w EXCEPT !.pc = "stream"]
        /\ UNCHANGED <<bound, now, tape, sessions, verdicts, receipts, trades, received>>
    BY DEF Connect
  <1>3. S = {g[m] : m \in asked}
    OBVIOUS
  <1>4. IsFiniteSet(S)
    <2>1. IsFiniteSet(asked)
      <3>1. asked \subseteq Markets
        OBVIOUS
      <3> HIDE DEF asked
      <3> QED
        BY <3>1, StreamAssumption, FS_Subset
    <2>2. IsFiniteSet({g[m] : m \in asked})
      <3> HIDE DEF g, asked
      <3> QED
        BY <2>1, ImageFinite
    <2> HIDE DEF S, g
    <2> QED
      BY <1>3, <2>2
  <1>5. S \subseteq Sent(tape)
    <2> SUFFICES ASSUME NEW m \in asked
                 PROVE  [channel |-> <<m, "trade_event">>, trade |-> Len(tape[m])] \in Sent(tape)
      OBVIOUS
    <2>1. m \in Markets /\ tape[m] # <<>> /\ tape[m] \in Seq(Nat)
      BY <1>1
    <2>2. Len(tape[m]) \in Nat /\ Len(tape[m]) \in 1..Len(tape[m])
      BY <2>1
    <2>3. <<m, "trade_event">> \in Channels
      BY <2>1, StreamAssumption DEF Channels
    <2> QED
      BY <2>2, <2>3 DEF Sent
  <1> HIDE DEF S
  <1>6. wire' \in Seq(Sent(tape))
    <2>1. SetToSeq(S) \in Seq(S)
      BY <1>4, Listed
    <2> QED
      BY <1>2, <1>5, <2>1
  <1>7. Tables' /\ trades' \in Grown(trades)
    BY <1>2, <1>6, TablesKept DEF StreamInv
  <1>8. /\ w' \in Memory(now, tape) /\ w'.pc = "stream" /\ w'.plan = w.plan
        /\ w'.conn = w.conn /\ w'.buffer = w.buffer
    BY <1>1, <1>2 DEF Memory, Places
  <1>9. WorkerMemory'
    BY <1>1, <1>2, <1>8, MemoryKept DEF AtSession
  <1>10. Desires'
    <2>1. w.conn \in 0..Len(sessions) /\ w.conn # 0 /\ w.pc # "idle"
      BY <1>1
    <2> QED
      BY <1>1, <1>2, <1>8, <2>1, DesiresMarked
  <1> QED
    BY <1>7, <1>9, <1>10 DEF StreamInv

\* A frame enters the buffer.
LEMMA OnBuffer ==
    ASSUME StreamInv, w.pc = "stream", NEW channel \in Channels, NEW trade \in Nat,
           trade # 0 => trade \in 1..Len(tape[channel[1]]),
           Buffer(channel, trade), wire' \in Seq(Sent(tape))
    PROVE  StreamInv' /\ trades' \in Grown(trades)
  <1> DEFINE x == [seq |-> w.seq + 1, channel |-> channel, trade |-> trade, at |-> now]
  <1>1. /\ now \in Nat /\ w \in Memory(now, tape) /\ w.conn \in 1..Len(sessions)
        /\ sessions[w.conn].on = w.plan.on /\ trades \in Seq(TradeRow)
        /\ verdicts \in Seq(Fine(now, received, receipts))
        /\ w.buffer \in Seq(Buffered(now, tape)) /\ w.seq \in Nat
        /\ \A y \in received : y.conn = w.conn =>
               y \in receipts \/ \E i \in DOMAIN w.buffer : y = ReceiptOf(w.conn, w.buffer[i])
    BY DEF StreamInv, Tables, WorkerMemory, AtSession, Memory
  <1>2. x \in Buffered(now, tape) /\ x.seq = w.seq + 1
    BY <1>1 DEF Buffered
  <1>3. PICK at \in {"stream", "flush"} :
            w' = [w EXCEPT !.pc = at, !.seq = w.seq + 1, !.buffer = Append(w.buffer, x)]
    BY DEF Buffer
  <1>4. /\ received' = received \cup {ReceiptOf(w.conn, x)}
        /\ UNCHANGED <<bound, now, tape, desires, sessions, verdicts, receipts, trades>>
    BY DEF Buffer
  <1>5. ReceiptOf(w.conn, x).conn = w.conn /\ ReceiptOf(w.conn, x).at = now
    BY DEF ReceiptOf
  <1> HIDE DEF x
  <1>6. PICK b : b = Append(w.buffer, x)
    OBVIOUS
  <1>7. /\ b \in Seq(Buffered(now, tape))
        /\ \A i \in DOMAIN w.buffer : i \in DOMAIN b /\ b[i] = w.buffer[i]
        /\ \E i \in DOMAIN b : b[i] = x
    <2>1. /\ b \in Seq(Buffered(now, tape)) /\ Len(b) = Len(w.buffer) + 1 /\ b[Len(w.buffer) + 1] = x
          /\ \A i \in 1..Len(w.buffer) : b[i] = w.buffer[i]
          /\ Len(w.buffer) \in Nat /\ DOMAIN b = 1..Len(b) /\ DOMAIN w.buffer = 1..Len(w.buffer)
      BY <1>1, <1>2, <1>6
    <2>2. Len(w.buffer) + 1 \in DOMAIN b
      BY <2>1
    <2> QED
      BY <2>1, <2>2
  <1>8. /\ w' \in Memory(now, tape) /\ w'.pc = at /\ w'.plan = w.plan
        /\ w'.conn = w.conn /\ w'.buffer = b
    <2>1. w.seq + 1 \in Nat /\ at \in Places
      BY <1>1 DEF Places
    <2>2. w' = [w EXCEPT !.pc = at, !.seq = w.seq + 1, !.buffer = b]
      BY <1>3, <1>6
    <2> QED
      BY <1>1, <1>7, <2>1, <2>2 DEF Memory
  <1>9. Tables'
    <2>1. \A y \in received' : y \in received \/ y.at = now
      BY <1>4, <1>5
    <2>2. PICK rcv : rcv = received'
      OBVIOUS
    <2>3. verdicts' \in Seq(Fine(now', received', receipts'))
      <3>1. Fine(now, received, receipts) \subseteq Fine(now, rcv, receipts)
        BY <1>1, <2>1, <2>2, FineStays
      <3>2. verdicts \in Seq(Fine(now, rcv, receipts))
        BY <1>1, <3>1, SeqMono
      <3> QED
        BY <1>4, <2>2, <3>2
    <2>4. \A y \in received' : y.conn \in 1..Len(sessions') /\ y.at \in Nat
      BY <1>1, <1>4, <1>5 DEF StreamInv, Tables
    <2> QED
      BY <1>4, <2>3, <2>4 DEF StreamInv, Tables
  <1>10. WorkerMemory'
    <2>1. ASSUME NEW y \in received', y.conn = w.conn
          PROVE  y \in receipts \/ \E i \in DOMAIN b : y = ReceiptOf(w.conn, b[i])
      <3>1. CASE y \in received
        <4>1. y \in receipts \/ \E i \in DOMAIN w.buffer : y = ReceiptOf(w.conn, w.buffer[i])
          BY <1>1, <2>1, <3>1
        <4>2. ASSUME NEW i \in DOMAIN w.buffer, y = ReceiptOf(w.conn, w.buffer[i])
              PROVE  \E k \in DOMAIN b : y = ReceiptOf(w.conn, b[k])
          BY <1>7, <4>2
        <4> QED
          BY <4>1, <4>2
      <3>2. CASE y = ReceiptOf(w.conn, x)
        BY <1>7, <3>2
      <3> QED
        BY <1>4, <3>1, <3>2
    <2> QED
      BY <1>1, <1>4, <1>8, <2>1 DEF WorkerMemory, AtSession, ReceiptOf
  <1>11. Desires'
    <2>1. Kept
      BY <1>4, SessionsSame DEF StreamInv
    <2> QED
      BY <1>4, <1>8, <2>1, DesiresKept
  <1>12. trades' \in Grown(trades)
    BY <1>1, <1>4 DEF Grown
  <1> QED
    BY <1>9, <1>10, <1>11, <1>12 DEF StreamInv

LEMMA OnReceiveTrade ==
    ASSUME StreamInv, ReceiveTrade
    PROVE  StreamInv' /\ trades' \in Grown(trades)
  <1>1. /\ wire \in Seq(Sent(tape)) /\ wire # <<>> /\ w.pc = "stream" /\ wire' = Tail(wire)
        /\ Buffer(Head(wire).channel, Head(wire).trade)
    BY DEF StreamInv, Tables, ReceiveTrade
  <1>2. Head(wire) \in Sent(tape) /\ wire' \in Seq(Sent(tape))
    BY <1>1
  <1>3. PICK channel, trade : channel = Head(wire).channel /\ trade = Head(wire).trade
    OBVIOUS
  <1>4. channel \in Channels /\ trade \in Nat /\ (trade # 0 => trade \in 1..Len(tape[channel[1]]))
    BY <1>2, <1>3 DEF Sent
  <1>5. Buffer(channel, trade)
    BY <1>1, <1>3
  <1> QED
    BY <1>1, <1>2, <1>4, <1>5, OnBuffer

LEMMA OnReceiveOther ==
    ASSUME StreamInv, NEW c \in Channels, ReceiveOther(c)
    PROVE  StreamInv' /\ trades' \in Grown(trades)
  <1>1. wire' \in Seq(Sent(tape)) /\ w.pc = "stream" /\ Buffer(c, 0) /\ 0 \in Nat
    BY DEF StreamInv, Tables, ReceiveOther
  <1> QED
    BY <1>1, OnBuffer

\* A flush that went through, whatever the worker does next.
LEMMA OnRecorded ==
    ASSUME StreamInv, w.pc \in {"flush", "finish"}, RecordFrames,
           UNCHANGED <<bound, now, tape, desires, sessions, received>>,
           wire' \in Seq(Sent(tape)),
           w' \in Memory(now, tape), w'.pc \in AtSession, w'.plan = w.plan, w'.conn = w.conn
    PROVE  StreamInv' /\ trades' \in Grown(trades)
  <1>1. /\ receipts \subseteq receipts' /\ verdicts' \in Seq(Fine(now, received, receipts'))
        /\ trades' \in Grown(trades)
        /\ \A x \in received : x.conn = w.conn => x \in receipts'
    BY Recorded
  <1>2. Tables'
    <2>1. trades' \in Seq(TradeRow)
      BY <1>1 DEF Grown
    <2>2. verdicts' \in Seq(Fine(now', received', receipts'))
      BY <1>1
    <2> QED
      BY <2>1, <2>2 DEF StreamInv, Tables
  <1>3. WorkerMemory'
    <2>1. w.conn \in 1..Len(sessions) /\ sessions[w.conn].on = w.plan.on
      BY DEF StreamInv, WorkerMemory, AtSession
    <2> QED
      BY <1>1, <2>1 DEF WorkerMemory, AtSession
  <1>4. Desires'
    <2>1. Kept
      BY SessionsSame DEF StreamInv
    <2> QED
      BY <2>1, DesiresKept
  <1> QED
    BY <1>1, <1>2, <1>3, <1>4 DEF StreamInv

\* One that was rolled back.
LEMMA OnNotRecorded ==
    ASSUME StreamInv, UNCHANGED <<verdicts, receipts, trades>>,
           UNCHANGED <<bound, now, tape, desires, sessions, received>>,
           wire' \in Seq(Sent(tape)), w.pc \in AtSession \ {"close"},
           w' \in Memory(now, tape), w'.pc \in AtSession, w'.plan = w.plan, w'.conn = w.conn,
           w'.pc = "close" \/ w'.buffer = w.buffer
    PROVE  StreamInv' /\ trades' \in Grown(trades)
  <1>1. Tables' /\ Kept /\ trades' \in Grown(trades)
    BY TablesKept DEF StreamInv
  <1>2. WorkerMemory'
    <2>1. CASE w'.buffer = w.buffer
      BY <2>1, MemoryKept
    <2>2. CASE w'.pc = "close"
      <3>1. w.conn \in 1..Len(sessions) /\ sessions[w.conn].on = w.plan.on
        BY DEF StreamInv, WorkerMemory
      <3> QED
        BY <2>2, <3>1 DEF WorkerMemory
    <2> QED
      BY <2>1, <2>2
  <1>3. Desires'
    <2>1. w.pc # "idle"
      BY DEF AtSession
    <2> QED
      BY <1>1, <2>1, DesiresKept
  <1> QED
    BY <1>1, <1>2, <1>3 DEF StreamInv

LEMMA OnFlush ==
    ASSUME StreamInv, Flush
    PROVE  StreamInv' /\ trades' \in Grown(trades)
  <1>1. <<>> \in Seq(Buffered(now, tape)) /\ w \in Memory(now, tape) /\ wire \in Seq(Sent(tape))
    BY DEF StreamInv, Tables, WorkerMemory
  <1>2. /\ w' \in Memory(now, tape) /\ w'.pc = "stream" /\ w'.plan = w.plan /\ w'.conn = w.conn
    BY <1>1 DEF Flush, Memory, Places
  <1>3. w.pc = "flush" /\ RecordFrames /\ wire' \in Seq(Sent(tape))
        /\ UNCHANGED <<bound, now, tape, desires, sessions, received>>
    BY <1>1 DEF Flush
  <1> QED
    BY <1>2, <1>3, OnRecorded DEF AtSession

LEMMA OnFlushFails ==
    ASSUME StreamInv, FlushFails
    PROVE  StreamInv' /\ trades' \in Grown(trades)
  <1>1. w \in Memory(now, tape)
    BY DEF StreamInv, WorkerMemory
  <1>2. /\ w' \in Memory(now, tape) /\ w'.pc = "finish" /\ w'.plan = w.plan /\ w'.conn = w.conn
        /\ w'.buffer = w.buffer
    BY <1>1 DEF FlushFails, Memory, Places
  <1>3. w.pc = "flush" /\ wire' \in Seq(Sent(tape))
        /\ UNCHANGED <<bound, now, tape, desires, sessions, received>>
    BY NoFrames DEF FlushFails
  <1>4. CASE RecordFrames
    BY <1>2, <1>3, <1>4, OnRecorded DEF AtSession
  <1>5. CASE UNCHANGED <<verdicts, receipts, trades>>
    BY <1>2, <1>3, <1>5, OnNotRecorded DEF AtSession
  <1> QED
    BY <1>4, <1>5 DEF FlushFails

LEMMA OnStreamEnds ==
    ASSUME StreamInv, StreamEnds
    PROVE  StreamInv' /\ trades' \in Grown(trades)
  <1>1. w \in Memory(now, tape)
    BY DEF StreamInv, WorkerMemory
  <1>2. /\ w' \in Memory(now, tape) /\ w'.pc = "finish" /\ w'.plan = w.plan /\ w'.conn = w.conn
        /\ w'.buffer = w.buffer
    BY <1>1 DEF StreamEnds, Memory, Places
  <1>3. w.pc = "stream" /\ wire' \in Seq(Sent(tape)) /\ UNCHANGED <<verdicts, receipts, trades>>
        /\ UNCHANGED <<bound, now, tape, desires, sessions, received>>
    BY NoFrames DEF StreamEnds
  <1> QED
    BY <1>2, <1>3, OnNotRecorded DEF AtSession

LEMMA OnStreamFails ==
    ASSUME StreamInv, StreamFails
    PROVE  StreamInv' /\ trades' \in Grown(trades)
  <1>1. w \in Memory(now, tape)
    BY DEF StreamInv, WorkerMemory
  <1>2. /\ w' \in Memory(now, tape) /\ w'.pc = "finish" /\ w'.plan = w.plan /\ w'.conn = w.conn
        /\ w'.buffer = w.buffer
    BY <1>1 DEF StreamFails, Memory, Places
  <1>3. w.pc \in AtSession \ {"close"} /\ wire' \in Seq(Sent(tape)) /\ UNCHANGED <<verdicts, receipts, trades>>
        /\ UNCHANGED <<bound, now, tape, desires, sessions, received>>
    BY NoFrames DEF StreamFails, AtSession
  <1> QED
    BY <1>2, <1>3, OnNotRecorded DEF AtSession

LEMMA OnFinalFlush ==
    ASSUME StreamInv, FinalFlush
    PROVE  StreamInv' /\ trades' \in Grown(trades)
  <1>1. <<>> \in Seq(Buffered(now, tape)) /\ w \in Memory(now, tape) /\ wire \in Seq(Sent(tape))
    BY DEF StreamInv, Tables, WorkerMemory
  <1>2. /\ w' \in Memory(now, tape) /\ w'.pc = "close" /\ w'.plan = w.plan /\ w'.conn = w.conn
    BY <1>1 DEF FinalFlush, Memory, Places
  <1>3. w.pc = "finish" /\ RecordFrames /\ wire' \in Seq(Sent(tape))
        /\ UNCHANGED <<bound, now, tape, desires, sessions, received>>
    BY <1>1 DEF FinalFlush
  <1> QED
    BY <1>2, <1>3, OnRecorded DEF AtSession

LEMMA OnFinalFlushFails ==
    ASSUME StreamInv, FinalFlushFails
    PROVE  StreamInv' /\ trades' \in Grown(trades)
  <1>1. <<>> \in Seq(Buffered(now, tape)) /\ w \in Memory(now, tape) /\ wire \in Seq(Sent(tape))
    BY DEF StreamInv, Tables, WorkerMemory
  <1>2. /\ w' \in Memory(now, tape) /\ w'.pc = "close" /\ w'.plan = w.plan /\ w'.conn = w.conn
    BY <1>1 DEF FinalFlushFails, Memory, Places
  <1>3. w.pc = "finish" /\ wire' \in Seq(Sent(tape))
        /\ UNCHANGED <<bound, now, tape, desires, sessions, received>>
    BY <1>1 DEF FinalFlushFails
  <1>4. CASE RecordFrames
    BY <1>2, <1>3, <1>4, OnRecorded DEF AtSession
  <1>5. CASE UNCHANGED <<verdicts, receipts, trades>>
    BY <1>2, <1>3, <1>5, OnNotRecorded DEF AtSession
  <1> QED
    BY <1>4, <1>5 DEF FinalFlushFails

LEMMA OnCloseSession ==
    ASSUME StreamInv, CloseSession
    PROVE  StreamInv' /\ trades' \in Grown(trades)
  <1> DEFINE V == Fine(now, received, receipts)
  <1>1. /\ now \in Nat /\ now \in Int /\ sessions \in Seq(Session) /\ verdicts \in Seq(V)
        /\ trades \in Seq(TradeRow) /\ w.conn \in 1..Len(sessions) /\ w.failed \in BOOLEAN
    BY DEF StreamInv, Tables, WorkerMemory, AtSession, Memory, CloseSession
  <1>2. verdicts' \in Seq(V)
    <2>1. V \in SUBSET VerdictRow
      BY DEF Fine
    <2>2. ASSUME NEW d \in Types, NEW from \in Int, NEW to \in Int,
                 NEW q \in {"unverified", "missing"}, NEW r \in {"failed", "partial"}
          PROVE  Verdict(w.conn, All, d, from, to, q, r, now) \in V
      <3>1. PICK v : v = Verdict(w.conn, All, d, from, to, q, r, now)
        OBVIOUS
      <3>2. w.conn \in Nat
        BY <1>1
      <3>3. v \in VerdictRow /\ v.quality # "available"
        BY <1>1, <3>1, <3>2 DEF Verdict, VerdictRow
      <3> QED
        BY <3>1, <3>3, FineUnless
    <2> HIDE DEF V
    <2>3. CloseVerdicts(verdicts, w.conn, w.failed) \in Seq(V)
      BY <1>1, <2>1, <2>2, Closed
    <2> QED
      BY <2>3 DEF CloseSession
  <1>3. /\ sessions' \in Seq(Session) /\ Len(sessions') = Len(sessions) /\ Len(sessions) \in Nat
        /\ \A i \in 1..Len(sessions) : sessions'[i].on = sessions[i].on
    <2>1. PICK status : status = IF w.failed THEN "failed" ELSE "closed"
      OBVIOUS
    <2>2. status \in {"active", "failed", "closed"}
      BY <2>1
    <2>3. PICK row : row = [sessions[w.conn] EXCEPT !.ended = now, !.status = status]
      OBVIOUS
    <2>4. sessions[w.conn] \in Session
      BY <1>1
    <2>5. row \in Session /\ row.on = sessions[w.conn].on
      BY <1>1, <2>2, <2>3, <2>4 DEF Session
    <2>6. sessions' = [sessions EXCEPT ![w.conn] = row]
      BY <1>1, <2>1, <2>3 DEF CloseSession
    <2>7. PICK s : s = w.conn
      OBVIOUS
    <2>8. /\ sessions' \in Seq(Session) /\ Len(sessions') = Len(sessions) /\ Len(sessions) \in Nat
          /\ \A i \in 1..Len(sessions) : sessions'[i] = IF i = s THEN row ELSE sessions[i]
      BY <1>1, <2>5, <2>6, <2>7
    <2> QED
      BY <1>1, <2>5, <2>7, <2>8
  <1>4. w' = Idle /\ UNCHANGED <<bound, now, tape, wire, desires, receipts, trades, received>>
    BY DEF CloseSession
  <1>5. Tables'
    <2>1. verdicts' \in Seq(Fine(now', received', receipts'))
      BY <1>2, <1>4
    <2> HIDE DEF V
    <2>2. \A x \in received' : x.conn \in 1..Len(sessions') /\ x.at \in Nat
      BY <1>3, <1>4 DEF StreamInv, Tables
    <2> QED
      BY <1>3, <1>4, <2>1, <2>2 DEF StreamInv, Tables
  <1>6. WorkerMemory' /\ w'.pc = "idle"
    BY <1>4, MemoryFreed
  <1>7. Desires'
    <2>1. Kept
      BY <1>3 DEF Kept
    <2> QED
      BY <1>4, <1>6, <2>1, DesiresKept
  <1>8. trades' \in Grown(trades)
    BY <1>1, <1>4 DEF Grown
  <1> QED
    BY <1>5, <1>6, <1>7, <1>8 DEF StreamInv

LEMMA OnCrash ==
    ASSUME StreamInv, Crash
    PROVE  StreamInv' /\ trades' \in Grown(trades)
  <1>1. Tables' /\ Kept /\ trades' \in Grown(trades)
    BY NoFrames, TablesKept DEF StreamInv, Crash
  <1>2. WorkerMemory' /\ w'.pc = "idle"
    BY MemoryFreed DEF Crash
  <1>3. Desires'
    BY <1>1, <1>2, DesiresKept DEF Crash
  <1> QED
    BY <1>1, <1>2, <1>3 DEF StreamInv

\* The clock and the exchange move on, the worker's memory stays.
LEMMA MemoryLater ==
    ASSUME StreamInv, now' \in Nat, now <= now', tape' \in [Markets -> Seq(Nat)],
           \A m \in Markets : Len(tape[m]) <= Len(tape'[m]),
           UNCHANGED <<sessions, receipts, received, w>>
    PROVE  WorkerMemory' /\ Sent(tape) \subseteq Sent(tape')
  <1>1. now \in Nat /\ tape \in [Markets -> Seq(Nat)] /\ w \in Memory(now, tape)
    BY DEF StreamInv, Tables, WorkerMemory
  <1>2. PICK n, tp : n = now' /\ tp = tape'
    OBVIOUS
  <1>3. Buffered(now, tape) \subseteq Buffered(n, tp) /\ Sent(tape) \subseteq Sent(tp)
    BY <1>1, <1>2, BufferedStays
  <1>4. w.buffer \in Seq(Buffered(n, tp))
    <2>1. w.buffer \in Seq(Buffered(now, tape))
      BY <1>1 DEF Memory
    <2> QED
      BY <1>3, <2>1, SeqMono
  <1>5. w \in Memory(n, tp)
    BY <1>1, <1>4 DEF Memory
  <1>6. w' \in Memory(now', tape')
    BY <1>2, <1>5
  <1>7. WorkerMemory'
    BY <1>6 DEF StreamInv, WorkerMemory, ReceiptOf
  <1> QED
    BY <1>2, <1>3, <1>7

LEMMA OnHappen ==
    ASSUME StreamInv, NEW m \in Markets, Happen(m)
    PROVE  StreamInv' /\ trades' \in Grown(trades)
  <1>1. now \in Nat /\ tape \in [Markets -> Seq(Nat)] /\ wire \in Seq(Sent(tape)) /\ trades \in Seq(TradeRow)
    BY DEF StreamInv, Tables
  <1>2. /\ tape' = [tape EXCEPT ![m] = Append(tape[m], now)]
        /\ UNCHANGED <<bound, now, desires, sessions, verdicts, receipts, trades, w, received>>
    BY DEF Happen
  <1>3. /\ Append(tape[m], now) \in Seq(Nat) /\ Len(tape[m]) \in Nat
        /\ Len(Append(tape[m], now)) = Len(tape[m]) + 1
    BY <1>1
  <1>4. tape' \in [Markets -> Seq(Nat)] /\ Len(tape'[m]) = Len(tape[m]) + 1
    BY <1>1, <1>2, <1>3
  <1>5. ASSUME NEW o \in Markets PROVE Len(tape[o]) <= Len(tape'[o])
    <2>1. Len(tape[o]) \in Nat
      BY <1>1
    <2>2. o # m => tape'[o] = tape[o]
      BY <1>1, <1>2
    <2> QED
      BY <1>3, <1>4, <2>1, <2>2
  <1>6. WorkerMemory' /\ Sent(tape) \subseteq Sent(tape')
    <2>1. now' \in Nat /\ now <= now'
      BY <1>1, <1>2
    <2> QED
      BY <1>2, <1>4, <1>5, <2>1, MemoryLater
  <1>7. wire' \in Seq(Sent(tape'))
    <2>1. wire \in Seq(Sent(tape'))
      BY <1>1, <1>6
    <2>2. [channel |-> <<m, "trade_event">>, trade |-> Len(tape[m]) + 1] \in Sent(tape')
      <3>1. <<m, "trade_event">> \in Channels
        BY StreamAssumption DEF Channels
      <3>2. Len(tape[m]) + 1 \in Nat /\ Len(tape[m]) + 1 \in 1..Len(tape'[m])
        BY <1>3, <1>4
      <3>3. PICK tp : tp = tape'
        OBVIOUS
      <3>4. [channel |-> <<m, "trade_event">>, trade |-> Len(tape[m]) + 1] \in Sent(tp)
        BY <3>1, <3>2, <3>3 DEF Sent
      <3> QED
        BY <3>3, <3>4
    <2> QED
      BY <2>1, <2>2 DEF Happen
  <1>8. Tables'
    BY <1>2, <1>4, <1>7 DEF StreamInv, Tables
  <1>9. Desires'
    BY <1>2 DEF StreamInv, Desires
  <1>10. trades' \in Grown(trades)
    BY <1>1, <1>2 DEF Grown
  <1> QED
    BY <1>6, <1>8, <1>9, <1>10 DEF StreamInv

LEMMA OnChangeDesire ==
    ASSUME StreamInv, NEW c \in Channels, ChangeDesire(c)
    PROVE  StreamInv' /\ trades' \in Grown(trades)
  <1>1. UNCHANGED <<bound, now, tape, wire, sessions, verdicts, receipts, trades, w, received>>
    BY DEF ChangeDesire
  <1>2. Tables' /\ trades' \in Grown(trades)
    <2>1. wire' \in Seq(Sent(tape))
      BY <1>1 DEF StreamInv, Tables
    <2> QED
      BY <1>1, <2>1, TablesKept DEF StreamInv
  <1>3. WorkerMemory'
    BY <1>1 DEF StreamInv, WorkerMemory, ReceiptOf
  <1>4. Desires'
    <2>1. desires \in [Channels -> [on : BOOLEAN, gen : Nat, applied : Nat, conn : Nat]]
      BY DEF StreamInv, Desires
    <2>2. PICK old : old = desires[c]
      OBVIOUS
    <2>3. old \in [on : BOOLEAN, gen : Nat, applied : Nat, conn : Nat]
      BY <2>1, <2>2
    <2>4. PICK new : new = [old EXCEPT !.on = ~old.on, !.gen = old.gen + 1]
      OBVIOUS
    <2>5. new \in [on : BOOLEAN, gen : Nat, applied : Nat, conn : Nat]
      <3>1. PICK on : on = ~old.on
        OBVIOUS
      <3>2. on \in BOOLEAN
        BY <3>1
      <3>3. PICK B : B = BOOLEAN
        OBVIOUS
      <3>4. PICK mid : mid = [old EXCEPT !.on = on]
        OBVIOUS
      <3>5. old \in [on : B, gen : Nat, applied : Nat, conn : Nat] /\ on \in B
        BY <2>3, <3>2, <3>3
      <3>6. mid \in [on : B, gen : Nat, applied : Nat, conn : Nat] /\ mid.gen = old.gen
        BY <3>4, <3>5
      <3>7. new = [mid EXCEPT !.gen = mid.gen + 1]
        BY <2>4, <3>1, <3>4, <3>6
      <3>8. new \in [on : B, gen : Nat, applied : Nat, conn : Nat]
        BY <3>6, <3>7
      <3> QED
        BY <3>3, <3>8
    <2>6. new.gen = old.gen + 1 /\ new.applied = old.applied /\ new.conn = old.conn
      BY <2>3, <2>4
    <2>7. desires' = [desires EXCEPT ![c] = new]
      BY <2>1, <2>2, <2>4 DEF ChangeDesire
    <2>8. desires' \in [Channels -> [on : BOOLEAN, gen : Nat, applied : Nat, conn : Nat]]
      BY <2>1, <2>5, <2>7
    <2>9. ASSUME NEW e \in Channels
          PROVE  /\ desires'[e].applied <= desires'[e].gen
                 /\ desires'[e].conn \in 0..Len(sessions')
                 /\ desires'[e].applied = desires'[e].gen =>
                        (desires'[e].on <=> desires'[e].conn # 0 /\ e \in sessions'[desires'[e].conn].on)
                 /\ w'.pc # "idle" =>
                        /\ w'.plan.gens[e] <= desires'[e].gen
                        /\ w'.plan.gens[e] = desires'[e].gen => (desires'[e].on <=> e \in w'.plan.on)
      <3>1. CASE e # c
        <4>1. desires'[e] = desires[e]
          BY <2>1, <2>7, <3>1
        <4> QED
          BY <1>1, <4>1 DEF StreamInv, Desires
      <3>2. CASE e = c
        <4>1. desires'[e] = new
          BY <2>1, <2>7, <3>2
        <4>2. /\ old.applied <= old.gen /\ old.conn \in 0..Len(sessions)
              /\ w.pc # "idle" => w.plan.gens[c] <= old.gen
          BY <2>2 DEF StreamInv, Desires
        <4>3. w.pc # "idle" => w.plan.gens[c] \in Nat
          <5>1. w \in Memory(now, tape)
            BY DEF StreamInv, WorkerMemory
          <5> QED
            BY <5>1 DEF Memory
        <4>4. /\ new.applied <= new.gen /\ new.applied # new.gen
              /\ w.pc # "idle" => w.plan.gens[c] <= new.gen /\ w.plan.gens[c] # new.gen
          BY <2>3, <2>6, <4>2, <4>3
        <4> QED
          BY <1>1, <2>6, <3>2, <4>1, <4>2, <4>4
      <3> QED
        BY <3>1, <3>2
    <2> QED
      BY <2>8, <2>9 DEF Desires
  <1> QED
    BY <1>2, <1>3, <1>4 DEF StreamInv

LEMMA OnTick ==
    ASSUME StreamInv, Tick
    PROVE  StreamInv' /\ trades' \in Grown(trades)
  <1>1. /\ now \in Nat /\ tape \in [Markets -> Seq(Nat)] /\ trades \in Seq(TradeRow)
        /\ verdicts \in Seq(Fine(now, received, receipts))
    BY DEF StreamInv, Tables
  <1>2. /\ now' = now + 1
        /\ UNCHANGED <<bound, tape, wire, desires, sessions, verdicts, receipts, trades, w, received>>
    BY DEF Tick
  <1>3. now' \in Nat /\ now <= now'
    BY <1>1, <1>2
  <1>4. WorkerMemory'
    <2>1. \A m \in Markets : Len(tape[m]) <= Len(tape'[m])
      <3>1. \A m \in Markets : Len(tape[m]) \in Nat
        BY <1>1
      <3> QED
        BY <1>2, <3>1
    <2> QED
      BY <1>1, <1>2, <1>3, <2>1, MemoryLater
  <1>5. verdicts' \in Seq(Fine(now', received', receipts'))
    <2>1. PICK n : n = now'
      OBVIOUS
    <2>2. Fine(now, received, receipts) \subseteq Fine(n, received, receipts)
      BY <1>1, <1>3, <2>1, FineStays
    <2>3. verdicts \in Seq(Fine(n, received, receipts))
      BY <1>1, <2>2, SeqMono
    <2> QED
      BY <1>2, <2>1, <2>3
  <1>6. Tables'
    BY <1>2, <1>3, <1>5 DEF StreamInv, Tables
  <1>7. Desires'
    BY <1>2 DEF StreamInv, Desires
  <1>8. trades' \in Grown(trades)
    BY <1>1, <1>2 DEF Grown
  <1> QED
    BY <1>4, <1>6, <1>7, <1>8 DEF StreamInv

\* Every step of the stream keeps its invariant, and no stored trade changes.
LEMMA StreamSteps ==
    ASSUME StreamInv, StreamNext
    PROVE  StreamInv' /\ trades' \in Grown(trades)
  BY OnLoadPlan, OnApplyEmptyPlan, OnOpenSession, OnConnect, OnReceiveTrade, OnReceiveOther,
     OnFlush, OnFlushFails, OnStreamEnds, OnStreamFails, OnFinalFlush, OnFinalFlushFails,
     OnCloseSession, OnCrash, OnHappen, OnChangeDesire, OnTick DEF StreamNext

LEMMA StreamStart ==
    ASSUME StreamInit
    PROVE  StreamInv
  <1>1. Tables
    BY DEF StreamInit, Tables
  <1>2. WorkerMemory
    <2>1. w \in Memory(now, tape) /\ w.pc = "idle"
      <3>1. w = Idle /\ w.pc = "idle"
        BY DEF StreamInit, Idle
      <3> QED
        BY <3>1, IdleMemory
    <2> QED
      BY <2>1 DEF WorkerMemory, AtSession
  <1>3. Desires
    <2>1. \A c \in Channels : desires[c] = [on |-> c[2] \in bound.types, gen |-> 1, applied |-> 0, conn |-> 0]
      BY DEF StreamInit
    <2>2. desires \in [Channels -> [on : BOOLEAN, gen : Nat, applied : Nat, conn : Nat]]
      BY DEF StreamInit
    <2>3. w.pc = "idle" /\ sessions = <<>>
      BY DEF StreamInit, Idle
    <2>4. ASSUME NEW c \in Channels
          PROVE  desires[c].gen = 1 /\ desires[c].applied = 0 /\ desires[c].conn = 0
      <3>1. PICK on : on = (c[2] \in bound.types)
        OBVIOUS
      <3>2. desires[c] = [on |-> on, gen |-> 1, applied |-> 0, conn |-> 0]
        BY <2>1, <3>1, Zenon
      <3> QED
        BY <3>2
    <2> QED
      BY <2>2, <2>3, <2>4 DEF Desires
  <1> QED
    BY <1>1, <1>2, <1>3 DEF StreamInv

\* A step of the queue leaves the stream as it is.
LEMMA QueueQuiet ==
    ASSUME StreamInv, UNCHANGED streamVars
    PROVE  StreamInv'
  <1>1. UNCHANGED <<bound, now, tape, wire, desires, sessions, verdicts, receipts, trades, w, received>>
    BY DEF streamVars
  <1>2. Tables'
    BY <1>1 DEF StreamInv, Tables
  <1>3. WorkerMemory'
    BY <1>1 DEF StreamInv, WorkerMemory
  <1>4. Desires'
    BY <1>1 DEF StreamInv, Desires
  <1> QED
    BY <1>2, <1>3, <1>4 DEF StreamInv

\* Every step leaves the stream as it is or is one of the stream.
LEMMA StreamOrQueue ==
    ASSUME [Next]_vars
    PROVE  StreamNext \/ UNCHANGED streamVars
  <1>1. CASE UNCHANGED vars
    BY <1>1 DEF vars
  <1>2. CASE StreamStep
    BY <1>2 DEF StreamStep
  <1>3. ASSUME NEW m, NEW b, NEW kind, WriteFact(m, b, kind) PROVE UNCHANGED streamVars
    BY <1>3 DEF WriteFact
  <1>4. CASE CommitFact
    BY <1>4 DEF CommitFact
  <1>5. ASSUME NEW v, Step(v) \/ FenceFails(v) \/ WorkerDies(v) PROVE UNCHANGED streamVars
    BY <1>5 DEF Step, Claim, EnterFence, Materialize, FenceFails, WorkerDies
  <1>6. ASSUME NEW i, Lapse(i) \/ LapseEarly(i) PROVE UNCHANGED streamVars
    BY <1>6 DEF Lapse, LapseEarly
  <1> QED
    BY <1>1, <1>2, <1>3, <1>4, <1>5, <1>6 DEF Next

LEMMA StreamInductive == Spec => []StreamInv
  <1>1. Init => StreamInv
    BY StreamStart DEF Init
  <1>2. StreamInv /\ [Next]_vars => StreamInv'
    BY StreamSteps, QueueQuiet, StreamOrQueue
  <1> QED
    BY <1>1, <1>2, PTL DEF Spec

\* Whatever crashes, failed flushes and retries there are, every frame a
\* session received in a minute it calls available is stored.
THEOREM AvailableHasItsFrames == Spec => []AvailableKeepsItsFrames
  <1>1. StreamInv => AvailableKeepsItsFrames
    <2> SUFFICES ASSUME StreamInv, NEW i \in DOMAIN verdicts, NEW f \in received,
                        verdicts[i].quality = "available", f.conn = verdicts[i].conn,
                        Floor(f.at) = verdicts[i].from, f \notin receipts
                 PROVE  FALSE
      BY DEF AvailableKeepsItsFrames
    <2>1. PICK v : v = verdicts[i]
      OBVIOUS
    <2>2. verdicts \in Seq(Fine(now, received, receipts)) /\ f.at \in Nat
      BY DEF StreamInv, Tables
    <2>3. v \in Fine(now, received, receipts)
      BY <2>1, <2>2
    <2>4. v \in VerdictRow /\ v.from < v.to /\ Floor(f.at) >= v.to
      BY <2>1, <2>3 DEF Fine
    <2>5. v.from \in Int /\ v.to \in Int
      BY <2>4 DEF VerdictRow
    <2> QED
      BY <2>1, <2>4, <2>5
  <1> QED
    BY <1>1, StreamInductive, PTL

\* However often a desire changed between reading the plan and connecting, one
\* that is applied is subscribed exactly when it is desired.
THEOREM AppliedIsAsDesired == Spec => []AppliedIsSubscribed
  <1>1. StreamInv => AppliedIsSubscribed
    <2> SUFFICES ASSUME StreamInv, NEW c \in Channels, desires[c].applied = desires[c].gen
                 PROVE  desires[c].on = (desires[c].conn # 0 /\ c \in sessions[desires[c].conn].on)
      BY DEF AppliedIsSubscribed
    <2>1. PICK on : on = desires[c].on
      OBVIOUS
    <2>2. desires[c] \in [on : BOOLEAN, gen : Nat, applied : Nat, conn : Nat]
      BY DEF StreamInv, Desires
    <2>3. on \in BOOLEAN
      BY <2>1, <2>2
    <2>4. on <=> (desires[c].conn # 0 /\ c \in sessions[desires[c].conn].on)
      BY <2>1 DEF StreamInv, Desires
    <2> QED
      BY <2>1, <2>3, <2>4
  <1> QED
    BY <1>1, StreamInductive, PTL

-----------------------------------------------------------------------------
(* Invalidations.                                                          *)

\* The rows of the candle writer, and of microstructure_invalidations when
\* there are n trades.
FactRow ==
    [kind : {"revision", "no_trade"}, market : Markets, bucket : Int, at : Nat, volume : Nat,
     visible : BOOLEAN]
Invalidation(n) ==
    [market : Markets, bucket : Int, through : 0..n, candle : Nat, quality : Nat, connection : Nat,
     at : Int, status : {"pending", "retry_wait", "running", "succeeded", "dead_letter"},
     attempts : Int, owner : Workers \cup {"none"}, gen : Nat, live : BOOLEAN, visible : BOOLEAN]

\* What a row may become while others are enqueued: it reaches no trade less,
\* an unfinished one does not end, and a running one stays as it is.
Carries(a, b) ==
    /\ b.market = a.market /\ b.bucket = a.bucket
    /\ a.through <= b.through /\ a.at <= b.at
    /\ a.status # "succeeded" => b.status # "succeeded"
    /\ a.status = "running" => b = a
Enqueued(n, q) ==
    {r \in Seq(Invalidation(n)) : Len(q) <= Len(r) /\ \A j \in 1..Len(q) : Carries(q[j], r[j])}

LEMMA RowFields ==
    ASSUME NEW n \in Nat, NEW r \in Invalidation(n)
    PROVE  /\ r.market \in Markets /\ r.bucket \in Int /\ r.through \in 0..n /\ r.at \in Int
           /\ r.through \in Int /\ r.attempts \in Int /\ r.gen \in Nat
  BY DEF Invalidation

LEMMA CarriesOn ==
    ASSUME NEW n \in Nat, NEW a \in Invalidation(n), NEW b \in Invalidation(n),
           NEW c \in Invalidation(n), Carries(a, b), Carries(b, c)
    PROVE  Carries(a, c)
  <1>1. /\ a.through \in Int /\ b.through \in Int /\ c.through \in Int
        /\ a.at \in Int /\ b.at \in Int /\ c.at \in Int
    BY RowFields
  <1> QED
    BY <1>1 DEF Carries

LEMMA CarriesItself ==
    ASSUME NEW n \in Nat, NEW a \in Invalidation(n)
    PROVE  Carries(a, a)
  <1>1. a.through \in Int /\ a.at \in Int
    BY RowFields
  <1> QED
    BY <1>1 DEF Carries

LEMMA EnqueuedItself ==
    ASSUME NEW n \in Nat, NEW q \in Seq(Invalidation(n))
    PROVE  q \in Enqueued(n, q)
  <1>1. Len(q) \in Nat /\ \A j \in 1..Len(q) : q[j] \in Invalidation(n)
    OBVIOUS
  <1>2. \A j \in 1..Len(q) : Carries(q[j], q[j])
    BY <1>1, CarriesItself
  <1> QED
    BY <1>1, <1>2 DEF Enqueued

LEMMA EnqueuedOn ==
    ASSUME NEW n \in Nat, NEW q \in Seq(Invalidation(n)), NEW r \in Enqueued(n, q),
           NEW s \in Enqueued(n, r)
    PROVE  s \in Enqueued(n, q)
  <1>1. r \in Seq(Invalidation(n)) /\ Len(q) <= Len(r) /\ \A j \in 1..Len(q) : Carries(q[j], r[j])
    BY DEF Enqueued
  <1>2. s \in Seq(Invalidation(n)) /\ Len(r) <= Len(s) /\ \A j \in 1..Len(r) : Carries(r[j], s[j])
    BY DEF Enqueued
  <1>3. Len(q) \in Nat /\ Len(r) \in Nat /\ Len(s) \in Nat
    BY <1>1, <1>2
  <1>4. ASSUME NEW j \in 1..Len(q) PROVE Carries(q[j], s[j])
    <2>1. j \in 1..Len(r) /\ j \in 1..Len(s)
      BY <1>1, <1>2, <1>3
    <2>2. q[j] \in Invalidation(n) /\ r[j] \in Invalidation(n) /\ s[j] \in Invalidation(n)
      BY <1>1, <1>2, <2>1
    <2>3. Carries(q[j], r[j]) /\ Carries(r[j], s[j])
      BY <1>1, <1>2, <2>1
    <2> QED
      BY <2>2, <2>3, CarriesOn
  <1> QED
    BY <1>1, <1>2, <1>3, <1>4 DEF Enqueued

\* A row added at the end.
LEMMA EnqueuedLast ==
    ASSUME NEW n \in Nat, NEW q \in Seq(Invalidation(n)), NEW row \in Invalidation(n)
    PROVE  Append(q, row) \in Enqueued(n, q) /\ Append(q, row)[Len(q) + 1] = row
           /\ Len(q) + 1 \in DOMAIN Append(q, row)
  <1>1. /\ Append(q, row) \in Seq(Invalidation(n)) /\ Len(Append(q, row)) = Len(q) + 1
        /\ Append(q, row)[Len(q) + 1] = row /\ Len(q) \in Nat
        /\ \A j \in 1..Len(q) : Append(q, row)[j] = q[j] /\ q[j] \in Invalidation(n)
    OBVIOUS
  <1>2. PICK r : r = Append(q, row)
    OBVIOUS
  <1>3. \A j \in 1..Len(q) : Carries(q[j], r[j])
    BY <1>1, <1>2, CarriesItself
  <1>4. r \in Seq(Invalidation(n)) /\ Len(q) <= Len(r)
    BY <1>1, <1>2
  <1>5. r \in Enqueued(n, q)
    BY <1>3, <1>4 DEF Enqueued
  <1> QED
    BY <1>1, <1>2, <1>5

LEMMA InsertedOrSkipped ==
    ASSUME NEW n \in Nat, NEW q \in Seq(Invalidation(n)), NEW row \in Invalidation(n)
    PROVE  InsertOrSkip(q, row) \in Enqueued(n, q)
  BY EnqueuedLast, EnqueuedItself DEF InsertOrSkip

\* A waiting row takes over what is newer.
Newer(r, k, a) == [r EXCEPT !.through = Max2(@, k), !.at = Max2(@, a), !.status = "pending"]

LEMMA Updated ==
    ASSUME NEW n \in Nat, NEW r, NEW k, NEW a, NEW s, r \in Invalidation(n),
           k \in 0..n, a \in Int, r.status \in Waiting, s = Newer(r, k, a)
    PROVE  /\ s \in Invalidation(n) /\ Carries(r, s) /\ s.through >= k /\ s.at >= a
           /\ s.market = r.market /\ s.bucket = r.bucket /\ s.status = "pending"
  <1>1. r.through \in 0..n /\ r.at \in Int
    BY RowFields
  <1>2. PICK th : th = Max2(r.through, k)
    OBVIOUS
  <1>3. PICK at : at = Max2(r.at, a)
    OBVIOUS
  <1>4. th \in 0..n /\ th >= r.through /\ th >= k
    BY <1>1, <1>2 DEF Max2
  <1>5. at \in Int /\ at >= r.at /\ at >= a
    BY <1>1, <1>3 DEF Max2
  <1>6. PICK B : B = BOOLEAN
    OBVIOUS
  <1>7. s = [r EXCEPT !.through = th, !.at = at, !.status = "pending"]
    BY <1>2, <1>3 DEF Newer
  <1>8. s \in Invalidation(n) /\ s.through = th /\ s.at = at /\ s.market = r.market
        /\ s.bucket = r.bucket /\ s.status = "pending"
    BY <1>4, <1>5, <1>6, <1>7 DEF Invalidation
  <1>9. Carries(r, s)
    BY <1>1, <1>4, <1>5, <1>8 DEF Carries, Waiting
  <1> QED
    BY <1>4, <1>5, <1>8, <1>9

\* A row of a queue replaced by one that carries it.
LEMMA Replaced ==
    ASSUME NEW n \in Nat, NEW q \in Seq(Invalidation(n)), NEW i \in 1..Len(q),
           NEW s \in Invalidation(n), Carries(q[i], s)
    PROVE  [q EXCEPT ![i] = s] \in Enqueued(n, q)
  <1>1. PICK r : r = [q EXCEPT ![i] = s]
    OBVIOUS
  <1>2. r \in Seq(Invalidation(n)) /\ Len(r) = Len(q) /\ Len(q) \in Nat
    BY <1>1
  <1>3. \A j \in 1..Len(q) : q[j] \in Invalidation(n) /\ r[j] = IF j = i THEN s ELSE q[j]
    BY <1>1
  <1>4. \A j \in 1..Len(q) : Carries(q[j], r[j])
    BY <1>3, CarriesItself
  <1>5. Len(q) <= Len(r)
    BY <1>2
  <1>6. r \in Enqueued(n, q)
    BY <1>2, <1>4, <1>5 DEF Enqueued
  <1> QED
    BY <1>1, <1>6

\* Some unfinished row reaches trade i of ts.
Reached(q, ts, i) ==
    \E j \in DOMAIN q :
        /\ q[j].market = ts[i].market /\ q[j].bucket = ts[i].bucket
        /\ i <= q[j].through /\ ts[i].at <= q[j].at
        /\ q[j].status # "succeeded"

LEMMA StillReached ==
    ASSUME NEW n \in Nat, NEW q \in Seq(Invalidation(n)), NEW r \in Enqueued(n, q),
           NEW ts \in Seq(TradeRow), NEW i \in 1..Len(ts), Reached(q, ts, i)
    PROVE  Reached(r, ts, i)
  <1>1. PICK j \in DOMAIN q :
            /\ q[j].market = ts[i].market /\ q[j].bucket = ts[i].bucket
            /\ i <= q[j].through /\ ts[i].at <= q[j].at
            /\ q[j].status # "succeeded"
    BY DEF Reached
  <1>2. r \in Seq(Invalidation(n)) /\ Len(q) <= Len(r) /\ \A k \in 1..Len(q) : Carries(q[k], r[k])
    BY DEF Enqueued
  <1>3. j \in 1..Len(q) /\ j \in 1..Len(r) /\ j \in DOMAIN r
    BY <1>2
  <1>4. q[j] \in Invalidation(n) /\ r[j] \in Invalidation(n) /\ ts[i] \in TradeRow
    BY <1>2, <1>3
  <1>5. PICK a, b, t : a = q[j] /\ b = r[j] /\ t = ts[i]
    OBVIOUS
  <1>6. /\ a.through \in Int /\ b.through \in Int /\ a.at \in Int /\ b.at \in Int
    BY <1>4, <1>5, RowFields
  <1>7. t.at \in Int
    BY <1>4, <1>5 DEF TradeRow
  <1>8. Carries(a, b)
    BY <1>2, <1>3, <1>5
  <1>9. /\ b.market = t.market /\ b.bucket = t.bucket /\ i <= b.through /\ t.at <= b.at
        /\ b.status # "succeeded"
    BY <1>1, <1>5, <1>6, <1>7, <1>8 DEF Carries
  <1> QED
    BY <1>3, <1>5, <1>9 DEF Reached

\* A new row, on its own or in a waiting row of its key.
LEMMA Coalesced ==
    ASSUME NEW n \in Nat, NEW q \in Seq(Invalidation(n)), NEW row \in Invalidation(n),
           NEW ts \in Seq(TradeRow), NEW i \in 1..Len(ts), row.status = "pending",
           row.market = ts[i].market, row.bucket = ts[i].bucket, row.through = i, row.at = ts[i].at
    PROVE  Coalesce(q, row) \in Enqueued(n, q) /\ Reached(Coalesce(q, row), ts, i)
  <1>1. row.through \in 0..n /\ row.at \in Int
    BY RowFields
  <1>2. CASE Clashing(q, row) = {}
    <2>1. Coalesce(q, row) = Append(q, row)
      BY <1>2 DEF Coalesce
    <2>2. PICK r : r = Append(q, row)
      OBVIOUS
    <2>3. r \in Enqueued(n, q) /\ r[Len(q) + 1] = row /\ Len(q) + 1 \in DOMAIN r
      BY <2>2, EnqueuedLast
    <2>4. i <= row.through /\ ts[i].at <= row.at
      BY <1>1
    <2>5. Reached(r, ts, i)
      BY <2>3, <2>4 DEF Reached
    <2> QED
      BY <2>1, <2>2, <2>3, <2>5
  <1>3. CASE Clashing(q, row) # {}
    <2> DEFINE k == CHOOSE k \in Clashing(q, row) : TRUE
               s == [q[k] EXCEPT !.through = Max2(@, row.through), !.at = Max2(@, row.at),
                                 !.status = "pending"]
    <2>1. k \in DOMAIN q /\ Key(q[k]) = Key(row) /\ q[k].status \in Waiting
      <3>1. k \in Clashing(q, row)
        BY <1>3
      <3> HIDE DEF k
      <3> QED
        BY <3>1 DEF Clashing
    <2>2. Coalesce(q, row) = [q EXCEPT ![k].through = Max2(@, row.through),
                                       ![k].at = Max2(@, row.at), ![k].status = "pending"]
      BY <1>3 DEF Coalesce
    <2>3. Coalesce(q, row) = [q EXCEPT ![k] = s]
      <3> HIDE DEF k
      <3> QED
        BY <2>1, <2>2
    <2> HIDE DEF k
    <2>4. q[k] \in Invalidation(n) /\ k \in 1..Len(q)
      BY <2>1
    <2>5. /\ s \in Invalidation(n) /\ Carries(q[k], s) /\ s.through >= row.through
          /\ s.at >= row.at /\ s.market = q[k].market /\ s.bucket = q[k].bucket
          /\ s.status = "pending"
      <3>1. PICK a, b, c, d : a = q[k] /\ b = s /\ c = row.through /\ d = row.at
        OBVIOUS
      <3>2. b = Newer(a, c, d)
        BY <3>1 DEF Newer
      <3> HIDE DEF s
      <3>3. a \in Invalidation(n) /\ c \in 0..n /\ d \in Int /\ a.status \in Waiting
        BY <1>1, <2>1, <2>4, <3>1
      <3>4. /\ b \in Invalidation(n) /\ Carries(a, b) /\ b.through >= c /\ b.at >= d
            /\ b.market = a.market /\ b.bucket = a.bucket /\ b.status = "pending"
        BY <3>2, <3>3, Updated
      <3> QED
        BY <3>1, <3>4
    <2>6. q[k].market = row.market /\ q[k].bucket = row.bucket
      BY <2>1 DEF Key
    <2> HIDE DEF s
    <2>7. PICK r : r = [q EXCEPT ![k] = s]
      OBVIOUS
    <2>8. r \in Enqueued(n, q)
      BY <2>4, <2>5, <2>7, Replaced
    <2>9. k \in DOMAIN r /\ r[k] = s
      BY <2>1, <2>7
    <2>10. s.through \in Int /\ s.at \in Int
      BY <2>5, RowFields
    <2>11. i <= s.through /\ ts[i].at <= s.at /\ s.status # "succeeded"
           /\ s.market = ts[i].market /\ s.bucket = ts[i].bucket
      BY <1>1, <2>5, <2>6, <2>10
    <2>12. Reached(r, ts, i)
      BY <2>9, <2>11 DEF Reached
    <2> QED
      BY <2>3, <2>7, <2>8, <2>12
  <1> QED
    BY <1>2, <1>3

\* Ids are natural numbers, and a ceiling is the id of a row or 0.
LEMMA MaxOrZero ==
    ASSUME NEW N \in Nat, NEW t \in SUBSET (1..N)
    PROVE  Max(t \cup {0}) \in 0..N
  <1>1. t \cup {0} \in SUBSET (0..N)
    OBVIOUS
  <1>2. IsFiniteSet(0..N)
    BY FS_Interval
  <1>3. IsFiniteSet(t \cup {0})
    BY <1>1, <1>2, FS_Subset
  <1>4. PICK u : u = t \cup {0}
    OBVIOUS
  <1>5. u \in SUBSET Int /\ IsFiniteSet(u) /\ u # {}
    BY <1>1, <1>3, <1>4
  <1>6. Max(u) \in u
    BY <1>5, MaxIn
  <1> QED
    BY <1>1, <1>4, <1>6

LEMMA LatestFact ==
    ASSUME facts \in Seq(FactRow), NEW m, NEW b, NEW at
    PROVE  LatestCandle(m, b, at) \in Nat /\ LatestQuality(m, b, at) \in Nat
  <1>1. Len(facts) \in Nat /\ DOMAIN facts = 1..Len(facts)
    OBVIOUS
  <1>2. LatestQuality(m, b, at) \in Nat
    <2>1. FactIds("no_trade", m, b, at) \in SUBSET (1..Len(facts))
      BY <1>1 DEF FactIds
    <2>2. Max(FactIds("no_trade", m, b, at) \cup {0}) \in 0..Len(facts)
      BY <1>1, <2>1, MaxOrZero
    <2> QED
      BY <1>1, <2>2 DEF LatestQuality
  <1>3. LatestCandle(m, b, at) \in Nat
    <2>1. PICK ids : ids = FactIds("revision", m, b, at)
      OBVIOUS
    <2>2. PICK newest : newest = {i \in ids : \A j \in ids : facts[j].at <= facts[i].at}
      OBVIOUS
    <2>3. LatestCandle(m, b, at) = IF ids = {} THEN 0 ELSE Max(newest)
      BY <2>1, <2>2 DEF LatestCandle
    <2>4. ids \in SUBSET (1..Len(facts))
      BY <1>1, <2>1 DEF FactIds
    <2>5. ASSUME ids # {} PROVE Max(newest) \in Nat
      <3>1. \A i \in ids : facts[i].at \in Int
        <4>1. \A i \in ids : facts[i] \in FactRow
          BY <2>4
        <4> QED
          BY <4>1 DEF FactRow
      <3>2. PICK ats : ats = {facts[i].at : i \in ids}
        OBVIOUS
      <3>3. IsFiniteSet(ids)
        BY <1>1, <2>4, IndexSets
      <3>4. IsFiniteSet(ats)
        <4>1. PICK f : f = [i \in ids |-> facts[i].at]
          OBVIOUS
        <4>2. IsFiniteSet({f[i] : i \in ids})
          BY <3>3, ImageFinite
        <4>3. ats = {f[i] : i \in ids}
          BY <3>2, <4>1
        <4> QED
          BY <4>2, <4>3
      <3>5. ats \in SUBSET Int /\ ats # {}
        BY <2>5, <3>1, <3>2
      <3>6. Max(ats) \in ats /\ \A y \in ats : Max(ats) >= y
        BY <3>4, <3>5, MaxIn
      <3>7. PICK i \in ids : Max(ats) = facts[i].at
        BY <3>2, <3>6
      <3>8. \A j \in ids : facts[j].at <= facts[i].at
        <4>1. ASSUME NEW j \in ids PROVE facts[j].at <= facts[i].at
          <5>1. facts[j].at \in ats
            BY <3>2
          <5>2. PICK x, y : x = facts[j].at /\ y = facts[i].at
            OBVIOUS
          <5>3. x \in Int /\ y \in Int /\ y >= x
            BY <3>1, <3>6, <3>7, <5>1, <5>2
          <5> QED
            BY <5>2, <5>3
        <4> QED
          BY <4>1
      <3>9. newest # {} /\ newest \in SUBSET (1..Len(facts))
        BY <2>2, <2>4, <3>8
      <3>10. Max(newest) \in 1..Len(facts)
        BY <1>1, <3>9, IndexSets
      <3> QED
        BY <1>1, <3>10
    <2> QED
      BY <2>3, <2>5
  <1> QED
    BY <1>2, <1>3

LEMMA Ceilings ==
    ASSUME NEW vs, NEW V, vs \in Seq(V), NEW ts, NEW T, ts \in Seq(T), NEW at, NEW m
    PROVE  ConnectionCeiling(vs, at) \in Nat /\ TradeCeiling(ts, m) \in 0..Len(ts)
  <1>1. Len(vs) \in Nat /\ DOMAIN vs = 1..Len(vs) /\ Len(ts) \in Nat /\ DOMAIN ts = 1..Len(ts)
    OBVIOUS
  <1>2. PICK a : a = {i \in DOMAIN vs : vs[i].at <= at}
    OBVIOUS
  <1>3. PICK b : b = {i \in DOMAIN ts : ts[i].market = m}
    OBVIOUS
  <1>4. a \in SUBSET (1..Len(vs)) /\ b \in SUBSET (1..Len(ts))
    BY <1>1, <1>2, <1>3
  <1>5. Max(a \cup {0}) \in 0..Len(vs) /\ Max(b \cup {0}) \in 0..Len(ts)
    BY <1>1, <1>4, MaxOrZero
  <1> QED
    BY <1>1, <1>2, <1>3, <1>5 DEF ConnectionCeiling, TradeCeiling

\* The trigger of a stored trade.
LEMMA TradeEnqueued ==
    ASSUME NEW n \in Nat, facts \in Seq(FactRow), NEW q \in Seq(Invalidation(n)),
           NEW vs \in Seq(VerdictRow), NEW ts \in Seq(TradeRow), NEW i \in 1..Len(ts), i <= n
    PROVE  EnqueueTrade(q, vs, ts, i) \in Enqueued(n, q) /\ Reached(EnqueueTrade(q, vs, ts, i), ts, i)
  <1>1. PICK t : t = ts[i]
    OBVIOUS
  <1>2. t \in TradeRow
    BY <1>1
  <1>3. t.market \in Markets /\ t.bucket \in Int /\ t.at \in Int
    BY <1>2 DEF TradeRow
  <1>4. PICK candle, quality, connection :
            /\ candle = LatestCandle(t.market, t.bucket, t.at)
            /\ quality = LatestQuality(t.market, t.bucket, t.at)
            /\ connection = ConnectionCeiling(vs, t.at)
    OBVIOUS
  <1>5. candle \in Nat /\ quality \in Nat /\ connection \in Nat
    BY <1>4, LatestFact, Ceilings
  <1>6. PICK row : row = Row(t.market, t.bucket, i, candle, quality, connection, t.at)
    OBVIOUS
  <1>7. EnqueueTrade(q, vs, ts, i) = Coalesce(q, row)
    BY <1>1, <1>4, <1>6 DEF EnqueueTrade
  <1>8. i \in 0..n
    OBVIOUS
  <1>9. /\ row \in Invalidation(n) /\ row.market = t.market /\ row.bucket = t.bucket
        /\ row.through = i /\ row.at = t.at /\ row.status = "pending"
    <2>1. PICK m, b, k, a : m = t.market /\ b = t.bucket /\ k = i /\ a = t.at
      OBVIOUS
    <2>2. /\ m \in Markets /\ b \in Int /\ k \in 0..n /\ a \in Int
          /\ row = Row(m, b, k, candle, quality, connection, a)
      BY <1>3, <1>6, <1>8, <2>1
    <2>3. /\ row \in Invalidation(n) /\ row.market = m /\ row.bucket = b /\ row.through = k
          /\ row.at = a /\ row.status = "pending"
      BY <1>5, <2>2 DEF Row, Invalidation
    <2> QED
      BY <2>1, <2>3
  <1>10. Coalesce(q, row) \in Enqueued(n, q) /\ Reached(Coalesce(q, row), ts, i)
    BY <1>1, <1>9, Coalesced
  <1> QED
    BY <1>7, <1>10

\* The row of a minute of a market a verdict is about.
CellRow(ts, v, i, c) ==
    Row(c[1], c[2], TradeCeiling(ts, c[1]), LatestCandle(c[1], c[2], v.at),
        LatestQuality(c[1], c[2], v.at), i, v.at)
Cells(q, ts, v, i, cells) ==
    FoldLeft(LAMBDA acc, c : InsertOrSkip(acc, CellRow(ts, v, i, c)), q, cells)

LEMMA CellRowIsRow ==
    ASSUME NEW n \in Nat, facts \in Seq(FactRow), NEW ts \in Seq(TradeRow), Len(ts) <= n,
           NEW v \in VerdictRow, NEW i \in Nat, NEW c \in Markets \X Int
    PROVE  CellRow(ts, v, i, c) \in Invalidation(n)
  <1>1. PICK m, b, a, k : m = c[1] /\ b = c[2] /\ a = v.at /\ k = TradeCeiling(ts, c[1])
    OBVIOUS
  <1>2. m \in Markets /\ b \in Int
    BY <1>1
  <1>3. a \in Int
    BY <1>1 DEF VerdictRow
  <1>4. k \in 0..Len(ts) /\ Len(ts) \in Nat
    BY <1>1, Ceilings
  <1>5. PICK candle, quality : candle = LatestCandle(m, b, a) /\ quality = LatestQuality(m, b, a)
    OBVIOUS
  <1>6. candle \in Nat /\ quality \in Nat
    BY <1>5, LatestFact
  <1>7. CellRow(ts, v, i, c) = Row(m, b, k, candle, quality, i, a)
    BY <1>1, <1>5 DEF CellRow
  <1>8. k \in 0..n
    BY <1>4
  <1>9. Row(m, b, k, candle, quality, i, a) \in Invalidation(n)
    BY <1>2, <1>3, <1>6, <1>8 DEF Row, Invalidation
  <1> QED
    BY <1>7, <1>9

LEMMA CellsEnqueued ==
    ASSUME NEW n \in Nat, facts \in Seq(FactRow), NEW ts \in Seq(TradeRow), Len(ts) <= n,
           NEW v \in VerdictRow, NEW i \in Nat, NEW q \in Seq(Invalidation(n)),
           NEW cells \in Seq(Markets \X Int)
    PROVE  Cells(q, ts, v, i, cells) \in Enqueued(n, q)
  <1> DEFINE f == [p \in Enqueued(n, q) \X (Markets \X Int) |-> InsertOrSkip(p[1], CellRow(ts, v, i, p[2]))]
             Is(it) == it = [t \in SUBSET DOMAIN cells |->
                               IF t = {} THEN q
                               ELSE InsertOrSkip(it[t \ {Max(t)}], CellRow(ts, v, i, cells[Max(t)]))]
             fold == CHOOSE it : Is(it)
  <1>1. cells \in Seq(Markets \X Int) /\ q \in Enqueued(n, q)
    BY EnqueuedItself
  <1>2. f \in [Enqueued(n, q) \X (Markets \X Int) -> Enqueued(n, q)]
    <2>1. ASSUME NEW acc \in Enqueued(n, q), NEW c \in Markets \X Int
          PROVE  InsertOrSkip(acc, CellRow(ts, v, i, c)) \in Enqueued(n, q)
      <3>1. PICK row : row = CellRow(ts, v, i, c)
        OBVIOUS
      <3>2. row \in Invalidation(n)
        BY <3>1, CellRowIsRow
      <3>3. acc \in Seq(Invalidation(n))
        BY DEF Enqueued
      <3>4. InsertOrSkip(acc, row) \in Enqueued(n, acc)
        BY <3>2, <3>3, InsertedOrSkipped
      <3>5. InsertOrSkip(acc, row) \in Enqueued(n, q)
        BY <3>4, EnqueuedOn
      <3> QED
        BY <3>1, <3>5
    <2> QED
      BY <2>1
  <1>3. PICK it : IsFold(it, f, q, cells, Enqueued(n, q), (Markets \X Int))
    <2> HIDE DEF f
    <2> QED
      BY <1>1, <1>2, FoldExists
  <1>4. Is(it)
    BY <1>3 DEF IsFold, FoldsTo
  <1>5. Is(fold)
    BY <1>4
  <1>6. Cells(q, ts, v, i, cells) = fold[DOMAIN cells]
    BY DEF Cells, FoldLeft, MapThenFoldSet
  <1>7. StepsTo(fold, f, q, cells, Enqueued(n, q))
    <2>1. ASSUME NEW t \in SUBSET DOMAIN cells, t # {}, fold[t \ {Max(t)}] \in Enqueued(n, q)
          PROVE  fold[t] = f[<<fold[t \ {Max(t)}], cells[Max(t)]>>]
      <3>1. cells[Max(t)] \in (Markets \X Int)
        BY <1>3, <2>1 DEF IsFold
      <3>2. fold[t] = InsertOrSkip(fold[t \ {Max(t)}], CellRow(ts, v, i, cells[Max(t)]))
        BY <1>5, <2>1
      <3> HIDE DEF fold
      <3> QED
        BY <2>1, <3>1, <3>2
    <2>2. fold[{}] = q
      BY <1>5
    <2>3. DOMAIN cells = 1..Len(cells)
      BY <1>1
    <2> HIDE DEF fold, f
    <2> QED
      BY <2>1, <2>2, <2>3 DEF StepsTo
  <1>8. \A t \in SUBSET (1..Len(cells)) : fold[t] \in Enqueued(n, q)
    <2> HIDE DEF fold, f
    <2> QED
      BY <1>1, <1>2, <1>7, FoldWithin
  <1>9. DOMAIN cells \in SUBSET (1..Len(cells))
    BY <1>1
  <1> HIDE DEF fold
  <1> QED
    BY <1>6, <1>8, <1>9

\* The trigger of a verdict.
LEMMA VerdictEnqueued ==
    ASSUME NEW n \in Nat, facts \in Seq(FactRow), NEW q \in Seq(Invalidation(n)), NEW ss,
           NEW vs \in Seq(VerdictRow), NEW ts \in Seq(TradeRow), Len(ts) <= n, NEW i \in 1..Len(vs)
    PROVE  EnqueueVerdict(q, ss, vs, ts, i) \in Enqueued(n, q)
  <1> DEFINE v == vs[i]
             about == {m \in Markets :
                          v.market = m \/ (v.market = All /\ <<m, v.type>> \in ss[v.conn].scope)}
             minutes == v.from..(v.to - 1)
             cells == SetToSeq(about \X minutes)
  <1>1. v \in VerdictRow /\ i \in Nat
    OBVIOUS
  <1>2. v.from \in Int /\ v.to \in Int
    BY <1>1 DEF VerdictRow
  <1>3. about \subseteq Markets
    OBVIOUS
  <1>4. minutes = v.from..(v.to - 1)
    OBVIOUS
  <1>5. cells = SetToSeq(about \X minutes)
    OBVIOUS
  <1>6. EnqueueVerdict(q, ss, vs, ts, i) = IF v.type \in {"trade_event", "orderbook_snapshot"}
                                           THEN Cells(q, ts, v, i, cells) ELSE q
    BY Zenon DEF EnqueueVerdict, Cells, CellRow
  <1> HIDE DEF v, about, minutes, cells
  <1>7. cells \in Seq(Markets \X Int)
    <2>1. IsFiniteSet(about) /\ about \subseteq Markets
      BY <1>3, StreamAssumption, FS_Subset
    <2>2. PICK lo, hi : lo = v.from /\ hi = v.to - 1
      OBVIOUS
    <2>3. lo \in Int /\ hi \in Int /\ minutes = lo..hi
      BY <1>2, <1>4, <2>2
    <2>4. IsFiniteSet(minutes) /\ minutes \subseteq Int
      BY <2>3, FS_Interval
    <2>5. IsFiniteSet(about \X minutes)
      BY <2>1, <2>4, FS_Product
    <2>6. cells \in Seq(about \X minutes)
      BY <1>5, <2>5, Listed
    <2>7. about \X minutes \subseteq Markets \X Int
      BY <2>1, <2>4
    <2> QED
      BY <2>6, <2>7, SeqMono
  <1>8. Cells(q, ts, v, i, cells) \in Enqueued(n, q)
    BY <1>1, <1>7, CellsEnqueued
  <1> QED
    BY <1>6, <1>8, EnqueuedItself

\* The triggers of the verdicts, and of the trades, a step adds.
VerdictsEnqueued(q, ss, vs, ts, new) ==
    FoldLeft(LAMBDA r, i : EnqueueVerdict(r, ss, vs, ts, i), q, new)
TradesEnqueued(q, vs, ts, new) == FoldLeft(LAMBDA r, i : EnqueueTrade(r, vs, ts, i), q, new)

LEMMA NewVerdictsEnqueued ==
    ASSUME NEW n \in Nat, facts \in Seq(FactRow), NEW q \in Seq(Invalidation(n)), NEW ss,
           NEW vs \in Seq(VerdictRow), NEW ts \in Seq(TradeRow), Len(ts) <= n,
           NEW new \in Seq(1..Len(vs))
    PROVE  VerdictsEnqueued(q, ss, vs, ts, new) \in Enqueued(n, q)
  <1> DEFINE f == [p \in Enqueued(n, q) \X (1..Len(vs)) |-> EnqueueVerdict(p[1], ss, vs, ts, p[2])]
             Is(it) == it = [t \in SUBSET DOMAIN new |->
                               IF t = {} THEN q
                               ELSE EnqueueVerdict(it[t \ {Max(t)}], ss, vs, ts, new[Max(t)])]
             fold == CHOOSE it : Is(it)
  <1>1. new \in Seq(1..Len(vs)) /\ q \in Enqueued(n, q)
    BY EnqueuedItself
  <1>2. f \in [Enqueued(n, q) \X (1..Len(vs)) -> Enqueued(n, q)]
    <2>1. ASSUME NEW acc \in Enqueued(n, q), NEW i \in 1..Len(vs)
          PROVE  EnqueueVerdict(acc, ss, vs, ts, i) \in Enqueued(n, q)
      <3>1. acc \in Seq(Invalidation(n))
        BY DEF Enqueued
      <3>2. EnqueueVerdict(acc, ss, vs, ts, i) \in Enqueued(n, acc)
        BY <3>1, VerdictEnqueued
      <3>3. PICK r : r = EnqueueVerdict(acc, ss, vs, ts, i)
        OBVIOUS
      <3>4. r \in Enqueued(n, q)
        BY <3>2, <3>3, EnqueuedOn
      <3> QED
        BY <3>3, <3>4
    <2> QED
      BY <2>1
  <1>3. PICK it : IsFold(it, f, q, new, Enqueued(n, q), (1..Len(vs)))
    <2> HIDE DEF f
    <2> QED
      BY <1>1, <1>2, FoldExists
  <1>4. Is(it)
    BY <1>3 DEF IsFold, FoldsTo
  <1>5. Is(fold)
    BY <1>4
  <1>6. VerdictsEnqueued(q, ss, vs, ts, new) = fold[DOMAIN new]
    BY DEF VerdictsEnqueued, FoldLeft, MapThenFoldSet
  <1>7. StepsTo(fold, f, q, new, Enqueued(n, q))
    <2>1. ASSUME NEW t \in SUBSET DOMAIN new, t # {}, fold[t \ {Max(t)}] \in Enqueued(n, q)
          PROVE  fold[t] = f[<<fold[t \ {Max(t)}], new[Max(t)]>>]
      <3>1. new[Max(t)] \in (1..Len(vs))
        BY <1>3, <2>1 DEF IsFold
      <3>2. fold[t] = EnqueueVerdict(fold[t \ {Max(t)}], ss, vs, ts, new[Max(t)])
        BY <1>5, <2>1
      <3> HIDE DEF fold
      <3> QED
        BY <2>1, <3>1, <3>2
    <2>2. fold[{}] = q
      BY <1>5
    <2>3. DOMAIN new = 1..Len(new)
      BY <1>1
    <2> HIDE DEF fold, f
    <2> QED
      BY <2>1, <2>2, <2>3 DEF StepsTo
  <1>8. \A t \in SUBSET (1..Len(new)) : fold[t] \in Enqueued(n, q)
    <2> HIDE DEF fold, f
    <2> QED
      BY <1>1, <1>2, <1>7, FoldWithin
  <1>9. DOMAIN new \in SUBSET (1..Len(new))
    BY <1>1
  <1> HIDE DEF fold
  <1> QED
    BY <1>6, <1>8, <1>9

\* An unfinished row reaches every trade whose trigger ran.
LEMMA NewTradesEnqueued ==
    ASSUME NEW n \in Nat, facts \in Seq(FactRow), NEW q \in Seq(Invalidation(n)),
           NEW vs \in Seq(VerdictRow), NEW ts \in Seq(TradeRow), Len(ts) <= n,
           NEW new \in Seq(1..Len(ts))
    PROVE  /\ TradesEnqueued(q, vs, ts, new) \in Enqueued(n, q)
           /\ \A k \in 1..Len(new) : Reached(TradesEnqueued(q, vs, ts, new), ts, new[k])
  <1> DEFINE f == [p \in Enqueued(n, q) \X (1..Len(ts)) |-> EnqueueTrade(p[1], vs, ts, p[2])]
             Is(it) == it = [t \in SUBSET DOMAIN new |->
                               IF t = {} THEN q
                               ELSE EnqueueTrade(it[t \ {Max(t)}], vs, ts, new[Max(t)])]
             fold == CHOOSE it : Is(it)
  <1>1. new \in Seq(1..Len(ts)) /\ q \in Enqueued(n, q)
    BY EnqueuedItself
  <1>2. ASSUME NEW acc \in Enqueued(n, q), NEW i \in 1..Len(ts)
        PROVE  /\ EnqueueTrade(acc, vs, ts, i) \in Enqueued(n, acc)
               /\ EnqueueTrade(acc, vs, ts, i) \in Enqueued(n, q)
               /\ Reached(EnqueueTrade(acc, vs, ts, i), ts, i)
    <2>1. acc \in Seq(Invalidation(n))
      BY DEF Enqueued
    <2>2. i <= n
      <3>1. Len(ts) \in Nat
        OBVIOUS
      <3> QED
        BY <3>1
    <2>3. /\ EnqueueTrade(acc, vs, ts, i) \in Enqueued(n, acc)
          /\ Reached(EnqueueTrade(acc, vs, ts, i), ts, i)
      BY <2>1, <2>2, TradeEnqueued
    <2>4. PICK r : r = EnqueueTrade(acc, vs, ts, i)
      OBVIOUS
    <2>5. r \in Enqueued(n, q)
      BY <2>3, <2>4, EnqueuedOn
    <2> QED
      BY <2>3, <2>4, <2>5
  <1>3. f \in [Enqueued(n, q) \X (1..Len(ts)) -> Enqueued(n, q)]
    BY <1>2
  <1>4. PICK it : IsFold(it, f, q, new, Enqueued(n, q), (1..Len(ts)))
    <2> HIDE DEF f
    <2> QED
      BY <1>1, <1>3, FoldExists
  <1>5. Is(it)
    BY <1>4 DEF IsFold, FoldsTo
  <1>6. Is(fold)
    BY <1>5
  <1>7. TradesEnqueued(q, vs, ts, new) = fold[DOMAIN new]
    BY DEF TradesEnqueued, FoldLeft, MapThenFoldSet
  <1>8. StepsTo(fold, f, q, new, Enqueued(n, q))
    <2>1. ASSUME NEW t \in SUBSET DOMAIN new, t # {}, fold[t \ {Max(t)}] \in Enqueued(n, q)
          PROVE  fold[t] = f[<<fold[t \ {Max(t)}], new[Max(t)]>>]
      <3>1. new[Max(t)] \in (1..Len(ts))
        BY <1>4, <2>1 DEF IsFold
      <3>2. fold[t] = EnqueueTrade(fold[t \ {Max(t)}], vs, ts, new[Max(t)])
        BY <1>6, <2>1
      <3> HIDE DEF fold
      <3> QED
        BY <2>1, <3>1, <3>2
    <2>2. fold[{}] = q
      BY <1>6
    <2>3. DOMAIN new = 1..Len(new)
      BY <1>1
    <2> HIDE DEF fold, f
    <2> QED
      BY <2>1, <2>2, <2>3 DEF StepsTo
  <1>9. \A t \in SUBSET (1..Len(new)) : fold[t] \in Enqueued(n, q)
    <2> HIDE DEF fold, f
    <2> QED
      BY <1>1, <1>3, <1>8, FoldWithin
  <1>10. DOMAIN new \in SUBSET (1..Len(new))
    BY <1>1
  <1>11. \A t \in SUBSET (1..Len(new)) : \A k \in t : Reached(fold[t], ts, new[k])
    <2> DEFINE P == {t \in SUBSET (1..Len(new)) : \A k \in t : Reached(fold[t], ts, new[k])}
    <2>1. {} \in P
      OBVIOUS
    <2>2. ASSUME NEW t \in SUBSET (1..Len(new)), t # {}, t \ {Max(t)} \in P PROVE t \in P
      <3>1. Len(new) \in Nat /\ DOMAIN new = 1..Len(new) /\ \A k \in 1..Len(new) : new[k] \in 1..Len(ts)
        BY <1>1
      <3>2. Max(t) \in t /\ Max(t) \in 1..Len(new) /\ t \ {Max(t)} \in SUBSET (1..Len(new))
        BY <2>2, <3>1, IndexSets
      <3>3. fold[t] = EnqueueTrade(fold[t \ {Max(t)}], vs, ts, new[Max(t)])
        BY <1>6, <2>2, <3>1
      <3>4. PICK last, acc, r : last = Max(t) /\ acc = fold[t \ {Max(t)}] /\ r = fold[t]
        OBVIOUS
      <3>5. \A k \in t \ {last} : Reached(acc, ts, new[k])
        BY <2>2, <3>4
      <3> HIDE DEF fold, f, P
      <3>6. acc \in Enqueued(n, q) /\ new[last] \in 1..Len(ts)
        BY <1>9, <3>1, <3>2, <3>4
      <3>7. r \in Enqueued(n, acc) /\ Reached(r, ts, new[last])
        BY <1>2, <3>3, <3>4, <3>6
      <3>8. acc \in Seq(Invalidation(n))
        BY <3>6 DEF Enqueued
      <3>9. ASSUME NEW k \in t PROVE Reached(r, ts, new[k])
        <4>1. PICK i : i = new[k]
          OBVIOUS
        <4>2. i \in 1..Len(ts)
          BY <3>1, <4>1
        <4>3. CASE k = last
          BY <3>7, <4>3
        <4>4. CASE k # last
          <5>1. Reached(acc, ts, i)
            BY <3>5, <4>1, <4>4
          <5>2. Reached(r, ts, i)
            BY <3>7, <3>8, <4>2, <5>1, StillReached
          <5> QED
            BY <4>1, <5>2
        <4> QED
          BY <4>3, <4>4
      <3>10. \A k \in t : Reached(fold[t], ts, new[k])
        BY <3>4, <3>9
      <3> QED
        BY <3>10 DEF P
    <2>3. \A t \in SUBSET (1..Len(new)) : t \in P
      <3>1. Len(new) \in Nat
        BY <1>1
      <3> HIDE DEF P
      <3> QED
        BY <2>1, <2>2, <3>1, IndexInduction
    <2> HIDE DEF fold, f
    <2> QED
      BY <2>3
  <1>12. DOMAIN new = 1..Len(new)
    BY <1>1
  <1> HIDE DEF fold
  <1> QED
    BY <1>7, <1>9, <1>10, <1>11, <1>12

-----------------------------------------------------------------------------
(* The inductive invariant of the queue.                                   *)

\* The fields of a worker's place in run_next_microstructure_invalidation.
Job(x) == x = [pc |-> x.pc, id |-> x.id, gen |-> x.gen, previous |-> x.previous, point |-> x.point]

\* A worker inside the fence holds a running row, and the point it computed has
\* every trade the row reaches.
Computed(x, q, ts) ==
    /\ q[x.id].status = "running"
    /\ \E p : /\ x.point = {p} /\ p.market = q[x.id].market
              /\ \A i \in DOMAIN ts :
                     /\ ts[i].market = q[x.id].market /\ ts[i].bucket = q[x.id].bucket
                     /\ i <= q[x.id].through /\ ts[i].at <= q[x.id].at
                     => i \in p.trades

QueueTables ==
    /\ facts \in Seq(FactRow)
    /\ queue \in Seq(Invalidation(Len(trades)))
Jobs ==
    /\ mw = [v \in Workers |-> mw[v]]
    /\ \A v \in Workers : Job(mw[v]) /\ (mw[v].pc # "idle" => mw[v].id \in 1..Len(queue))
Fences ==
    \A v \in Workers :
        mw[v].pc = "fence" =>
            /\ Computed(mw[v], queue, trades)
            /\ \A u \in Workers : u # v /\ mw[u].pc = "fence" => mw[u].id # mw[v].id

QueueInv == QueueTables /\ Jobs /\ Fences /\ NoTradeForgotten

LEMMA Forgotten ==
    NoTradeForgotten <=>
        \A i \in DOMAIN trades : \/ \E p \in points : p.market = trades[i].market /\ i \in p.trades
                                 \/ Reached(queue, trades, i)
  BY DEF NoTradeForgotten, Reached

\* Rows of n trades are rows of more trades.
LEMMA MoreTrades ==
    ASSUME NEW n \in Nat, NEW k \in Nat, n <= k, NEW q \in Seq(Invalidation(n))
    PROVE  q \in Seq(Invalidation(k))
  <1>1. PICK B : B = BOOLEAN
    OBVIOUS
  <1>2. 0..n \subseteq 0..k
    OBVIOUS
  <1>3. PICK a, b : a = 0..n /\ b = 0..k
    OBVIOUS
  <1>4. Invalidation(n) \subseteq Invalidation(k)
    BY <1>1, <1>2, <1>3 DEF Invalidation
  <1> QED
    BY <1>4, SeqMono

\* A fence is left alone by what is enqueued meanwhile.
LEMMA FenceHolds ==
    ASSUME NEW ts \in Seq(TradeRow), NEW us \in Grown(ts), NEW q \in Seq(Invalidation(Len(ts))),
           NEW r \in Enqueued(Len(us), q), NEW x, x.id \in 1..Len(q), Computed(x, q, ts)
    PROVE  Computed(x, r, us)
  <1>1. us \in Seq(TradeRow) /\ Len(ts) <= Len(us) /\ \A i \in 1..Len(ts) : us[i] = ts[i]
    BY DEF Grown
  <1>2. Len(ts) \in Nat /\ Len(us) \in Nat /\ DOMAIN ts = 1..Len(ts) /\ DOMAIN us = 1..Len(us)
    BY <1>1
  <1>3. PICK row : row = q[x.id]
    OBVIOUS
  <1>4. row \in Invalidation(Len(ts)) /\ row.status = "running"
    BY <1>3 DEF Computed
  <1>5. r[x.id] = row
    <2>1. Carries(q[x.id], r[x.id])
      BY DEF Enqueued
    <2> QED
      BY <1>3, <1>4, <2>1 DEF Carries
  <1>6. row.through \in 0..Len(ts)
    BY <1>2, <1>4, RowFields
  <1>7. PICK p : /\ x.point = {p} /\ p.market = row.market
                 /\ \A i \in DOMAIN ts : ts[i].market = row.market /\ ts[i].bucket = row.bucket
                                         /\ i <= row.through /\ ts[i].at <= row.at => i \in p.trades
    BY <1>3 DEF Computed
  <1>8. ASSUME NEW i \in DOMAIN us, us[i].market = row.market, us[i].bucket = row.bucket,
               i <= row.through, us[i].at <= row.at
        PROVE  i \in p.trades
    <2>1. i \in 1..Len(ts)
      BY <1>2, <1>6, <1>8
    <2>2. us[i] = ts[i] /\ i \in DOMAIN ts
      BY <1>1, <1>2, <2>1
    <2> QED
      BY <1>7, <1>8, <2>2
  <1>9. \A i \in DOMAIN us : us[i].market = row.market /\ us[i].bucket = row.bucket
                             /\ i <= row.through /\ us[i].at <= row.at => i \in p.trades
    BY <1>8
  <1> QED
    BY <1>4, <1>5, <1>7, <1>9 DEF Computed

\* Rows are added, and every new trade is reached.
LEMMA QueueGrows ==
    ASSUME QueueInv, trades \in Seq(TradeRow), trades' \in Grown(trades), facts' \in Seq(FactRow),
           queue' \in Enqueued(Len(trades'), queue), UNCHANGED <<points, mw>>,
           \A i \in 1..Len(trades') : i > Len(trades) => Reached(queue, trades, i)'
    PROVE  QueueInv'
  <1>1. PICK us, r : us = trades' /\ r = queue'
    OBVIOUS
  <1>2. us \in Grown(trades) /\ r \in Enqueued(Len(us), queue)
    BY <1>1
  <1>3. us \in Seq(TradeRow) /\ Len(trades) <= Len(us) /\ \A i \in 1..Len(trades) : us[i] = trades[i]
    BY <1>2 DEF Grown
  <1>4. Len(trades) \in Nat /\ Len(us) \in Nat /\ DOMAIN trades = 1..Len(trades) /\ DOMAIN us = 1..Len(us)
    BY <1>3
  <1>5. queue \in Seq(Invalidation(Len(trades)))
    BY DEF QueueInv, QueueTables
  <1>6. queue \in Seq(Invalidation(Len(us)))
    BY <1>3, <1>4, <1>5, MoreTrades
  <1>7. r \in Seq(Invalidation(Len(us))) /\ Len(queue) <= Len(r)
    BY <1>2 DEF Enqueued
  <1>8. QueueTables'
    BY <1>1, <1>7 DEF QueueTables
  <1>9. Jobs'
    <2>1. Len(queue) \in Nat /\ Len(r) \in Nat
      BY <1>6, <1>7
    <2>2. mw' = mw
      OBVIOUS
    <2>3. \A v \in Workers : mw[v].pc # "idle" => mw[v].id \in 1..Len(r)
      BY <1>7, <2>1 DEF QueueInv, Jobs
    <2> QED
      BY <1>1, <2>2, <2>3 DEF QueueInv, Jobs
  <1>10. Fences'
    <2>1. \A v \in Workers : mw[v].pc = "fence" => Computed(mw[v], r, us)
      <3>1. ASSUME NEW v \in Workers, mw[v].pc = "fence" PROVE Computed(mw[v], r, us)
        <4>1. PICK x : x = mw[v]
          OBVIOUS
        <4>2. x.id \in 1..Len(queue) /\ Computed(x, queue, trades)
          BY <3>1, <4>1 DEF QueueInv, Jobs, Fences
        <4>3. Computed(x, r, us)
          BY <1>2, <1>5, <4>2, FenceHolds
        <4> QED
          BY <4>1, <4>3
      <3> QED
        BY <3>1
    <2> QED
      BY <1>1, <2>1 DEF QueueInv, Fences
  <1>11. NoTradeForgotten'
    <2>1. ASSUME NEW i \in DOMAIN us
          PROVE  \/ \E p \in points : p.market = us[i].market /\ i \in p.trades
                 \/ Reached(r, us, i)
      <3>1. CASE i > Len(trades)
        BY <1>1, <1>4, <3>1
      <3>2. CASE i <= Len(trades)
        <4>1. i \in DOMAIN trades /\ us[i] = trades[i]
          BY <1>3, <1>4, <3>2
        <4>2. CASE \E p \in points : p.market = trades[i].market /\ i \in p.trades
          BY <4>1, <4>2
        <4>3. CASE Reached(queue, trades, i)
          <5>1. Reached(queue, us, i)
            BY <4>1, <4>3 DEF Reached
          <5>2. i \in 1..Len(us)
            BY <1>4
          <5>3. Reached(r, us, i)
            BY <1>2, <1>3, <1>4, <1>6, <5>1, <5>2, StillReached
          <5> QED
            BY <5>3
        <4> QED
          BY <4>1, <4>2, <4>3, Forgotten DEF QueueInv
      <3> QED
        BY <1>4, <3>1, <3>2
    <2> QED
      BY <1>1, <2>1 DEF NoTradeForgotten, Reached
  <1> QED
    BY <1>8, <1>9, <1>10, <1>11 DEF QueueInv

LEMMA VerdictsAreRows ==
    ASSUME StreamInv
    PROVE  verdicts \in Seq(VerdictRow)
  <1>1. verdicts \in Seq(Fine(now, received, receipts))
    BY DEF StreamInv, Tables
  <1>2. Fine(now, received, receipts) \subseteq VerdictRow
    BY DEF Fine
  <1> QED
    BY <1>1, <1>2, SeqMono

\* The numbers that follow a up to b.
LEMMA Following ==
    ASSUME NEW a \in Nat, NEW b \in Nat
    PROVE  /\ [k \in 1..(b - a) |-> a + k] \in Seq(1..b)
           /\ a <= b => Len([k \in 1..(b - a) |-> a + k]) = b - a
  <1>1. CASE a <= b
    <2>1. PICK n : n = b - a
      OBVIOUS
    <2>2. n \in Nat /\ b = a + n
      BY <1>1, <2>1
    <2>3. PICK s : s = [k \in 1..n |-> a + k]
      OBVIOUS
    <2>4. s \in Seq(1..b) /\ Len(s) = n
      BY <2>2, <2>3
    <2> QED
      BY <2>1, <2>3, <2>4
  <1>2. CASE a > b
    <2>1. 1..(b - a) = {}
      BY <1>2
    <2>2. [k \in 1..(b - a) |-> a + k] = <<>>
      BY <2>1
    <2> QED
      BY <1>2, <2>2
  <1> QED
    BY <1>1, <1>2

LEMMA OnStreamStep ==
    ASSUME StreamInv, QueueInv, StreamStep
    PROVE  QueueInv'
  <1>1. StreamNext /\ queue' = Triggered /\ UNCHANGED <<facts, points, mw>>
    BY DEF StreamStep
  <1>2. StreamInv' /\ trades' \in Grown(trades)
    BY <1>1, StreamSteps
  <1>3. trades \in Seq(TradeRow) /\ verdicts \in Seq(VerdictRow) /\ verdicts' \in Seq(VerdictRow)
    <2>1. PICK n, rcv, rec : n = now' /\ rcv = received' /\ rec = receipts'
      OBVIOUS
    <2>2. verdicts' \in Seq(Fine(n, rcv, rec))
      BY <1>2, <2>1 DEF StreamInv, Tables
    <2>3. Fine(n, rcv, rec) \subseteq VerdictRow
      BY DEF Fine
    <2>4. verdicts' \in Seq(VerdictRow)
      BY <2>2, <2>3, SeqMono
    <2> QED
      BY <2>4, VerdictsAreRows DEF StreamInv, Tables
  <1>4. facts \in Seq(FactRow) /\ queue \in Seq(Invalidation(Len(trades)))
    BY DEF QueueInv, QueueTables
  <1> DEFINE newVerdicts == [k \in 1..(Len(verdicts') - Len(verdicts)) |-> Len(verdicts) + k]
             newTrades == [k \in 1..(Len(trades') - Len(trades)) |-> Len(trades) + k]
  <1>5. Triggered = TradesEnqueued(VerdictsEnqueued(queue, sessions', verdicts', trades, newVerdicts),
                                   verdicts', trades', newTrades)
    BY Zenon DEF Triggered, TradesEnqueued, VerdictsEnqueued
  <1>6. PICK us, vs, ss, nv, nt : us = trades' /\ vs = verdicts' /\ ss = sessions'
                                  /\ nv = newVerdicts /\ nt = newTrades
    OBVIOUS
  <1>7. us \in Seq(TradeRow) /\ Len(trades) <= Len(us)
    BY <1>2, <1>6 DEF Grown
  <1>8. Len(us) \in Nat /\ Len(trades) \in Nat /\ Len(vs) \in Nat /\ Len(verdicts) \in Nat
    BY <1>3, <1>6, <1>7
  <1>9. nv \in Seq(1..Len(vs))
    <2>1. PICK a, b : a = Len(verdicts) /\ b = Len(vs)
      OBVIOUS
    <2>2. [k \in 1..(b - a) |-> a + k] \in Seq(1..b)
      BY <1>8, <2>1, Following
    <2> QED
      BY <1>6, <2>1, <2>2
  <1>10. nt \in Seq(1..Len(us)) /\ Len(nt) = Len(us) - Len(trades)
         /\ \A k \in 1..(Len(us) - Len(trades)) : nt[k] = Len(trades) + k
    <2>1. PICK a, b : a = Len(trades) /\ b = Len(us)
      OBVIOUS
    <2>2. [k \in 1..(b - a) |-> a + k] \in Seq(1..b) /\ Len([k \in 1..(b - a) |-> a + k]) = b - a
      BY <1>7, <1>8, <2>1, Following
    <2> QED
      BY <1>6, <2>1, <2>2
  <1> HIDE DEF newVerdicts, newTrades
  <1>11. PICK q1, q2 : q1 = VerdictsEnqueued(queue, ss, vs, trades, nv) /\ q2 = TradesEnqueued(q1, vs, us, nt)
    OBVIOUS
  <1>12. queue' = q2
    BY <1>1, <1>5, <1>6, <1>11
  <1>13. queue \in Seq(Invalidation(Len(us)))
    BY <1>4, <1>7, <1>8, MoreTrades
  <1>14. vs \in Seq(VerdictRow)
    BY <1>3, <1>6
  <1>15. q1 \in Enqueued(Len(us), queue)
    BY <1>3, <1>4, <1>7, <1>8, <1>9, <1>11, <1>13, <1>14, NewVerdictsEnqueued
  <1>16. q1 \in Seq(Invalidation(Len(us)))
    BY <1>15 DEF Enqueued
  <1>17. q2 \in Enqueued(Len(us), q1) /\ \A k \in 1..Len(nt) : Reached(q2, us, nt[k])
    <2>1. PICK n : n = Len(us)
      OBVIOUS
    <2>2. n \in Nat /\ Len(us) <= n /\ q1 \in Seq(Invalidation(n))
      BY <1>8, <1>16, <2>1
    <2>3. /\ TradesEnqueued(q1, vs, us, nt) \in Enqueued(n, q1)
          /\ \A k \in 1..Len(nt) : Reached(TradesEnqueued(q1, vs, us, nt), us, nt[k])
      BY <1>4, <1>7, <1>10, <1>14, <2>2, NewTradesEnqueued
    <2> QED
      BY <1>11, <2>1, <2>3
  <1>18. q2 \in Enqueued(Len(us), queue)
    BY <1>8, <1>13, <1>15, <1>17, EnqueuedOn
  <1>19. ASSUME NEW i \in 1..Len(us), i > Len(trades) PROVE Reached(q2, us, i)
    <2>1. PICK k : k = i - Len(trades)
      OBVIOUS
    <2>2. k \in 1..Len(nt) /\ k \in 1..(Len(us) - Len(trades)) /\ i = Len(trades) + k
      BY <1>8, <1>10, <1>19, <2>1
    <2>3. nt[k] = i
      BY <1>10, <2>2
    <2> QED
      BY <1>17, <2>2, <2>3
  <1>20. queue' \in Enqueued(Len(trades'), queue)
    BY <1>6, <1>12, <1>18
  <1>21. \A i \in 1..Len(trades') : i > Len(trades) => Reached(queue, trades, i)'
    BY <1>6, <1>12, <1>19 DEF Reached
  <1>22. facts' \in Seq(FactRow)
    BY <1>1, <1>4
  <1> QED
    BY <1>1, <1>2, <1>3, <1>20, <1>21, <1>22, QueueGrows

LEMMA OnWriteFact ==
    ASSUME StreamInv, QueueInv, NEW m \in Markets, NEW b \in 0..(Floor(bound.tick) - 1),
           NEW kind \in {"revision", "no_trade"}, WriteFact(m, b, kind)
    PROVE  QueueInv'
  <1>1. facts \in Seq(FactRow) /\ queue \in Seq(Invalidation(Len(trades)))
    BY DEF QueueInv, QueueTables
  <1>2. now \in Nat /\ trades \in Seq(TradeRow) /\ verdicts \in Seq(VerdictRow)
        /\ tape \in [Markets -> Seq(Nat)]
    BY VerdictsAreRows DEF StreamInv, Tables
  <1>3. PICK n : n = Len(trades)
    OBVIOUS
  <1>4. n \in Nat /\ Len(facts) \in Nat
    BY <1>1, <1>2, <1>3
  <1>5. b \in Int
    <2>1. bound.tick \in Nat
      BY StreamAssumption DEF StreamInv, Tables
    <2>2. Floor(bound.tick) \in Int
      BY <2>1, Halves
    <2> QED
      BY <2>2
  <1> DEFINE i == Len(facts) + 1
             candle == IF kind = "revision" THEN i ELSE LatestCandle(m, b, now)
             quality == IF kind = "revision" THEN 0 ELSE i
             volume == IF kind = "revision"
                       THEN Cardinality({t \in DOMAIN tape[m] : Floor(tape[m][t]) = b}) ELSE 0
             through == TradeCeiling(trades, m)
             connection == ConnectionCeiling(verdicts, now)
             row == [Row(m, b, through, candle, quality, connection, now) EXCEPT !.visible = FALSE]
             fact == [kind |-> kind, market |-> m, bucket |-> b, at |-> now,
                      volume |-> volume, visible |-> FALSE]
  <1>6. /\ facts' = Append(facts, fact) /\ queue' = InsertOrSkip(queue, row)
        /\ UNCHANGED <<streamVars, extras, points, mw>>
    BY DEF WriteFact
  <1>7. candle \in Nat /\ quality \in Nat
    BY <1>1, <1>4, LatestFact
  <1>8. through \in 0..n /\ connection \in Nat
    BY <1>2, <1>3, Ceilings
  <1>9. volume \in Nat
    <2>1. tape[m] \in Seq(Nat)
      BY <1>2
    <2>2. Len(tape[m]) \in Nat /\ DOMAIN tape[m] = 1..Len(tape[m])
      BY <2>1
    <2>3. PICK d : d = {t \in DOMAIN tape[m] : Floor(tape[m][t]) = b}
      OBVIOUS
    <2>4. d \in SUBSET (1..Len(tape[m]))
      BY <2>2, <2>3
    <2>5. Cardinality(d) \in Nat
      BY <2>2, <2>4, IndexSets
    <2> QED
      BY <2>3, <2>5
  <1> HIDE DEF candle, quality, volume, through, connection
  <1>10. row \in Invalidation(n)
    <2>1. PICK r : r = Row(m, b, through, candle, quality, connection, now)
      OBVIOUS
    <2>2. r \in Invalidation(n)
      BY <1>2, <1>5, <1>7, <1>8, <2>1 DEF Row, Invalidation
    <2>3. PICK B : B = BOOLEAN /\ FALSE \in B
      OBVIOUS
    <2>4. [r EXCEPT !.visible = FALSE] \in Invalidation(n)
      BY <2>2, <2>3 DEF Invalidation
    <2> QED
      BY <2>1, <2>4
  <1>11. fact \in FactRow
    BY <1>2, <1>5, <1>9 DEF FactRow
  <1> HIDE DEF row, fact
  <1>12. facts' \in Seq(FactRow)
    BY <1>1, <1>6, <1>11
  <1>13. InsertOrSkip(queue, row) \in Enqueued(n, queue)
    BY <1>1, <1>3, <1>4, <1>10, InsertedOrSkipped
  <1>14. trades' = trades /\ mw' = mw /\ points' = points
    BY <1>6 DEF streamVars
  <1>15. trades' \in Grown(trades)
    <2>1. trades \in Grown(trades)
      BY <1>2 DEF Grown
    <2> QED
      BY <1>14, <2>1
  <1>16. queue' \in Enqueued(Len(trades'), queue)
    BY <1>3, <1>6, <1>13, <1>14
  <1>17. \A k \in 1..Len(trades') : ~(k > Len(trades))
    BY <1>3, <1>4, <1>14
  <1> QED
    BY <1>2, <1>12, <1>14, <1>15, <1>16, <1>17, QueueGrows

\* A row that reaches the same trades.
SameReach(a, b) ==
    b.market = a.market /\ b.bucket = a.bucket /\ b.through = a.through /\ b.at = a.at

\* Rows change their status and lease, not what they reach.
Worked(q, r, n) ==
    /\ r \in Seq(Invalidation(n)) /\ Len(r) = Len(q)
    /\ \A j \in 1..Len(q) : SameReach(q[j], r[j])

LEMMA FenceSame ==
    ASSUME NEW q, NEW r, NEW x, NEW ts, Computed(x, q, ts), SameReach(q[x.id], r[x.id]),
           r[x.id].status = "running"
    PROVE  Computed(x, r, ts)
  BY DEF Computed, SameReach

\* Nobody enters a fence; the workers inside one still hold their row.
LEMMA QueueWorked ==
    ASSUME QueueInv, UNCHANGED trades, facts' \in Seq(FactRow), Worked(queue, queue', Len(trades)),
           mw' = [v \in Workers |-> mw'[v]],
           \A v \in Workers : Job(mw'[v]) /\ (mw'[v].pc # "idle" => mw'[v].id \in 1..Len(queue)),
           \A v \in Workers : mw'[v].pc = "fence" =>
               mw'[v] = mw[v] /\ queue'[mw[v].id].status = "running",
           NoTradeForgotten'
    PROVE  QueueInv'
  <1>1. PICK r, us, ws : r = queue' /\ us = trades' /\ ws = mw'
    OBVIOUS
  <1>2. r \in Seq(Invalidation(Len(us))) /\ Len(r) = Len(queue)
        /\ \A j \in 1..Len(queue) : SameReach(queue[j], r[j])
    BY <1>1 DEF Worked
  <1>3. QueueTables'
    BY <1>1, <1>2 DEF QueueTables
  <1>4. Jobs'
    <2>1. ws = [v \in Workers |-> ws[v]]
      BY <1>1
    <2>2. \A v \in Workers : Job(ws[v]) /\ (ws[v].pc # "idle" => ws[v].id \in 1..Len(r))
      BY <1>1, <1>2
    <2> QED
      BY <1>1, <2>1, <2>2 DEF Jobs, Job
  <1>5. Fences'
    <2>1. ASSUME NEW v \in Workers, ws[v].pc = "fence"
          PROVE  /\ Computed(ws[v], r, us)
                 /\ \A u \in Workers : u # v /\ ws[u].pc = "fence" => ws[u].id # ws[v].id
      <3>1. ws[v] = mw[v] /\ r[mw[v].id].status = "running"
        BY <1>1, <2>1
      <3>2. mw[v].id \in 1..Len(queue) /\ Computed(mw[v], queue, trades)
        BY <2>1, <3>1 DEF QueueInv, Jobs, Fences
      <3>3. PICK x : x = mw[v]
        OBVIOUS
      <3>4. Computed(x, r, trades)
        BY <1>2, <3>1, <3>2, <3>3, FenceSame
      <3>5. ASSUME NEW u \in Workers, u # v, ws[u].pc = "fence" PROVE ws[u].id # ws[v].id
        <4>1. ws[u] = mw[u]
          BY <1>1, <3>5
        <4> QED
          BY <2>1, <3>1, <3>5, <4>1 DEF QueueInv, Fences
      <3> QED
        BY <1>1, <3>1, <3>3, <3>4, <3>5
    <2> QED
      BY <1>1, <2>1 DEF Fences, Computed
  <1> QED
    BY <1>3, <1>4, <1>5 DEF QueueInv

\* As long as no row ends, no trade is forgotten.
LEMMA NothingEnds ==
    ASSUME QueueInv, UNCHANGED trades, points \subseteq points', Worked(queue, queue', Len(trades)),
           \A j \in 1..Len(queue) : queue[j].status # "succeeded" => queue'[j].status # "succeeded"
    PROVE  NoTradeForgotten'
  <1>1. PICK r, us, ps : r = queue' /\ us = trades' /\ ps = points'
    OBVIOUS
  <1>2. us = trades /\ points \subseteq ps /\ Len(r) = Len(queue)
        /\ \A j \in 1..Len(queue) : SameReach(queue[j], r[j])
    BY <1>1 DEF Worked
  <1>3. DOMAIN queue = 1..Len(queue) /\ DOMAIN r = 1..Len(queue)
    <2>1. queue \in Seq(Invalidation(Len(trades))) /\ r \in Seq(Invalidation(Len(trades)))
      BY <1>1 DEF Worked, QueueInv, QueueTables
    <2> QED
      BY <1>2, <2>1
  <1>4. ASSUME NEW i \in DOMAIN trades, Reached(queue, trades, i) PROVE Reached(r, us, i)
    <2>1. PICK j \in DOMAIN queue :
              /\ queue[j].market = trades[i].market /\ queue[j].bucket = trades[i].bucket
              /\ i <= queue[j].through /\ trades[i].at <= queue[j].at
              /\ queue[j].status # "succeeded"
      BY <1>4 DEF Reached
    <2>2. SameReach(queue[j], r[j]) /\ r[j].status # "succeeded"
      BY <1>1, <1>2, <1>3, <2>1
    <2> QED
      BY <1>2, <1>3, <2>1, <2>2 DEF Reached, SameReach
  <1>5. \A i \in DOMAIN us : \/ \E p \in ps : p.market = us[i].market /\ i \in p.trades
                             \/ Reached(r, us, i)
    BY <1>2, <1>4, Forgotten DEF QueueInv
  <1> QED
    BY <1>1, <1>5 DEF NoTradeForgotten, Reached

\* A row without its lease, or seen, reaches what it reached.
LEMMA RowTouched ==
    ASSUME NEW n \in Nat, NEW r, r \in Invalidation(n), NEW s, NEW b \in BOOLEAN,
           s = [r EXCEPT !.live = b] \/ s = [r EXCEPT !.visible = b]
    PROVE  s \in Invalidation(n) /\ SameReach(r, s) /\ s.status = r.status
  <1>1. PICK B : B = BOOLEAN
    OBVIOUS
  <1>2. b \in B
    BY <1>1
  <1>3. s \in Invalidation(n)
    BY <1>1, <1>2 DEF Invalidation
  <1> QED
    BY <1>3 DEF SameReach, Invalidation

\* Rows lose their lease or are seen.
LEMMA QueueTouched ==
    ASSUME QueueInv, trades \in Seq(TradeRow), UNCHANGED <<trades, points, mw>>, facts' \in Seq(FactRow),
           Worked(queue, queue', Len(trades)),
           \A j \in 1..Len(queue) : queue'[j].status = queue[j].status
    PROVE  QueueInv'
  <1>1. NoTradeForgotten'
    BY NothingEnds
  <1>2. mw' = mw
    OBVIOUS
  <1>3. \A v \in Workers : mw[v].pc = "fence" => queue'[mw[v].id].status = "running"
    BY DEF QueueInv, Jobs, Fences, Computed
  <1>4. mw' = [v \in Workers |-> mw'[v]]
    BY <1>2 DEF QueueInv, Jobs
  <1>5. \A v \in Workers : Job(mw'[v]) /\ (mw'[v].pc # "idle" => mw'[v].id \in 1..Len(queue))
    BY <1>2 DEF QueueInv, Jobs
  <1>6. \A v \in Workers : mw'[v].pc = "fence" => mw'[v] = mw[v] /\ queue'[mw[v].id].status = "running"
    BY <1>2, <1>3
  <1> QED
    BY <1>1, <1>4, <1>5, <1>6, QueueWorked

LEMMA OnCommitFact ==
    ASSUME StreamInv, QueueInv, CommitFact
    PROVE  QueueInv'
  <1>1. facts \in Seq(FactRow) /\ queue \in Seq(Invalidation(Len(trades)))
    BY DEF QueueInv, QueueTables
  <1>2. trades \in Seq(TradeRow)
    BY DEF StreamInv, Tables
  <1>3. UNCHANGED <<trades, points, mw>>
    BY DEF CommitFact, streamVars
  <1>4. PICK B : B = BOOLEAN
    OBVIOUS
  <1>5. facts' \in Seq(FactRow)
    <2>1. facts' = [i \in DOMAIN facts |-> [facts[i] EXCEPT !.visible = TRUE]]
      BY DEF CommitFact
    <2>2. \A i \in DOMAIN facts : facts[i] \in FactRow
      BY <1>1
    <2>3. \A i \in DOMAIN facts : [facts[i] EXCEPT !.visible = TRUE] \in FactRow
      <3>1. ASSUME NEW x \in FactRow PROVE [x EXCEPT !.visible = TRUE] \in FactRow
        <4>1. TRUE \in B
          BY <1>4
        <4> QED
          BY <1>4, <4>1 DEF FactRow
      <3> QED
        BY <2>2, <3>1
    <2>4. DOMAIN facts = 1..Len(facts) /\ Len(facts) \in Nat
      BY <1>1
    <2>5. PICK fs : fs = facts'
      OBVIOUS
    <2>6. DOMAIN fs = 1..Len(facts) /\ fs = [i \in 1..Len(facts) |-> fs[i]]
          /\ \A i \in 1..Len(facts) : fs[i] \in FactRow
      BY <2>1, <2>3, <2>4, <2>5
    <2> QED
      BY <2>4, <2>5, <2>6
  <1>6. PICK n, r : n = Len(trades) /\ r = queue'
    OBVIOUS
  <1>7. n \in Nat
    BY <1>2, <1>6
  <1>8. r = [i \in DOMAIN queue |-> [queue[i] EXCEPT !.visible = TRUE]]
    BY <1>6 DEF CommitFact
  <1>9. DOMAIN queue = 1..Len(queue) /\ Len(queue) \in Nat
    BY <1>1
  <1>10. \A j \in 1..Len(queue) :
            r[j] \in Invalidation(n) /\ SameReach(queue[j], r[j]) /\ r[j].status = queue[j].status
    <2>1. ASSUME NEW j \in 1..Len(queue)
          PROVE  r[j] \in Invalidation(n) /\ SameReach(queue[j], r[j]) /\ r[j].status = queue[j].status
      <3>1. PICK x, s : x = queue[j] /\ s = r[j]
        OBVIOUS
      <3>2. x \in Invalidation(n)
        BY <1>1, <1>6, <3>1
      <3>3. s = [x EXCEPT !.visible = TRUE]
        BY <1>8, <1>9, <3>1
      <3>4. s \in Invalidation(n) /\ SameReach(x, s) /\ s.status = x.status
        BY <1>7, <3>2, <3>3, RowTouched
      <3> QED
        BY <3>1, <3>4
    <2> QED
      BY <2>1
  <1>11. r \in Seq(Invalidation(n)) /\ Len(r) = Len(queue)
    <2>1. r = [i \in 1..Len(queue) |-> r[i]]
      BY <1>8, <1>9
    <2>2. \A j \in 1..Len(queue) : r[j] \in Invalidation(n)
      BY <1>10
    <2> QED
      BY <1>9, <2>1, <2>2
  <1>12. Worked(queue, queue', Len(trades))
    BY <1>6, <1>10, <1>11 DEF Worked
  <1> QED
    BY <1>2, <1>3, <1>5, <1>6, <1>10, <1>12, QueueTouched

\* One row is replaced.
Put(q, i, s) == [q EXCEPT ![i] = s]

LEMMA OneRow ==
    ASSUME NEW n \in Nat, NEW q, q \in Seq(Invalidation(n)), NEW i, i \in 1..Len(q),
           NEW s, s \in Invalidation(n), SameReach(q[i], s), NEW r, r = Put(q, i, s)
    PROVE  Worked(q, r, n) /\ \A j \in 1..Len(q) : r[j] = IF j = i THEN s ELSE q[j]
  <1>1. r \in Seq(Invalidation(n)) /\ Len(r) = Len(q)
    BY DEF Put
  <1>2. \A j \in 1..Len(q) : r[j] = IF j = i THEN s ELSE q[j]
    BY DEF Put
  <1>3. \A j \in 1..Len(q) : SameReach(q[j], r[j])
    BY <1>2 DEF SameReach
  <1> QED
    BY <1>1, <1>2, <1>3 DEF Worked

LEMMA OnLapse ==
    ASSUME StreamInv, QueueInv, NEW i \in DOMAIN queue, Lapse(i) \/ LapseEarly(i)
    PROVE  QueueInv'
  <1>1. facts \in Seq(FactRow) /\ queue \in Seq(Invalidation(Len(trades)))
    BY DEF QueueInv, QueueTables
  <1>2. trades \in Seq(TradeRow)
    BY DEF StreamInv, Tables
  <1>3. UNCHANGED <<facts, trades, points, mw>>
    BY DEF Lapse, LapseEarly, streamVars
  <1>4. queue' = [queue EXCEPT ![i].live = FALSE]
    BY DEF Lapse, LapseEarly
  <1>5. PICK n, r, x, s : n = Len(trades) /\ r = queue' /\ x = queue[i] /\ s = [x EXCEPT !.live = FALSE]
    OBVIOUS
  <1>6. n \in Nat /\ x \in Invalidation(n) /\ i \in 1..Len(queue)
    BY <1>1, <1>2, <1>5
  <1>7. s \in Invalidation(n) /\ SameReach(x, s) /\ s.status = x.status
    BY <1>5, <1>6, RowTouched
  <1>8. r = Put(queue, i, s)
    BY <1>4, <1>5 DEF Put
  <1>9. Worked(queue, r, n) /\ \A j \in 1..Len(queue) : r[j] = IF j = i THEN s ELSE queue[j]
    <2>1. queue \in Seq(Invalidation(n)) /\ SameReach(queue[i], s)
      BY <1>1, <1>5, <1>7
    <2> QED
      BY <1>6, <1>7, <1>8, <2>1, OneRow
  <1>10. \A j \in 1..Len(queue) : r[j].status = queue[j].status
    BY <1>5, <1>7, <1>9
  <1>11. facts' \in Seq(FactRow)
    BY <1>1, <1>3
  <1> QED
    BY <1>2, <1>3, <1>5, <1>9, <1>10, <1>11, QueueTouched

\* A worker changes its own row and leaves the fence.
Acts(v, x, i, s) ==
    /\ trades \in Seq(TradeRow) /\ UNCHANGED <<trades, facts>>
    /\ mw' = [mw EXCEPT ![v] = x] /\ Job(x) /\ x.pc # "fence"
    /\ x.pc # "idle" => x.id \in 1..Len(queue)
    /\ i \in 1..Len(queue) /\ s \in Invalidation(Len(trades)) /\ SameReach(queue[i], s)
    /\ queue' = Put(queue, i, s)
    /\ \A u \in Workers : u # v /\ mw[u].pc = "fence" => mw[u].id # i

LEMMA ActsOnRow ==
    ASSUME QueueInv, NEW v \in Workers, NEW x, NEW i, NEW s, Acts(v, x, i, s)
    PROVE  /\ Worked(queue, queue', Len(trades))
           /\ \A j \in 1..Len(queue) : queue'[j] = IF j = i THEN s ELSE queue[j]
  <1>1. PICK n, r : n = Len(trades) /\ r = queue'
    OBVIOUS
  <1>2. n \in Nat /\ queue \in Seq(Invalidation(n)) /\ s \in Invalidation(n)
    BY <1>1 DEF QueueInv, QueueTables, Acts
  <1>3. i \in 1..Len(queue) /\ SameReach(queue[i], s) /\ r = Put(queue, i, s)
    BY <1>1 DEF Acts
  <1>4. Worked(queue, r, n) /\ \A j \in 1..Len(queue) : r[j] = IF j = i THEN s ELSE queue[j]
    BY <1>2, <1>3, OneRow
  <1> QED
    BY <1>1, <1>4

LEMMA WorkerActs ==
    ASSUME QueueInv, NEW v \in Workers, NEW x, NEW i, NEW s, Acts(v, x, i, s), NoTradeForgotten'
    PROVE  QueueInv'
  <1>1. /\ UNCHANGED <<trades, facts>> /\ Job(x) /\ x.pc # "fence"
        /\ x.pc # "idle" => x.id \in 1..Len(queue)
        /\ mw' = [mw EXCEPT ![v] = x]
        /\ \A u \in Workers : u # v /\ mw[u].pc = "fence" => mw[u].id # i
    BY DEF Acts
  <1>2. PICK n, r : n = Len(trades) /\ r = queue'
    OBVIOUS
  <1>3. facts \in Seq(FactRow)
    BY DEF QueueInv, QueueTables
  <1>4. Worked(queue, r, n) /\ \A j \in 1..Len(queue) : r[j] = IF j = i THEN s ELSE queue[j]
    BY <1>2, ActsOnRow
  <1>5. mw = [u \in Workers |-> mw[u]]
    BY DEF QueueInv, Jobs
  <1>6. PICK ws : ws = mw'
    OBVIOUS
  <1>7. ws = [u \in Workers |-> ws[u]] /\ \A u \in Workers : ws[u] = IF u = v THEN x ELSE mw[u]
    BY <1>1, <1>5, <1>6
  <1>8. \A u \in Workers : Job(ws[u]) /\ (ws[u].pc # "idle" => ws[u].id \in 1..Len(queue))
    BY <1>1, <1>7 DEF QueueInv, Jobs
  <1>9. ASSUME NEW u \in Workers, ws[u].pc = "fence"
        PROVE  ws[u] = mw[u] /\ r[mw[u].id].status = "running"
    <2>1. u # v /\ ws[u] = mw[u]
      BY <1>1, <1>7, <1>9
    <2>2. mw[u].id # i /\ mw[u].id \in 1..Len(queue) /\ queue[mw[u].id].status = "running"
      BY <1>1, <1>9, <2>1 DEF QueueInv, Jobs, Fences, Computed
    <2> QED
      BY <1>4, <2>1, <2>2
  <1>10. mw' = [u \in Workers |-> mw'[u]]
    BY <1>6, <1>7
  <1>11. \A u \in Workers : Job(mw'[u]) /\ (mw'[u].pc # "idle" => mw'[u].id \in 1..Len(queue))
    BY <1>6, <1>8
  <1>12. \A u \in Workers : mw'[u].pc = "fence" => mw'[u] = mw[u] /\ queue'[mw[u].id].status = "running"
    BY <1>2, <1>6, <1>9
  <1>13. Worked(queue, queue', Len(trades))
    BY <1>2, <1>4
  <1>14. UNCHANGED trades /\ facts' \in Seq(FactRow)
    BY <1>1, <1>3
  <1> QED
    BY <1>10, <1>11, <1>12, <1>13, <1>14, QueueWorked

\* ... which, when the row is not ended, forgets no trade.
LEMMA WorkerGivesBack ==
    ASSUME QueueInv, NEW v \in Workers, NEW x, NEW i, NEW s, Acts(v, x, i, s),
           points \subseteq points', queue[i].status # "succeeded" => s.status # "succeeded"
    PROVE  QueueInv'
  <1>1. /\ Worked(queue, queue', Len(trades))
        /\ \A j \in 1..Len(queue) : queue'[j] = IF j = i THEN s ELSE queue[j]
    BY ActsOnRow
  <1>2. \A j \in 1..Len(queue) : queue[j].status # "succeeded" => queue'[j].status # "succeeded"
    BY <1>1
  <1>3. UNCHANGED trades
    BY DEF Acts
  <1>4. NoTradeForgotten'
    BY <1>1, <1>2, <1>3, NothingEnds
  <1> QED
    BY <1>4, WorkerActs

LEMMA FreeJob ==
    Job(Free) /\ Free.pc = "idle"
  BY DEF Job, Free

LEMMA OnClaim ==
    ASSUME StreamInv, QueueInv, NEW v \in Workers, Claim(v)
    PROVE  QueueInv'
  <1>1. trades \in Seq(TradeRow) /\ queue \in Seq(Invalidation(Len(trades)))
    BY DEF StreamInv, Tables, QueueInv, QueueTables
  <1>2. PICK n, i : n = Len(trades) /\ i = Min(Claimable)
    OBVIOUS
  <1>3. i \in 1..Len(queue) /\ ~Fenced(i)
    <2>1. Len(queue) \in Nat /\ DOMAIN queue = 1..Len(queue)
      BY <1>1
    <2>2. Claimable \in SUBSET (1..Len(queue)) /\ Claimable # {}
      BY <2>1 DEF Claimable, Claim
    <2>3. PICK t : t = Claimable
      OBVIOUS
    <2>4. t # {} /\ t \in SUBSET Nat
      BY <2>1, <2>2, <2>3
    <2>5. \E k \in t : \A y \in t : k <= y
      BY <2>4, LeastNat
    <2>6. Min(t) \in t
      BY <2>5 DEF Min
    <2>7. i \in Claimable
      BY <1>2, <2>3, <2>6
    <2> QED
      BY <2>1, <2>7 DEF Claimable
  <1>4. PICK r, s, x : /\ r = queue[i]
                       /\ s = [r EXCEPT !.status = "running", !.owner = v, !.live = TRUE,
                                        !.attempts = @ + 1, !.gen = @ + 1]
                       /\ x = [Free EXCEPT !.pc = "claimed", !.id = i,
                                           !.gen = r.gen + 1, !.previous = r.status]
    OBVIOUS
  <1>5. queue' = Put(queue, i, s) /\ mw' = [mw EXCEPT ![v] = x]
        /\ UNCHANGED <<streamVars, extras, facts, points>>
    <2>1. queue' = [queue EXCEPT ![i].status = "running", ![i].owner = v, ![i].live = TRUE,
                           ![i].attempts = @ + 1, ![i].gen = @ + 1]
      BY <1>2 DEF Claim
    <2>2. queue' = Put(queue, i, s)
      BY <1>1, <1>3, <1>4, <2>1 DEF Put
    <2> QED
      BY <1>2, <1>4, <2>2 DEF Claim
  <1>6. n \in Nat /\ r \in Invalidation(n)
    BY <1>1, <1>2, <1>3, <1>4
  <1>7. s \in Invalidation(n) /\ SameReach(r, s) /\ s.status = "running"
    <2>1. PICK B : B = BOOLEAN
      OBVIOUS
    <2>2. TRUE \in B /\ v \in Workers \cup {"none"}
      BY <2>1
    <2>3. PICK a, g : a = r.attempts + 1 /\ g = r.gen + 1
      OBVIOUS
    <2>4. a \in Int /\ g \in Nat
      BY <1>6, <2>3, RowFields
    <2>5. s = [r EXCEPT !.status = "running", !.owner = v, !.live = TRUE, !.attempts = a, !.gen = g]
      BY <1>4, <1>6, <2>3 DEF Invalidation
    <2>6. PICK W, t, y : W = Workers \cup {"none"} /\ t = [r EXCEPT !.status = "running", !.owner = v]
                         /\ y = [t EXCEPT !.live = TRUE]
      OBVIOUS
    <2>7. t \in Invalidation(n) /\ SameReach(r, t) /\ t.status = "running"
      BY <1>6, <2>1, <2>2, <2>6 DEF Invalidation, SameReach
    <2>8. y \in Invalidation(n) /\ SameReach(r, y) /\ y.status = "running"
      BY <2>1, <2>2, <2>6, <2>7 DEF Invalidation, SameReach
    <2>9. s = [y EXCEPT !.attempts = a, !.gen = g]
      BY <2>5, <2>6
    <2> QED
      BY <2>1, <2>4, <2>8, <2>9 DEF Invalidation, SameReach
  <1>8. Job(x) /\ x.pc = "claimed" /\ x.id = i
    BY <1>4 DEF Job, Free
  <1>9. \A u \in Workers : u # v /\ mw[u].pc = "fence" => mw[u].id # i
    BY <1>3 DEF Fenced
  <1>10. UNCHANGED <<trades, facts>> /\ points \subseteq points'
    BY <1>5 DEF streamVars
  <1>11. s \in Invalidation(Len(trades)) /\ SameReach(queue[i], s) /\ s.status # "succeeded"
    BY <1>2, <1>4, <1>7
  <1>12. Acts(v, x, i, s)
    BY <1>1, <1>3, <1>5, <1>8, <1>9, <1>10, <1>11 DEF Acts
  <1> QED
    BY <1>10, <1>11, <1>12, WorkerGivesBack

\* A row given back reaches what it reached.
LEMMA GivenRow ==
    ASSUME NEW n \in Nat, NEW r, r \in Invalidation(n), NEW a \in Int,
           NEW status \in {"pending", "retry_wait", "running", "succeeded", "dead_letter"}
    PROVE  /\ Given(r, status, a) \in Invalidation(n) /\ SameReach(r, Given(r, status, a))
           /\ Given(r, status, a).status = status
  <1>1. PICK B : B = BOOLEAN
    OBVIOUS
  <1>2. FALSE \in B
    BY <1>1
  <1>3. PICK t, s : t = [r EXCEPT !.status = status, !.attempts = a, !.owner = "none"]
                    /\ s = [t EXCEPT !.live = FALSE]
    OBVIOUS
  <1>4. Given(r, status, a) = s
    BY <1>3 DEF Given
  <1>5. t \in Invalidation(n) /\ SameReach(r, t) /\ t.status = status
    BY <1>1, <1>3 DEF Invalidation, SameReach
  <1>6. s \in Invalidation(n) /\ SameReach(r, s) /\ s.status = status
    BY <1>1, <1>2, <1>3, <1>5 DEF Invalidation, SameReach
  <1> QED
    BY <1>4, <1>6

LEMMA BackedOff ==
    ASSUME NEW n \in Nat, NEW r, r \in Invalidation(n)
    PROVE  /\ Backoff(r) \in Invalidation(n) /\ SameReach(r, Backoff(r))
           /\ Backoff(r).status # "succeeded"
  <1>1. PICK a, st : a = r.attempts /\ st = IF r.attempts >= MaxAttempts THEN "dead_letter" ELSE "retry_wait"
    OBVIOUS
  <1>2. a \in Int /\ st \in {"pending", "retry_wait", "running", "succeeded", "dead_letter"}
        /\ st # "succeeded"
    BY <1>1, RowFields
  <1>3. Backoff(r) = Given(r, st, a)
    BY <1>1 DEF Backoff
  <1> QED
    BY <1>2, <1>3, GivenRow

\* A release never ends the row as succeeded.
LEMMA ReleasedRow ==
    ASSUME NEW n \in Nat, queue \in Seq(Invalidation(n)), NEW i, i \in 1..Len(queue),
           queue[i].status = "running", NEW r, r \in Invalidation(n), SameReach(queue[i], r),
           r.status # "succeeded"
    PROVE  \E s \in Invalidation(n) :
               Released(i, r) = Put(queue, i, s) /\ SameReach(queue[i], s) /\ s.status # "succeeded"
  <1>1. PICK x, y : x = queue[i] /\ y = Backoff(queue[i])
    OBVIOUS
  <1>2. x \in Invalidation(n) /\ x.status # "succeeded"
    BY <1>1
  <1>3. y \in Invalidation(n) /\ SameReach(x, y) /\ y.status # "succeeded"
    BY <1>1, <1>2, BackedOff
  <1>4. SameReach(x, x)
    BY DEF SameReach
  <1>5. queue = Put(queue, i, x)
    BY <1>1 DEF Put
  <1>6. Released(i, r) \in {Put(queue, i, r), Put(queue, i, y), queue}
    BY <1>1 DEF Released, Put
  <1>7. CASE Released(i, r) = Put(queue, i, r)
    BY <1>7
  <1>8. CASE Released(i, r) = Put(queue, i, y)
    BY <1>1, <1>3, <1>8
  <1>9. CASE Released(i, r) = queue
    BY <1>1, <1>2, <1>4, <1>5, <1>9
  <1> QED
    BY <1>6, <1>7, <1>8, <1>9

\* A worker gives its running row back and starts again.
LEMMA RowReleased ==
    ASSUME StreamInv, QueueInv, NEW v \in Workers, NEW r, mw' = [mw EXCEPT ![v] = Free],
           mw[v].pc # "idle", queue[mw[v].id].status = "running",
           \A u \in Workers : u # v /\ mw[u].pc = "fence" => mw[u].id # mw[v].id,
           r \in Invalidation(Len(trades)), SameReach(queue[mw[v].id], r), r.status # "succeeded",
           queue' = Released(mw[v].id, r), UNCHANGED <<streamVars, facts, points>>
    PROVE  QueueInv'
  <1>1. trades \in Seq(TradeRow) /\ queue \in Seq(Invalidation(Len(trades)))
    BY DEF StreamInv, Tables, QueueInv, QueueTables
  <1>2. PICK n, i : n = Len(trades) /\ i = mw[v].id
    OBVIOUS
  <1>3. n \in Nat /\ i \in 1..Len(queue)
    BY <1>1, <1>2 DEF QueueInv, Jobs
  <1>4. PICK s \in Invalidation(n) :
            Released(i, r) = Put(queue, i, s) /\ SameReach(queue[i], s) /\ s.status # "succeeded"
    BY <1>1, <1>2, <1>3, ReleasedRow
  <1>5. PICK x : x = Free
    OBVIOUS
  <1>6. Job(x) /\ x.pc = "idle"
    BY <1>5, FreeJob
  <1>7. UNCHANGED <<trades, facts>> /\ points \subseteq points'
    BY DEF streamVars
  <1>8. Acts(v, x, i, s)
    BY <1>1, <1>2, <1>3, <1>4, <1>5, <1>6, <1>7 DEF Acts
  <1> QED
    BY <1>4, <1>7, <1>8, WorkerGivesBack

\* A worker starts again and leaves the row.
LEMMA RowLeft ==
    ASSUME StreamInv, QueueInv, NEW v \in Workers, mw' = [mw EXCEPT ![v] = Free],
           UNCHANGED <<streamVars, facts, queue, points>>
    PROVE  QueueInv'
  <1>1. trades \in Seq(TradeRow) /\ queue \in Seq(Invalidation(Len(trades))) /\ facts \in Seq(FactRow)
    BY DEF StreamInv, Tables, QueueInv, QueueTables
  <1>2. UNCHANGED <<trades, facts, queue, points>>
    BY DEF streamVars
  <1>3. NoTradeForgotten'
    BY <1>2 DEF QueueInv, NoTradeForgotten
  <1>4. Worked(queue, queue', Len(trades))
    BY <1>1, <1>2 DEF Worked, SameReach
  <1>5. mw = [u \in Workers |-> mw[u]]
    BY DEF QueueInv, Jobs
  <1>6. PICK ws, x : ws = mw' /\ x = Free
    OBVIOUS
  <1>7. ws = [u \in Workers |-> ws[u]] /\ \A u \in Workers : ws[u] = IF u = v THEN x ELSE mw[u]
    BY <1>5, <1>6
  <1>8. Job(x) /\ x.pc = "idle"
    BY <1>6, FreeJob
  <1>9. mw' = [u \in Workers |-> mw'[u]]
    BY <1>6, <1>7
  <1>10. \A u \in Workers : Job(mw'[u]) /\ (mw'[u].pc # "idle" => mw'[u].id \in 1..Len(queue))
    BY <1>6, <1>7, <1>8 DEF QueueInv, Jobs
  <1>11. ASSUME NEW u \in Workers, ws[u].pc = "fence"
         PROVE  ws[u] = mw[u] /\ queue'[mw[u].id].status = "running"
    <2>1. ws[u] = mw[u]
      BY <1>7, <1>8, <1>11
    <2> QED
      BY <1>2, <1>11, <2>1 DEF QueueInv, Fences, Computed
  <1>12. UNCHANGED trades /\ facts' \in Seq(FactRow)
    BY <1>1, <1>2
  <1>13. \A u \in Workers : mw'[u].pc = "fence" => mw'[u] = mw[u] /\ queue'[mw[u].id].status = "running"
    BY <1>6, <1>11
  <1> QED
    BY <1>3, <1>4, <1>9, <1>10, <1>12, <1>13, QueueWorked

LEMMA OnFenceFails ==
    ASSUME StreamInv, QueueInv, NEW v \in Workers, FenceFails(v)
    PROVE  QueueInv'
  <1>1. /\ mw[v].pc = "fence" /\ queue' = Released(mw[v].id, Backoff(queue[mw[v].id]))
        /\ mw' = [mw EXCEPT ![v] = Free] /\ UNCHANGED <<streamVars, facts, points>>
    BY DEF FenceFails
  <1>2. /\ queue[mw[v].id].status = "running" /\ mw[v].id \in 1..Len(queue)
        /\ \A u \in Workers : u # v /\ mw[u].pc = "fence" => mw[u].id # mw[v].id
    BY <1>1 DEF QueueInv, Jobs, Fences, Computed
  <1>3. trades \in Seq(TradeRow) /\ queue \in Seq(Invalidation(Len(trades)))
    BY DEF StreamInv, Tables, QueueInv, QueueTables
  <1>4. PICK n, x, r : n = Len(trades) /\ x = queue[mw[v].id] /\ r = Backoff(x)
    OBVIOUS
  <1>5. n \in Nat /\ x \in Invalidation(n)
    BY <1>2, <1>3, <1>4
  <1>6. r \in Invalidation(n) /\ SameReach(x, r) /\ r.status # "succeeded"
    BY <1>4, <1>5, BackedOff
  <1>7. r \in Invalidation(Len(trades)) /\ SameReach(queue[mw[v].id], r) /\ r.status # "succeeded"
        /\ queue' = Released(mw[v].id, r) /\ mw[v].pc # "idle"
    BY <1>1, <1>4, <1>6
  <1> QED
    BY <1>1, <1>2, <1>7, RowReleased

LEMMA OnWorkerDies ==
    ASSUME StreamInv, QueueInv, NEW v \in Workers, WorkerDies(v)
    PROVE  QueueInv'
  BY RowLeft DEF WorkerDies

\* The fences of given workers over a given queue.
FencesOf(ws, q, ts) ==
    \A v \in Workers : ws[v].pc = "fence" =>
        /\ Computed(ws[v], q, ts)
        /\ \A u \in Workers : u # v /\ ws[u].pc = "fence" => ws[u].id # ws[v].id

LEMMA FencesNext ==
    ASSUME NEW ws, NEW q, NEW ts, ws = mw', q = queue', ts = trades', FencesOf(ws, q, ts)
    PROVE  Fences'
  BY DEF FencesOf, Fences, Computed

\* Inside the fence: the point is computed with every trade the row reaches.
LEMMA Entered ==
    ASSUME StreamInv, QueueInv, NEW v \in Workers, mw[v].pc = "claimed", ~FencedBucket(mw[v].id),
           queue[mw[v].id].status = "running",
           mw' = [mw EXCEPT ![v].pc = "fence", ![v].point = {Point(queue[mw[v].id])}],
           UNCHANGED <<streamVars, facts, queue, points>>
    PROVE  QueueInv'
  <1>1. UNCHANGED <<trades, facts, queue, points>>
    BY DEF streamVars
  <1>2. QueueTables' /\ NoTradeForgotten'
    BY <1>1 DEF QueueInv, QueueTables, NoTradeForgotten
  <1>3. PICK x, p, ws : x = mw[v] /\ p = Point(queue[mw[v].id]) /\ ws = mw'
    OBVIOUS
  <1>4. mw = [u \in Workers |-> mw[u]] /\ Job(x) /\ x.id \in 1..Len(queue)
    BY <1>3 DEF QueueInv, Jobs
  <1>5. PICK y : y = [x EXCEPT !.pc = "fence", !.point = {p}]
    OBVIOUS
  <1>6. Job(y) /\ y.pc = "fence" /\ y.id = x.id /\ y.point = {p}
    <2>1. x = [pc |-> x.pc, id |-> x.id, gen |-> x.gen, previous |-> x.previous, point |-> x.point]
      BY <1>4 DEF Job
    <2>2. y = [pc |-> "fence", id |-> x.id, gen |-> x.gen, previous |-> x.previous, point |-> {p}]
      BY <1>5, <2>1
    <2> QED
      BY <2>2 DEF Job
  <1>7. ws = [mw EXCEPT ![v] = y]
    BY <1>3, <1>4, <1>5
  <1>8. ws = [u \in Workers |-> ws[u]] /\ \A u \in Workers : ws[u] = IF u = v THEN y ELSE mw[u]
    BY <1>4, <1>7
  <1>9. Jobs'
    <2>1. \A u \in Workers : Job(ws[u]) /\ (ws[u].pc # "idle" => ws[u].id \in 1..Len(queue))
      BY <1>4, <1>6, <1>8 DEF QueueInv, Jobs
    <2> QED
      BY <1>1, <1>3, <1>8, <2>1 DEF Jobs, Job
  <1>10. Computed(y, queue, trades)
    <2>1. PICK r : r = queue[x.id]
      OBVIOUS
    <2>2. p.market = r.market /\ p.trades = TradeInputs(r)
      BY <1>3, <2>1 DEF Point
    <2>3. \A i \in DOMAIN trades :
              trades[i].market = r.market /\ trades[i].bucket = r.bucket
              /\ i <= r.through /\ trades[i].at <= r.at => i \in p.trades
      BY <2>2 DEF TradeInputs
    <2> QED
      BY <1>3, <1>6, <2>1, <2>2, <2>3 DEF Computed
  <1>11. \A u \in Workers : u # v /\ mw[u].pc = "fence" => mw[u].id # x.id
    BY <1>3 DEF FencedBucket, SameBucket
  <1>12. ASSUME NEW u \in Workers, ws[u].pc = "fence"
         PROVE  /\ Computed(ws[u], queue, trades)
                /\ \A t \in Workers : t # u /\ ws[t].pc = "fence" => ws[t].id # ws[u].id
    <2>1. CASE u = v
      BY <1>6, <1>8, <1>10, <1>11, <2>1
    <2>2. CASE u # v
      <3>1. ws[u] = mw[u] /\ mw[u].pc = "fence"
        BY <1>8, <1>12, <2>2
      <3>2. /\ Computed(mw[u], queue, trades)
            /\ \A t \in Workers : t # u /\ mw[t].pc = "fence" => mw[t].id # mw[u].id
        BY <3>1 DEF QueueInv, Fences
      <3>3. mw[u].id # x.id
        BY <1>11, <2>2, <3>1
      <3> QED
        BY <1>6, <1>8, <3>1, <3>2, <3>3
    <2> QED
      BY <2>1, <2>2
  <1>13. Fences'
    <2>1. FencesOf(ws, queue, trades)
      BY <1>12 DEF FencesOf
    <2>2. ws = mw' /\ queue = queue' /\ trades = trades'
      BY <1>1, <1>3
    <2> QED
      BY <2>1, <2>2, FencesNext
  <1> QED
    BY <1>2, <1>9, <1>13 DEF QueueInv

LEMMA OnEnterFence ==
    ASSUME StreamInv, QueueInv, NEW v \in Workers, EnterFence(v)
    PROVE  QueueInv'
  <1>1. PICK i, r, restored :
            /\ i = mw[v].id /\ r = queue[mw[v].id]
            /\ restored = IF mw[v].previous \in Waiting THEN mw[v].previous ELSE "retry_wait"
    OBVIOUS
  <1>2. mw[v].pc = "claimed" /\ ~FencedBucket(i) /\ UNCHANGED <<streamVars, extras, facts, points>>
    BY <1>1 DEF EnterFence
  <1>3. i \in 1..Len(queue)
    BY <1>1, <1>2 DEF QueueInv, Jobs
  <1>4. trades \in Seq(TradeRow) /\ queue \in Seq(Invalidation(Len(trades)))
    BY DEF StreamInv, Tables, QueueInv, QueueTables
  <1>5. PICK n : n = Len(trades)
    OBVIOUS
  <1>6. n \in Nat /\ r \in Invalidation(n)
    BY <1>1, <1>3, <1>4, <1>5
  <1>7. \A u \in Workers : u # v /\ mw[u].pc = "fence" => mw[u].id # mw[v].id
    BY <1>1, <1>2 DEF FencedBucket, SameBucket
  <1>8. ASSUME NEW s, s \in Invalidation(n), SameReach(r, s), s.status # "succeeded",
               r.status = "running", queue' = Released(i, s), mw' = [mw EXCEPT ![v] = Free]
        PROVE  QueueInv'
    <2>1. /\ s \in Invalidation(Len(trades)) /\ SameReach(queue[mw[v].id], s)
          /\ queue[mw[v].id].status = "running" /\ queue' = Released(mw[v].id, s)
      BY <1>1, <1>5, <1>8
    <2> QED
      BY <1>2, <1>7, <1>8, <2>1, RowReleased
  <1>9. \/ mw' = [mw EXCEPT ![v] = Free] /\ UNCHANGED queue
        \/ r.status = "running" /\ queue' = Released(i, Given(r, restored, r.attempts - 1))
           /\ mw' = [mw EXCEPT ![v] = Free]
        \/ r.status = "running" /\ queue' = Released(i, Backoff(r)) /\ mw' = [mw EXCEPT ![v] = Free]
        \/ r.status = "running" /\ mw' = [mw EXCEPT ![v].pc = "fence", ![v].point = {Point(r)}]
           /\ UNCHANGED queue
    BY <1>1 DEF EnterFence
  <1>10. CASE mw' = [mw EXCEPT ![v] = Free] /\ UNCHANGED queue
    BY <1>2, <1>10, RowLeft
  <1>11. CASE r.status = "running" /\ queue' = Released(i, Given(r, restored, r.attempts - 1))
              /\ mw' = [mw EXCEPT ![v] = Free]
    <2>1. PICK a, s : a = r.attempts - 1 /\ s = Given(r, restored, a)
      OBVIOUS
    <2>2. a \in Int /\ restored \in {"pending", "retry_wait", "running", "succeeded", "dead_letter"}
          /\ restored # "succeeded"
      BY <1>1, <1>6, <2>1, RowFields DEF Waiting
    <2>3. s \in Invalidation(n) /\ SameReach(r, s) /\ s.status # "succeeded"
      BY <1>6, <2>1, <2>2, GivenRow
    <2> QED
      BY <1>8, <1>11, <2>1, <2>3
  <1>12. CASE r.status = "running" /\ queue' = Released(i, Backoff(r)) /\ mw' = [mw EXCEPT ![v] = Free]
    <2>1. PICK s : s = Backoff(r)
      OBVIOUS
    <2>2. s \in Invalidation(n) /\ SameReach(r, s) /\ s.status # "succeeded"
      BY <1>6, <2>1, BackedOff
    <2> QED
      BY <1>8, <1>12, <2>1, <2>2
  <1>13. CASE r.status = "running" /\ mw' = [mw EXCEPT ![v].pc = "fence", ![v].point = {Point(r)}]
              /\ UNCHANGED queue
    BY <1>1, <1>2, <1>13, Entered
  <1> QED
    BY <1>9, <1>10, <1>11, <1>12, <1>13

LEMMA OnMaterialize ==
    ASSUME StreamInv, QueueInv, NEW v \in Workers, Materialize(v)
    PROVE  QueueInv'
  <1>1. PICK i : i = mw[v].id
    OBVIOUS
  <1>2. mw[v].pc = "fence" /\ mw' = [mw EXCEPT ![v] = Free] /\ UNCHANGED <<streamVars, extras, facts>>
    BY DEF Materialize
  <1>3. CASE ~queue[i].live
    <2>1. UNCHANGED <<points, queue>>
      BY <1>1, <1>3 DEF Materialize
    <2> QED
      BY <1>2, <2>1, RowLeft
  <1>4. CASE queue[i].live
    <2>1. PICK r, s : r = queue[i] /\ s = Given(r, "succeeded", r.attempts)
      OBVIOUS
    <2>2. queue' = Put(queue, i, s) /\ \E point \in mw[v].point : points' = points \cup {point}
      BY <1>1, <1>4, <2>1 DEF Materialize, InsertMaterialization, Put
    <2>3. trades \in Seq(TradeRow) /\ queue \in Seq(Invalidation(Len(trades)))
      BY DEF StreamInv, Tables, QueueInv, QueueTables
    <2>4. i \in 1..Len(queue) /\ Computed(mw[v], queue, trades)
          /\ \A u \in Workers : u # v /\ mw[u].pc = "fence" => mw[u].id # i
      BY <1>1, <1>2 DEF QueueInv, Jobs, Fences
    <2>5. PICK p : /\ mw[v].point = {p} /\ p.market = r.market
                   /\ \A k \in DOMAIN trades :
                          trades[k].market = r.market /\ trades[k].bucket = r.bucket
                          /\ k <= r.through /\ trades[k].at <= r.at => k \in p.trades
      BY <1>1, <2>1, <2>4 DEF Computed
    <2>6. points' = points \cup {p}
      BY <2>2, <2>5
    <2>7. PICK n : n = Len(trades)
      OBVIOUS
    <2>8. n \in Nat /\ r \in Invalidation(n)
      BY <2>1, <2>3, <2>4, <2>7
    <2>9. s \in Invalidation(n) /\ SameReach(r, s)
      BY <2>1, <2>8, RowFields, GivenRow
    <2>10. PICK x : x = Free
      OBVIOUS
    <2>11. Job(x) /\ x.pc = "idle"
      BY <2>10, FreeJob
    <2>12. UNCHANGED <<trades, facts>>
      BY <1>2 DEF streamVars
    <2>13. Acts(v, x, i, s)
      BY <1>2, <2>1, <2>2, <2>3, <2>4, <2>7, <2>9, <2>10, <2>11, <2>12 DEF Acts
    <2>14. /\ Worked(queue, queue', Len(trades))
           /\ \A j \in 1..Len(queue) : queue'[j] = IF j = i THEN s ELSE queue[j]
      BY <2>13, ActsOnRow
    <2>15. ASSUME NEW k \in DOMAIN trades
           PROVE  \/ \E o \in points' : o.market = trades[k].market /\ k \in o.trades
                  \/ Reached(queue', trades, k)
      <3>1. CASE \E o \in points : o.market = trades[k].market /\ k \in o.trades
        BY <2>6, <3>1
      <3>2. CASE Reached(queue, trades, k)
        <4>1. PICK j \in DOMAIN queue :
                  /\ queue[j].market = trades[k].market /\ queue[j].bucket = trades[k].bucket
                  /\ k <= queue[j].through /\ trades[k].at <= queue[j].at
                  /\ queue[j].status # "succeeded"
          BY <3>2 DEF Reached
        <4>2. CASE j = i
          BY <2>1, <2>5, <2>6, <4>1, <4>2
        <4>3. CASE j # i
          <5>1. PICK q : q = queue'
            OBVIOUS
          <5>2. j \in 1..Len(queue) /\ j \in DOMAIN q /\ q[j] = queue[j]
            <6>1. q \in Seq(Invalidation(Len(trades))) /\ Len(q) = Len(queue)
              BY <2>14, <5>1 DEF Worked
            <6>2. j \in 1..Len(queue)
              BY <2>3
            <6>3. q[j] = queue[j]
              BY <2>14, <4>3, <5>1, <6>2
            <6> QED
              BY <6>1, <6>2, <6>3
          <5>3. Reached(q, trades, k)
            BY <4>1, <5>2 DEF Reached
          <5> QED
            BY <5>1, <5>3
        <4> QED
          BY <4>2, <4>3
      <3> QED
        BY <3>1, <3>2, Forgotten DEF QueueInv
    <2>16. NoTradeForgotten'
      <3>1. PICK q, ps : q = queue' /\ ps = points'
        OBVIOUS
      <3>2. \A k \in DOMAIN trades : \/ \E o \in ps : o.market = trades[k].market /\ k \in o.trades
                                     \/ Reached(q, trades, k)
        BY <2>15, <3>1
      <3> QED
        BY <2>12, <3>1, <3>2 DEF NoTradeForgotten, Reached
    <2> QED
      BY <2>13, <2>16, WorkerActs
  <1> QED
    BY <1>3, <1>4

LEMMA QueueStart ==
    ASSUME Init
    PROVE  QueueInv
  <1>1. trades = <<>> /\ facts = <<>> /\ queue = <<>> /\ mw = [v \in Workers |-> Free]
    BY DEF Init, StreamInit
  <1>2. QueueTables
    BY <1>1 DEF QueueTables
  <1>3. \A v \in Workers : mw[v] = Free
    BY <1>1
  <1>4. Jobs
    BY <1>1, <1>3, FreeJob DEF Jobs
  <1>5. Fences
    BY <1>3, FreeJob DEF Fences
  <1>6. NoTradeForgotten
    BY <1>1 DEF NoTradeForgotten
  <1> QED
    BY <1>2, <1>4, <1>5, <1>6 DEF QueueInv

LEMMA QueueSteps ==
    ASSUME StreamInv, QueueInv, [Next]_vars
    PROVE  QueueInv'
  <1>1. CASE UNCHANGED vars
    <2>1. UNCHANGED <<trades, facts, queue, points, mw>>
      BY <1>1 DEF vars, streamVars
    <2> QED
      BY <2>1 DEF QueueInv, QueueTables, Jobs, Job, Fences, Computed, NoTradeForgotten
  <1>2. CASE StreamStep
    BY <1>2, OnStreamStep
  <1>3. CASE \E m \in Markets, b \in 0..(Floor(bound.tick) - 1), kind \in {"revision", "no_trade"} :
                 WriteFact(m, b, kind)
    BY <1>3, OnWriteFact
  <1>4. CASE CommitFact
    BY <1>4, OnCommitFact
  <1>5. CASE \E v \in Workers : Step(v) \/ FenceFails(v) \/ WorkerDies(v)
    BY <1>5, OnClaim, OnEnterFence, OnMaterialize, OnFenceFails, OnWorkerDies DEF Step
  <1>6. CASE \E i \in DOMAIN queue : Lapse(i) \/ LapseEarly(i)
    BY <1>6, OnLapse
  <1> QED
    BY <1>1, <1>2, <1>3, <1>4, <1>5, <1>6 DEF Next

\* Whatever crashes, lapses, releases and late writers there are, a stored
\* trade is in a materialization of its minute, or an invalidation that is not
\* done reaches it.
THEOREM TradesRemembered == Spec => []NoTradeForgotten
  <1>1. Init => StreamInv /\ QueueInv
    BY StreamStart, QueueStart DEF Init
  <1>2. StreamInv /\ QueueInv /\ [Next]_vars => StreamInv' /\ QueueInv'
    BY StreamSteps, QueueQuiet, StreamOrQueue, QueueSteps
  <1>3. QueueInv => NoTradeForgotten
    BY DEF QueueInv
  <1> QED
    BY <1>1, <1>2, <1>3, PTL DEF Spec

-----------------------------------------------------------------------------
(* The session: the labels of its frames and the streams it sends.         *)

TaskShape(me) ==
    me = [pc |-> me.pc, gen |-> me.gen, conn |-> me.conn, visibility |-> me.visibility,
          sends |-> me.sends, next |-> me.next, resubscribe |-> me.resubscribe,
          tries |-> me.tries]
ConnShape(c) == c = [state |-> c.state, visibility |-> c.visibility, subs |-> c.subs]

SessionShape ==
    /\ task = [t \in Tasks |-> task[t]] /\ \A t \in Tasks : TaskShape(task[t])
    /\ conn = [c \in Connections |-> conn[c]] /\ \A c \in Connections : ConnShape(conn[c])
    /\ upstream \in Connections \cup {None} /\ connectionId \in Connections \cup {None}
    /\ generation \in Nat /\ sequence \in Nat

\* The session's id is that of its upstream, and of a connection that was
\* opened; the frames of that id are numbered up to sequence.
LabelOK(up, id, seq, fr, cs) ==
    /\ up # None => id = up
    /\ id # None => cs[id].state # "unused"
    /\ fr # None => /\ fr.seq \in Nat
                    /\ fr.id = id => fr.seq <= seq
                    /\ fr.id \in Connections => cs[fr.id].state # "unused"

\* What a task of generation g has, v being the session's visibility, cs the
\* connections and ss the streams wanted: the connection it opens or reads
\* has that visibility, and what it sends leaves out no stream that is wanted.
TaskOK(t, me, g, v, cs, ss) ==
    /\ TaskShape(me) /\ me.gen \in Nat /\ me.gen <= g /\ me.next \in {"connect", "over", "done"}
    /\ me.pc = "connecting" /\ me.gen = g => me.visibility = v
    /\ me.pc = "resubscribing" =>
         /\ me.conn \in Connections /\ cs[me.conn].state # "unused"
         /\ me.gen = g => cs[me.conn].visibility = v
    /\ me.pc = "reading" =>
         t \in Connections /\ cs[t].state # "unused" /\ (me.gen = g => cs[t].visibility = v)
    /\ me.pc = "sending" =>
         /\ t = Relay /\ me.conn \in Connections /\ cs[me.conn].state # "unused"
         /\ cs[me.conn].subs \cap ss \subseteq me.sends

SessionInv ==
    /\ SessionShape
    /\ LabelOK(upstream, connectionId, sequence, frame, conn)
    /\ \A t \in Tasks : TaskOK(t, task[t], generation, visibility, conn, subscriptions)

\* A connection that was opened keeps its visibility.
ConnsGoOn(cs, ds) ==
    \A c \in Connections : cs[c].state # "unused" =>
        ds[c].state # "unused" /\ ds[c].visibility = cs[c].visibility

\* A task the step is not about: it goes on as it was, or is cancelled.
Elsewhere(t) == task'[t] = task[t] \/ task'[t] = [task[t] EXCEPT !.pc = "cancelled"]

LEMMA TaskKept ==
    ASSUME NEW t, NEW me, NEW g \in Nat, NEW v, NEW cs, NEW ss, TaskOK(t, me, g, v, cs, ss),
           NEW h \in Nat, NEW vis, NEW ds, NEW rs, h > g \/ (h = g /\ vis = v), ConnsGoOn(cs, ds),
           me.pc = "sending" => ds[me.conn].subs \cap rs \subseteq cs[me.conn].subs \cap ss
    PROVE  TaskOK(t, me, h, vis, ds, rs)
<1>1. /\ TaskShape(me) /\ me.gen \in Nat /\ me.gen <= h /\ (me.gen = h => h = g /\ vis = v)
      /\ me.next \in {"connect", "over", "done"}
  BY DEF TaskOK
<1>2. me.pc = "connecting" /\ me.gen = h => me.visibility = vis
  BY <1>1 DEF TaskOK
<1>3. me.pc = "resubscribing" =>
        /\ me.conn \in Connections /\ ds[me.conn].state # "unused"
        /\ me.gen = h => ds[me.conn].visibility = vis
  BY <1>1 DEF TaskOK, ConnsGoOn
<1>4. me.pc = "reading" =>
        t \in Connections /\ ds[t].state # "unused" /\ (me.gen = h => ds[t].visibility = vis)
  BY <1>1 DEF TaskOK, ConnsGoOn
<1>5. me.pc = "sending" =>
        /\ t = Relay /\ me.conn \in Connections /\ ds[me.conn].state # "unused"
        /\ ds[me.conn].subs \cap rs \subseteq me.sends
  BY DEF TaskOK, ConnsGoOn
<1> QED BY <1>1, <1>2, <1>3, <1>4, <1>5 DEF TaskOK

LEMMA TaskCancelled ==
    ASSUME NEW t, NEW me, NEW g \in Nat, NEW v, NEW cs, NEW ss, TaskOK(t, me, g, v, cs, ss),
           NEW h \in Nat, NEW vis, NEW ds, NEW rs, h >= g
    PROVE  TaskOK(t, [me EXCEPT !.pc = "cancelled"], h, vis, ds, rs)
<1>1. PICK you : you = [me EXCEPT !.pc = "cancelled"]
  OBVIOUS
<1>2. TaskShape(me) /\ me.gen \in Nat /\ me.gen <= g /\ me.next \in {"connect", "over", "done"}
  BY DEF TaskOK
<1>3. TaskShape(you) /\ you.gen = me.gen /\ you.pc = "cancelled" /\ you.next = me.next
  BY <1>1, <1>2 DEF TaskShape
<1>4. TaskOK(t, you, h, vis, ds, rs)
  BY <1>2, <1>3 DEF TaskOK
<1> QED BY <1>1, <1>4

\* The step moves on the generation, or leaves generation and visibility.
GenerationOn == generation' \in Nat
                /\ (generation' > generation \/ (generation' = generation /\ visibility' = visibility))
\* It takes no wanted stream from what is being sent.
SendsOn(t) ==
    task[t].pc = "sending" =>
        conn'[task[t].conn].subs \cap subscriptions' \subseteq conn[task[t].conn].subs \cap subscriptions
TaskOKNext(t) == TaskOK(t, task'[t], generation', visibility', conn', subscriptions')

LEMMA TasksKept ==
    ASSUME SessionInv, GenerationOn, ConnsGoOn(conn, conn'),
           \A t \in Tasks : (Elsewhere(t) /\ SendsOn(t)) \/ TaskOKNext(t)
    PROVE  \A t \in Tasks : TaskOKNext(t)
<1> SUFFICES ASSUME NEW t \in Tasks, Elsewhere(t), SendsOn(t) PROVE TaskOKNext(t)
  OBVIOUS
<1>1. PICK me, g, v, cs, ss, h, vis, ds, rs :
        /\ me = task[t] /\ g = generation /\ v = visibility /\ cs = conn /\ ss = subscriptions
        /\ h = generation' /\ vis = visibility' /\ ds = conn' /\ rs = subscriptions'
  OBVIOUS
<1>2. /\ g \in Nat /\ h \in Nat /\ TaskOK(t, me, g, v, cs, ss) /\ ConnsGoOn(cs, ds)
      /\ h > g \/ (h = g /\ vis = v)
      /\ me.pc = "sending" => ds[me.conn].subs \cap rs \subseteq cs[me.conn].subs \cap ss
  BY <1>1 DEF SessionInv, SessionShape, GenerationOn, SendsOn
<1>3. TaskOK(t, me, h, vis, ds, rs)
  BY <1>2, TaskKept
<1>4. h >= g
  BY <1>2
<1>5. TaskOK(t, [me EXCEPT !.pc = "cancelled"], h, vis, ds, rs)
  BY <1>2, <1>4, TaskCancelled
<1> QED BY <1>1, <1>3, <1>5 DEF Elsewhere, TaskOKNext

\* The label goes on: nothing is forwarded, a number may be used up.
LabelGoesOn == UNCHANGED <<connectionId, frame>> /\ sequence' \in Nat /\ sequence' >= sequence

\* The rest of the state, when no connection is opened and no frame forwarded.
LEMMA LabelsKept ==
    ASSUME SessionInv, ConnsGoOn(conn, conn'), LabelGoesOn, upstream' \in {upstream, None}
    PROVE  LabelOK(upstream, connectionId, sequence, frame, conn)'
<1>1. connectionId \in Connections \cup {None}
  BY DEF SessionInv, SessionShape
<1>2. LabelOK(upstream, connectionId, sequence, frame, conn)
  BY DEF SessionInv
<1>3. UNCHANGED <<connectionId, frame>> /\ sequence \in Nat /\ sequence' \in Nat
      /\ sequence' >= sequence
  BY DEF SessionInv, SessionShape, LabelGoesOn
<1> QED BY <1>1, <1>2, <1>3 DEF LabelOK, ConnsGoOn

\* A step that changes neither the connections nor the labels.
LEMMA StepKept ==
    ASSUME SessionInv, GenerationOn, LabelGoesOn, UNCHANGED conn, upstream' \in {upstream, None},
           task' = [t \in Tasks |-> task'[t]],
           \A t \in Tasks : (Elsewhere(t) /\ SendsOn(t)) \/ TaskOKNext(t)
    PROVE  SessionInv'
<1>1. ConnsGoOn(conn, conn')
  BY DEF ConnsGoOn
<1>2. \A t \in Tasks : TaskOKNext(t)
  BY <1>1, TasksKept
<1>3. LabelOK(upstream, connectionId, sequence, frame, conn)'
  BY <1>1, LabelsKept
<1>4. SessionShape'
  <2>1. \A t \in Tasks : TaskShape(task'[t])
    BY <1>2 DEF TaskOKNext, TaskOK
  <2> QED BY <2>1 DEF SessionInv, SessionShape, GenerationOn, LabelGoesOn
<1> QED BY <1>2, <1>3, <1>4 DEF SessionInv, TaskOKNext

\* A task that neither connects nor reads nor sends.
LEMMA PassiveOK ==
    ASSUME NEW t, NEW me, TaskShape(me), me.gen \in Nat, NEW h \in Nat, me.gen <= h,
           me.next \in {"connect", "over", "done"},
           me.pc \notin {"connecting", "resubscribing", "reading", "sending"},
           NEW vis, NEW ds, NEW rs
    PROVE  TaskOK(t, me, h, vis, ds, rs)
BY DEF TaskOK

LEMMA RestingOK ==
    ASSUME NEW t, NEW place, place \notin {"connecting", "resubscribing", "reading", "sending"},
           NEW h \in Nat, NEW vis, NEW ds, NEW rs
    PROVE  TaskOK(t, At(place), h, vis, ds, rs)
<1>1. PICK me : me = At(place)
  OBVIOUS
<1>2. TaskShape(me) /\ me.gen = 0 /\ me.next = "connect" /\ me.pc = place
  BY <1>1 DEF At, TaskShape
<1>3. TaskOK(t, me, h, vis, ds, rs)
  BY <1>2, PassiveOK
<1> QED BY <1>1, <1>3

\* A task that stays what it is but for its place.
LEMMA MovedOK ==
    ASSUME NEW t, NEW me, NEW g \in Nat, NEW v, NEW cs, NEW ss, TaskOK(t, me, g, v, cs, ss),
           NEW place, place \notin {"connecting", "resubscribing", "reading", "sending"},
           NEW h \in Nat, h >= g, NEW vis, NEW ds, NEW rs
    PROVE  TaskOK(t, [me EXCEPT !.pc = place], h, vis, ds, rs)
<1>1. PICK you : you = [me EXCEPT !.pc = place]
  OBVIOUS
<1>2. TaskShape(me) /\ me.gen \in Nat /\ me.gen <= g /\ me.next \in {"connect", "over", "done"}
  BY DEF TaskOK
<1>3. TaskShape(you) /\ you.gen = me.gen /\ you.pc = place /\ you.next = me.next
  BY <1>1, <1>2 DEF TaskShape
<1>4. you.gen \in Nat /\ you.gen <= h
  BY <1>2, <1>3
<1>5. TaskOK(t, you, h, vis, ds, rs)
  BY <1>2, <1>3, <1>4, PassiveOK
<1> QED BY <1>1, <1>5

\* What a task may be when it disposes of the upstream.
Disposing(me, h) ==
    TaskShape(me) /\ me.gen \in Nat /\ me.gen <= h /\ me.next \in {"connect", "over", "done"}

LEMMA OpeningOK ==
    ASSUME NEW t, NEW me, NEW h \in Nat, Disposing(me, h), NEW vis, NEW ds, NEW rs
    PROVE  TaskOK(t, Opening(me, vis), h, vis, ds, rs)
<1>1. CASE me.next = "connect"
  <2>1. PICK you : you = [me EXCEPT !.pc = "connecting", !.conn = None, !.visibility = vis]
    OBVIOUS
  <2>2. /\ TaskShape(you) /\ you.gen = me.gen /\ you.next = me.next /\ you.pc = "connecting"
        /\ you.visibility = vis
    BY <2>1 DEF TaskShape, Disposing
  <2>3. TaskOK(t, you, h, vis, ds, rs)
    BY <2>2 DEF TaskOK, Disposing
  <2> QED BY <1>1, <2>1, <2>3 DEF Opening
<1>2. CASE me.next # "connect"
  <2>1. PICK place : place = me.next
    OBVIOUS
  <2>2. place \notin {"connecting", "resubscribing", "reading", "sending"}
    BY <2>1 DEF Disposing
  <2>3. TaskOK(t, At(place), h, vis, ds, rs)
    BY <2>2, RestingOK
  <2> QED BY <1>2, <2>1, <2>3 DEF Opening
<1> QED BY <1>1, <1>2

LEMMA WaitingOK ==
    ASSUME NEW t, NEW me, NEW h \in Nat, Disposing(me, h), NEW place, NEW c,
           place \notin {"connecting", "resubscribing", "reading", "sending"}, NEW vis, NEW ds, NEW rs
    PROVE  TaskOK(t, [me EXCEPT !.pc = place, !.conn = c], h, vis, ds, rs)
<1>1. PICK you : you = [me EXCEPT !.pc = place, !.conn = c]
  OBVIOUS
<1>2. TaskShape(you) /\ you.gen = me.gen /\ you.next = me.next /\ you.pc = place
  BY <1>1 DEF TaskShape, Disposing
<1>3. you.gen \in Nat /\ you.gen <= h /\ you.next \in {"connect", "over", "done"}
  BY <1>2 DEF Disposing
<1>4. TaskOK(t, you, h, vis, ds, rs)
  BY <1>2, <1>3, PassiveOK
<1> QED BY <1>1, <1>4

\* Nothing more is wanted of the streams that are being sent.
LEMMA SendsGoOn ==
    ASSUME UNCHANGED conn, subscriptions' \subseteq subscriptions
    PROVE  \A t \in Tasks : SendsOn(t)
BY DEF SendsOn

\* A step of one task.
LEMMA OneTask ==
    ASSUME SessionInv, NEW t \in Tasks, NEW me, task' = [task EXCEPT ![t] = me]
    PROVE  /\ task' = [u \in Tasks |-> task'[u]] /\ task'[t] = me
           /\ \A u \in Tasks : u # t => Elsewhere(u)
<1>1. task = [u \in Tasks |-> task[u]]
  BY DEF SessionInv, SessionShape
<1> QED BY <1>1 DEF Elsewhere

LEMMA OneTaskKept ==
    ASSUME SessionInv, NEW t \in Tasks, NEW me, task' = [task EXCEPT ![t] = me],
           TaskOK(t, me, generation', visibility', conn', subscriptions'),
           GenerationOn, LabelGoesOn, UNCHANGED conn, upstream' \in {upstream, None},
           subscriptions' \subseteq subscriptions
    PROVE  SessionInv'
<1>1. \A u \in Tasks : SendsOn(u)
  BY SendsGoOn
<1>2. \A u \in Tasks : (Elsewhere(u) /\ SendsOn(u)) \/ TaskOKNext(u)
  BY <1>1, OneTask DEF TaskOKNext
<1> QED BY <1>2, OneTask, StepKept

LEMMA DetachKeeps ==
    ASSUME SessionInv, NEW t \in Tasks, NEW me, NEW seen, seen = visibility', GenerationOn,
           Disposing(me, generation'), Detach(t, me, seen), LabelGoesOn, UNCHANGED conn,
           subscriptions' \subseteq subscriptions
    PROVE  SessionInv'
<1>1. PICK h, vis, ds, rs : h = generation' /\ vis = visibility' /\ ds = conn' /\ rs = subscriptions'
  OBVIOUS
<1>2. h \in Nat /\ Disposing(me, h)
  BY <1>1 DEF GenerationOn
<1>3. TaskOK(t, Opening(me, vis), h, vis, ds, rs)
  BY <1>2, OpeningOK
<1>4. TaskOK(t, [me EXCEPT !.pc = "closing", !.conn = upstream], h, vis, ds, rs)
  BY <1>2, WaitingOK
<1>5. PICK you : you = IF upstream = None THEN Opening(me, seen)
                       ELSE [me EXCEPT !.pc = "closing", !.conn = upstream]
  OBVIOUS
<1>6. TaskOK(t, you, generation', visibility', conn', subscriptions')
  BY <1>1, <1>3, <1>4, <1>5
<1>7. task' = [task EXCEPT ![t] = you] /\ upstream' \in {upstream, None}
  BY <1>5 DEF Detach
<1> QED BY <1>6, <1>7, OneTaskKept

LEMMA DisposeKeeps ==
    ASSUME SessionInv, NEW t \in Tasks, NEW me, NEW seen, seen = visibility',
           Disposing(me, generation), Dispose(t, me, seen), LabelGoesOn, UNCHANGED conn,
           subscriptions' \subseteq subscriptions
    PROVE  SessionInv'
<1>1. generation \in Nat /\ generation' = generation + 1
  BY DEF SessionInv, SessionShape, Dispose
<1>2. GenerationOn
  BY <1>1 DEF GenerationOn
<1>3. PICK mine, r : mine = [me EXCEPT !.gen = generation + 1] /\ r = readerTask
  OBVIOUS
<1>4. Disposing(mine, generation')
  <2>1. TaskShape(mine) /\ mine.gen = generation + 1 /\ mine.next = me.next
    BY <1>3 DEF Disposing, TaskShape
  <2> QED BY <1>1, <2>1 DEF Disposing
<1>5. CASE r \notin {None, t} /\ Alive(r)
  <2>1. PICK you : you = [mine EXCEPT !.pc = "joining", !.conn = r]
    OBVIOUS
  <2>2. /\ task' = [task EXCEPT ![r].pc = "cancelled", ![t] = you] /\ UNCHANGED upstream
        /\ r # t
    BY <1>3, <1>5, <2>1 DEF Dispose
  <2>3. task = [u \in Tasks |-> task[u]]
    BY DEF SessionInv, SessionShape
  <2>4. /\ task' = [u \in Tasks |-> task'[u]] /\ task'[t] = you
        /\ \A u \in Tasks : u # t => Elsewhere(u)
    BY <2>2, <2>3 DEF Elsewhere
  <2>5. PICK h, vis, ds, rs : h = generation' /\ vis = visibility' /\ ds = conn' /\ rs = subscriptions'
    OBVIOUS
  <2>6. h \in Nat /\ Disposing(mine, h)
    BY <1>1, <1>4, <2>5
  <2>7. TaskOK(t, you, h, vis, ds, rs)
    BY <2>1, <2>6, WaitingOK
  <2>8. \A u \in Tasks : SendsOn(u)
    BY SendsGoOn
  <2>9. \A u \in Tasks : (Elsewhere(u) /\ SendsOn(u)) \/ TaskOKNext(u)
    BY <2>4, <2>5, <2>7, <2>8 DEF TaskOKNext
  <2> QED BY <1>2, <2>2, <2>4, <2>9, StepKept
<1>6. CASE ~(r \notin {None, t} /\ Alive(r))
  <2>1. Detach(t, mine, seen)
    BY <1>3, <1>6 DEF Dispose
  <2> QED BY <1>2, <1>4, <2>1, DetachKeeps
<1> QED BY <1>5, <1>6

\* Every task may dispose of the upstream, for either reason.
LEMMA MayDispose ==
    ASSUME SessionInv, NEW t \in Tasks, NEW next, next \in {"connect", "over", "done"}
    PROVE  /\ Disposing(task[t], generation)
           /\ Disposing([task[t] EXCEPT !.next = next], generation)
           /\ \A b : Disposing([task[t] EXCEPT !.next = next, !.resubscribe = b], generation)
<1>1. Disposing(task[t], generation)
  BY DEF SessionInv, TaskOK, Disposing
<1>2. PICK you : you = [task[t] EXCEPT !.next = next]
  OBVIOUS
<1>3. Disposing(you, generation)
  BY <1>1, <1>2 DEF Disposing, TaskShape
<1>4. ASSUME NEW b PROVE Disposing([task[t] EXCEPT !.next = next, !.resubscribe = b], generation)
  <2>1. PICK he : he = [task[t] EXCEPT !.next = next, !.resubscribe = b]
    OBVIOUS
  <2>2. Disposing(he, generation)
    BY <1>1, <2>1 DEF Disposing, TaskShape
  <2> QED BY <2>1, <2>2
<1> QED BY <1>1, <1>2, <1>3, <1>4

LEMMA ReplaceKeeps ==
    ASSUME SessionInv, NEW t \in Tasks, NEW b, NEW seen, seen = visibility', Replace(t, b, seen),
           LabelGoesOn, UNCHANGED conn, subscriptions' \subseteq subscriptions
    PROVE  SessionInv'
<1>1. PICK me : me = [task[t] EXCEPT !.next = "connect", !.resubscribe = b]
  OBVIOUS
<1>2. Disposing(me, generation)
  BY <1>1, MayDispose
<1>3. Dispose(t, me, seen)
  BY <1>1 DEF Replace
<1> QED BY <1>2, <1>3, DisposeKeeps

LEMMA CloseKeeps ==
    ASSUME SessionInv, NEW t \in Tasks, Close(t), LabelGoesOn, UNCHANGED <<visibility, conn>>
    PROVE  SessionInv'
<1>1. Over(t) \in {"over", "done"}
  BY DEF Over
<1>2. CASE closed
  <2>1. PICK place : place = Over(t)
    OBVIOUS
  <2>2. task' = [task EXCEPT ![t] = At(place)] /\ UNCHANGED <<subscriptions, link>>
    BY <1>2, <2>1 DEF Close
  <2>3. generation' \in Nat /\ GenerationOn /\ upstream' = upstream
    BY <2>2 DEF SessionInv, SessionShape, GenerationOn, link
  <2>4. PICK h, vis, ds, rs : h = generation' /\ vis = visibility' /\ ds = conn' /\ rs = subscriptions'
    OBVIOUS
  <2>5. TaskOK(t, At(place), h, vis, ds, rs)
    BY <1>1, <2>1, <2>3, <2>4, RestingOK
  <2>6. PICK me : me = At(place)
    OBVIOUS
  <2> QED BY <2>2, <2>3, <2>4, <2>5, <2>6, OneTaskKept
<1>3. CASE ~closed
  <2>1. PICK me, next : me = [task[t] EXCEPT !.next = next] /\ next = Over(t)
    OBVIOUS
  <2>2. Disposing(me, generation)
    BY <1>1, <2>1, MayDispose
  <2>3. Dispose(t, me, visibility) /\ subscriptions' \subseteq subscriptions
    BY <1>3, <2>1 DEF Close
  <2>4. PICK seen : seen = visibility
    OBVIOUS
  <2> QED BY <2>2, <2>3, <2>4, DisposeKeeps
<1> QED BY <1>2, <1>3

\* A step that changes the connections but opens none.
LEMMA ConnStepKept ==
    ASSUME SessionInv, GenerationOn, LabelGoesOn, ConnsGoOn(conn, conn'),
           conn' = [c \in Connections |-> conn'[c]], \A c \in Connections : ConnShape(conn'[c]),
           upstream' \in {upstream, None}, task' = [t \in Tasks |-> task'[t]],
           \A t \in Tasks : (Elsewhere(t) /\ SendsOn(t)) \/ TaskOKNext(t)
    PROVE  SessionInv'
<1>1. \A t \in Tasks : TaskOKNext(t)
  BY TasksKept
<1>2. LabelOK(upstream, connectionId, sequence, frame, conn)'
  BY LabelsKept
<1>3. SessionShape'
  <2>1. \A t \in Tasks : TaskShape(task'[t])
    BY <1>1 DEF TaskOKNext, TaskOK
  <2> QED BY <2>1 DEF SessionInv, SessionShape, GenerationOn, LabelGoesOn
<1> QED BY <1>1, <1>2, <1>3 DEF SessionInv, TaskOKNext

\* The state of a connection that ends.
LEMMA ConnEnds ==
    ASSUME SessionInv, NEW c, NEW state, state # "unused", conn' = [conn EXCEPT ![c].state = state]
    PROVE  /\ conn' = [d \in Connections |-> conn'[d]]
           /\ \A d \in Connections : ConnShape(conn'[d]) /\ conn'[d].subs = conn[d].subs
           /\ ConnsGoOn(conn, conn')
<1>1. /\ conn = [d \in Connections |-> conn[d]]
      /\ \A d \in Connections : conn[d] = [state |-> conn[d].state, subs |-> conn[d].subs,
                                           visibility |-> conn[d].visibility]
  BY DEF SessionInv, SessionShape, ConnShape
<1>2. conn' = [d \in Connections |-> conn'[d]]
  BY <1>1
<1>3. ASSUME NEW d \in Connections
      PROVE  /\ ConnShape(conn'[d]) /\ conn'[d].subs = conn[d].subs
             /\ conn'[d].visibility = conn[d].visibility
             /\ conn[d].state # "unused" => conn'[d].state # "unused"
  <2>1. CASE d = c
    BY <1>1, <2>1 DEF ConnShape
  <2>2. CASE d # c
    BY <1>1, <2>2 DEF ConnShape
  <2> QED BY <2>1, <2>2
<1> QED BY <1>2, <1>3 DEF ConnsGoOn

LEMMA SameLabel == ASSUME SessionInv, UNCHANGED label PROVE LabelGoesOn
BY DEF SessionInv, SessionShape, LabelGoesOn, label

LEMMA SameGeneration ==
    ASSUME SessionInv, UNCHANGED <<generation, visibility>> PROVE GenerationOn
BY DEF SessionInv, SessionShape, GenerationOn

\* What the invariant says of one task.
LEMMA AtTask ==
    ASSUME SessionInv, NEW t \in Tasks
    PROVE  /\ TaskOK(t, task[t], generation, visibility, conn, subscriptions)
           /\ generation \in Nat /\ task = [u \in Tasks |-> task[u]]
BY DEF SessionInv, SessionShape

\* A task that goes on somewhere else.
LEMMA MovesKeep ==
    ASSUME SessionInv, NEW t \in Tasks, UNCHANGED <<wanted, link, label, conn>>,
           NEW place, place \notin {"connecting", "resubscribing", "reading", "sending"},
           task' \in {[task EXCEPT ![t] = At(place)], [task EXCEPT ![t].pc = place],
                      [task EXCEPT ![t] = [@ EXCEPT !.pc = place]],
                      [task EXCEPT ![t] = [task[t] EXCEPT !.pc = place]]}
    PROVE  SessionInv'
<1>1. /\ LabelGoesOn /\ GenerationOn /\ upstream' \in {upstream, None}
      /\ subscriptions' \subseteq subscriptions
  BY SameLabel, SameGeneration DEF link, wanted
<1>2. PICK me, g, v, cs, ss :
        /\ me = task[t] /\ g = generation /\ v = visibility /\ cs = conn /\ ss = subscriptions
  OBVIOUS
<1>3. g \in Nat /\ g >= g /\ TaskOK(t, me, g, v, cs, ss)
  BY <1>2, AtTask
<1>4. TaskOK(t, At(place), g, v, cs, ss)
  BY <1>3, RestingOK
<1>5. TaskOK(t, [me EXCEPT !.pc = place], g, v, cs, ss)
  BY <1>3, MovedOK
<1>6. PICK you : you \in {At(place), [me EXCEPT !.pc = place]} /\ task' = [task EXCEPT ![t] = you]
  <2>1. task = [u \in Tasks |-> task[u]]
    BY AtTask
  <2> QED BY <1>2, <2>1
<1>7. TaskOK(t, you, generation', visibility', conn', subscriptions')
  BY <1>2, <1>4, <1>5, <1>6 DEF link, wanted
<1> QED BY <1>1, <1>6, <1>7, OneTaskKept

LEMMA EndCancelledKeeps ==
    ASSUME SessionInv, NEW r \in Connections, EndCancelled(r) PROVE SessionInv'
<1>1. PICK place : place = "done"
  OBVIOUS
<1>2. /\ r \in Tasks /\ task' = [task EXCEPT ![r] = At(place)] /\ UNCHANGED <<wanted, link, label, conn>>
      /\ place \notin {"connecting", "resubscribing", "reading", "sending"}
  BY <1>1 DEF EndCancelled, Tasks
<1> QED BY <1>2, MovesKeep

LEMMA JoinKeeps == ASSUME SessionInv, NEW t \in Tasks, Join(t) PROVE SessionInv'
<1>1. /\ Detach(t, task[t], visibility) /\ subscriptions' \subseteq subscriptions
      /\ UNCHANGED <<visibility, generation, label, conn>>
  BY DEF Join
<1>2. LabelGoesOn /\ GenerationOn
  BY <1>1, SameLabel, SameGeneration
<1>3. PICK me, seen : me = task[t] /\ seen = visibility
  OBVIOUS
<1>4. Disposing(me, generation') /\ seen = visibility' /\ Detach(t, me, seen)
  BY <1>1, <1>3, MayDispose
<1> QED BY <1>1, <1>2, <1>4, DetachKeeps

LEMMA CloseOldKeeps == ASSUME SessionInv, NEW t \in Tasks, CloseOld(t) PROVE SessionInv'
<1>1. /\ conn' = [conn EXCEPT ![task[t].conn].state = "closed"]
      /\ task' = [task EXCEPT ![t] = Opening(task[t], visibility)]
      /\ subscriptions' \subseteq subscriptions
      /\ UNCHANGED <<visibility, link, label>>
  BY DEF CloseOld
<1>2. LabelGoesOn /\ GenerationOn /\ upstream' = upstream
  BY <1>1, SameLabel, SameGeneration DEF link
<1>3. PICK c : c = task[t].conn
  OBVIOUS
<1>4. /\ conn' = [d \in Connections |-> conn'[d]]
      /\ \A d \in Connections : ConnShape(conn'[d]) /\ conn'[d].subs = conn[d].subs
      /\ ConnsGoOn(conn, conn')
  BY <1>1, <1>3, ConnEnds
<1>5. PICK me, h, vis, ds, rs : /\ me = task[t] /\ h = generation' /\ vis = visibility'
                              /\ ds = conn' /\ rs = subscriptions'
  OBVIOUS
<1>6. h \in Nat /\ Disposing(me, h)
  BY <1>1, <1>5, AtTask, MayDispose DEF link
<1>7. TaskOK(t, Opening(me, vis), h, vis, ds, rs)
  BY <1>6, OpeningOK
<1>8. PICK you : you = Opening(me, vis)
  OBVIOUS
<1>9. task' = [task EXCEPT ![t] = you]
  BY <1>1, <1>5, <1>8
<1>10. \A u \in Tasks : SendsOn(u)
  <2> SUFFICES ASSUME NEW u \in Tasks, task[u].pc = "sending" PROVE SendsOn(u)
    BY DEF SendsOn
  <2>1. task[u].conn \in Connections
    BY AtTask DEF TaskOK
  <2>2. conn'[task[u].conn].subs = conn[task[u].conn].subs
    BY <1>4, <2>1
  <2> QED BY <1>1, <2>2 DEF SendsOn
<1>11. \A u \in Tasks : (Elsewhere(u) /\ SendsOn(u)) \/ TaskOKNext(u)
  BY <1>5, <1>7, <1>8, <1>9, <1>10, OneTask DEF TaskOKNext
<1> QED BY <1>2, <1>4, <1>9, <1>11, OneTask, ConnStepKept

LEMMA LoseKeeps == ASSUME SessionInv, NEW c \in Connections, Lose(c) PROVE SessionInv'
<1>1. conn' = [conn EXCEPT ![c].state = "lost"] /\ UNCHANGED <<wanted, link, label, task>>
  BY DEF Lose
<1>2. LabelGoesOn /\ GenerationOn /\ upstream' = upstream /\ subscriptions' = subscriptions
  BY <1>1, SameLabel, SameGeneration DEF link, wanted
<1>3. /\ conn' = [d \in Connections |-> conn'[d]]
      /\ \A d \in Connections : ConnShape(conn'[d]) /\ conn'[d].subs = conn[d].subs
      /\ ConnsGoOn(conn, conn')
  BY <1>1, ConnEnds
<1>4. ASSUME NEW u \in Tasks PROVE Elsewhere(u) /\ SendsOn(u)
  <2>1. task[u].pc = "sending" => task[u].conn \in Connections
    BY AtTask DEF TaskOK
  <2> QED BY <1>1, <1>2, <1>3, <2>1 DEF Elsewhere, SendsOn
<1>5. task' = [u \in Tasks |-> task'[u]]
  BY <1>1 DEF SessionInv, SessionShape
<1> QED BY <1>2, <1>3, <1>4, <1>5, ConnStepKept

\* A connection that could not be opened, or a request that could not be sent.
LEMMA FailedKeeps ==
    ASSUME SessionInv, NEW t \in Tasks, task' = [task EXCEPT ![t] = Failed(t)],
           UNCHANGED <<wanted, link, label, conn>>
    PROVE  SessionInv'
<1>1. /\ LabelGoesOn /\ GenerationOn /\ upstream' \in {upstream, None}
      /\ subscriptions' \subseteq subscriptions
  BY SameLabel, SameGeneration DEF link, wanted
<1>2. PICK me, g, v, cs, ss, you :
        /\ me = task[t] /\ g = generation /\ v = visibility /\ cs = conn /\ ss = subscriptions
        /\ you = Failed(t)
  OBVIOUS
<1>3. g \in Nat /\ TaskOK(t, me, g, v, cs, ss)
  BY <1>2, AtTask
<1>4. /\ TaskShape(you) /\ you.next = me.next /\ you.gen \in {me.gen, g}
      /\ you.pc \in {"notify", "giveup", "done", "announce"}
  <2>1. TaskShape(me)
    BY <1>3 DEF TaskOK
  <2>2. CASE t = Relay
    BY <1>2, <2>1, <2>2 DEF Failed, TaskShape
  <2>3. CASE t # Relay
    BY <1>2, <2>1, <2>3 DEF Failed, TaskShape
  <2> QED BY <2>2, <2>3
<1>5. you.gen \in Nat /\ you.gen <= g /\ you.next \in {"connect", "over", "done"}
  BY <1>3, <1>4 DEF TaskOK
<1>6. TaskOK(t, you, g, v, cs, ss)
  BY <1>3, <1>4, <1>5, PassiveOK
<1>7. TaskOK(t, you, generation', visibility', conn', subscriptions')
  BY <1>2, <1>6 DEF link, wanted
<1> QED BY <1>1, <1>2, <1>7, OneTaskKept

LEMMA NotifyKeeps == ASSUME SessionInv, NEW t \in Tasks, Notify(t) PROVE SessionInv'
<1>1. UNCHANGED <<paused, visibility, label, conn>> /\ LabelGoesOn
  BY SameLabel DEF Notify
<1>2. CASE Close(t)
  BY <1>1, <1>2, CloseKeeps
<1>3. CASE ~Close(t)
  <2>1. PICK place : place = Rest(t)
    OBVIOUS
  <2>2. task' = [task EXCEPT ![t] = At(place)] /\ UNCHANGED <<wanted, link, label, conn>>
        /\ place \notin {"connecting", "resubscribing", "reading", "sending"}
    BY <1>1, <1>3, <2>1 DEF Notify, Rest, wanted
  <2> QED BY <2>2, MovesKeep
<1> QED BY <1>2, <1>3

LEMMA AnnounceKeeps == ASSUME SessionInv, NEW t \in Tasks, Announce(t) PROVE SessionInv'
<1>1. UNCHANGED <<paused, visibility, label, conn>> /\ LabelGoesOn
  BY SameLabel DEF Announce
<1>2. CASE Close(t)
  BY <1>1, <1>2, CloseKeeps
<1>3. CASE Replace(t, TRUE, visibility) /\ UNCHANGED <<closed, subscriptions>>
  <2>1. PICK b, seen : b = TRUE /\ seen = visibility
    OBVIOUS
  <2>2. Replace(t, b, seen) /\ seen = visibility' /\ subscriptions' \subseteq subscriptions
    BY <1>1, <1>3, <2>1
  <2> QED BY <1>1, <2>2, ReplaceKeeps
<1>4. CASE task' = [task EXCEPT ![t].pc = "backoff"] /\ UNCHANGED <<closed, subscriptions, link>>
  <2>1. PICK place : place = "backoff"
    OBVIOUS
  <2>2. /\ task' = [task EXCEPT ![t].pc = place] /\ UNCHANGED <<wanted, link, label, conn>>
        /\ place \notin {"connecting", "resubscribing", "reading", "sending"}
    BY <1>1, <1>4, <2>1 DEF wanted
  <2> QED BY <2>2, MovesKeep
<1> QED BY <1>2, <1>3, <1>4 DEF Announce

LEMMA EndReadKeeps == ASSUME SessionInv, NEW r \in Connections, EndRead(r) PROVE SessionInv'
<1>1. r \in Tasks /\ UNCHANGED <<wanted, link, label, conn>>
  BY DEF EndRead, Tasks
<1>2. CASE StillServes(r)
  <2>1. PICK place : place = "announce"
    OBVIOUS
  <2>2. /\ task' = [task EXCEPT ![r] = [@ EXCEPT !.pc = place]]
        /\ place \notin {"connecting", "resubscribing", "reading", "sending"}
    BY <1>2, <2>1 DEF EndRead
  <2> QED BY <1>1, <2>2, MovesKeep
<1>3. CASE ~StillServes(r)
  <2>1. PICK place : place = "done"
    OBVIOUS
  <2>2. /\ task' = [task EXCEPT ![r] = At(place)]
        /\ place \notin {"connecting", "resubscribing", "reading", "sending"}
    BY <1>3, <2>1 DEF EndRead
  <2> QED BY <1>1, <2>2, MovesKeep
<1> QED BY <1>2, <1>3

LEMMA WakeKeeps == ASSUME SessionInv, NEW r \in Connections, Wake(r) PROVE SessionInv'
<1>1. r \in Tasks /\ UNCHANGED <<wanted, label, conn>> /\ LabelGoesOn
  BY SameLabel DEF Wake, Tasks
<1>2. CASE Replace(r, TRUE, visibility)
  <2>1. PICK b, seen : b = TRUE /\ seen = visibility
    OBVIOUS
  <2>2. Replace(r, b, seen) /\ seen = visibility' /\ subscriptions' \subseteq subscriptions
    BY <1>1, <1>2, <2>1 DEF wanted
  <2> QED BY <1>1, <2>2, ReplaceKeeps
<1>3. CASE task' = [task EXCEPT ![r] = At("done")] /\ UNCHANGED link
  <2>1. PICK place : place = "done"
    OBVIOUS
  <2>2. /\ task' = [task EXCEPT ![r] = At(place)]
        /\ place \notin {"connecting", "resubscribing", "reading", "sending"}
    BY <1>3, <2>1
  <2> QED BY <1>1, <1>3, <2>2, MovesKeep
<1> QED BY <1>2, <1>3 DEF Wake

LEMMA GiveUpKeeps == ASSUME SessionInv, NEW r \in Connections, GiveUp(r) PROVE SessionInv'
<1>1. r \in Tasks /\ Close(r) /\ UNCHANGED <<visibility, label, conn>> /\ LabelGoesOn
  BY SameLabel DEF GiveUp, Tasks
<1> QED BY <1>1, CloseKeeps

LEMMA HangUpKeeps == ASSUME SessionInv, HangUp PROVE SessionInv'
<1>1. Relay \in Tasks /\ Close(Relay) /\ UNCHANGED <<visibility, label, conn>> /\ LabelGoesOn
  BY SameLabel DEF HangUp, Tasks
<1> QED BY <1>1, CloseKeeps

LEMMA ConnectKeeps == ASSUME SessionInv, NEW v, ConnectControl(v) PROVE SessionInv'
<1>1. /\ Relay \in Tasks /\ UNCHANGED <<label, conn>> /\ LabelGoesOn /\ v = visibility'
      /\ subscriptions' \subseteq subscriptions /\ Replace(Relay, FALSE, v)
  BY SameLabel DEF ConnectControl, Tasks
<1>2. PICK b, t : b = FALSE /\ t = Relay
  OBVIOUS
<1> QED BY <1>1, <1>2, ReplaceKeeps

LEMMA OpenFailsKeeps ==
    ASSUME SessionInv, NEW t \in Tasks, OpenFails(t) \/ SendFails(t) PROVE SessionInv'
<1>1. task' = [task EXCEPT ![t] = Failed(t)] /\ UNCHANGED <<wanted, link, label, conn>>
  BY DEF OpenFails, SendFails
<1> QED BY <1>1, FailedKeeps

\* The relay goes on somewhere else, with fewer streams wanted.
LEMMA RelayMoves ==
    ASSUME SessionInv, NEW place, place \notin {"connecting", "resubscribing", "reading", "sending"},
           task' = [task EXCEPT ![Relay] = [task[Relay] EXCEPT !.pc = place]],
           UNCHANGED <<visibility, link, label, conn>>, subscriptions' \subseteq subscriptions
    PROVE  SessionInv'
<1>1. LabelGoesOn /\ GenerationOn /\ upstream' \in {upstream, None} /\ Relay \in Tasks
  BY SameLabel, SameGeneration DEF link, Tasks
<1>2. PICK t, me, g, v, cs, ss :
        /\ me = task[t] /\ g = generation /\ v = visibility /\ cs = conn /\ ss = subscriptions
        /\ t = Relay
  OBVIOUS
<1>3. g \in Nat /\ g >= g /\ TaskOK(t, me, g, v, cs, ss) /\ t \in Tasks
  BY <1>1, <1>2, AtTask
<1>4. PICK rs, you : rs = subscriptions' /\ you = [me EXCEPT !.pc = place]
  OBVIOUS
<1>5. TaskOK(t, you, g, v, cs, rs)
  BY <1>3, <1>4, MovedOK
<1>6. task' = [task EXCEPT ![t] = you]
  BY <1>2, <1>4
<1>7. TaskOK(t, you, generation', visibility', conn', subscriptions')
  BY <1>2, <1>4, <1>5 DEF link
<1> QED BY <1>1, <1>3, <1>6, <1>7, OneTaskKept

LEMMA MovingControlsKeep ==
    ASSUME SessionInv,
           (\E b \in BOOLEAN : PauseControl(b)) \/ (\E e \in Endpoints : Unsubscribe(e)) \/ Reconnect
    PROVE  SessionInv'
<1>1. PICK place : /\ place \in {"notify", "announce"}
                /\ task' = [task EXCEPT ![Relay] = [task[Relay] EXCEPT !.pc = place]]
  BY DEF PauseControl, Unsubscribe, Reconnect, Handle
<1>2. UNCHANGED <<visibility, link, label, conn>> /\ subscriptions' \subseteq subscriptions
  BY DEF PauseControl, Unsubscribe, Reconnect, wanted
<1>3. place \notin {"connecting", "resubscribing", "reading", "sending"}
  BY <1>1
<1> QED BY <1>1, <1>2, <1>3, RelayMoves

\* The relay starts to send: no task was sending.
LEMMA SendingControlsKeep ==
    ASSUME SessionInv, (\E e \in Endpoints : Subscribe(e)) \/ List
    PROVE  SessionInv'
<1>1. PICK sends, me :
        /\ me = [task[Relay] EXCEPT !.pc = "sending", !.conn = upstream, !.sends = sends]
        /\ task' = [task EXCEPT ![Relay] = me]
        /\ conn[upstream].subs \cap subscriptions' \subseteq sends
  <2>1. CASE List
    <3>1. PICK sends : sends = conn[upstream].subs
      OBVIOUS
    <3> QED BY <2>1, <3>1 DEF List, Handle
  <2>2. CASE \E e \in Endpoints : Subscribe(e)
    <3>1. PICK e \in Endpoints : Subscribe(e)
      BY <2>2
    <3>2. PICK sends : sends = Snapshot(e)
      OBVIOUS
    <3>3. sends = subscriptions'
      BY <3>1, <3>2 DEF Subscribe, Snapshot
    <3>4. task' = [task EXCEPT ![Relay] = [task[Relay] EXCEPT !.pc = "sending", !.conn = upstream,
                                                             !.sends = sends]]
      BY <3>1, <3>2 DEF Subscribe, Handle
    <3> QED BY <3>3, <3>4
  <2> QED BY <2>1, <2>2
<1>2. /\ task[Relay].pc = "receive" /\ UNCHANGED <<visibility, link, label, conn>> /\ upstream # None
      /\ Relay \in Tasks
  BY DEF Subscribe, List, Handle, wanted, Tasks
<1>3. LabelGoesOn /\ GenerationOn /\ upstream' \in {upstream, None}
  BY <1>2, SameLabel, SameGeneration DEF link
<1>4. upstream \in Connections /\ conn[upstream].state # "unused"
  BY <1>2 DEF SessionInv, SessionShape, LabelOK
<1>5. TaskOK(Relay, me, generation', visibility', conn', subscriptions')
  <2>1. TaskOK(Relay, task[Relay], generation, visibility, conn, subscriptions) /\ generation' = generation
    BY <1>2, AtTask DEF link
  <2>2. PICK it : it = task[Relay]
    OBVIOUS
  <2>3. TaskShape(it) /\ it.gen \in Nat /\ it.gen <= generation /\ it.next \in {"connect", "over", "done"}
    BY <2>1, <2>2 DEF TaskOK
  <2>4. /\ TaskShape(me) /\ me.pc = "sending" /\ me.conn = upstream /\ me.sends = sends
        /\ me.gen = it.gen /\ me.next = it.next
    BY <1>1, <2>2, <2>3 DEF TaskShape
  <2> QED BY <1>1, <1>2, <1>4, <2>1, <2>3, <2>4 DEF TaskOK
<1>6. PICK t : t = Relay
  OBVIOUS
<1>7. /\ task' = [u \in Tasks |-> task'[u]] /\ task'[Relay] = me
      /\ \A u \in Tasks : u # Relay => Elsewhere(u)
  BY <1>1, <1>2, <1>6, OneTask
<1>8. \A u \in Tasks : u # Relay => SendsOn(u)
  BY AtTask DEF TaskOK, SendsOn
<1>9. \A u \in Tasks : (Elsewhere(u) /\ SendsOn(u)) \/ TaskOKNext(u)
  BY <1>5, <1>7, <1>8 DEF TaskOKNext
<1> QED BY <1>2, <1>3, <1>7, <1>9, StepKept

\* A frame takes the next number of the session's id.
LEMMA ForwardKeeps == ASSUME SessionInv, NEW r \in Connections, Forward(r) PROVE SessionInv'
<1>1. /\ r \in Tasks /\ sequence \in Nat /\ sequence' = sequence + 1 /\ sequence' \in Nat
      /\ UNCHANGED <<visibility, connectionId, conn>>
  BY DEF Forward, Tasks, SessionInv, SessionShape
<1>2. CASE Close(r) /\ UNCHANGED frame
  <2>1. LabelGoesOn
    BY <1>1, <1>2 DEF LabelGoesOn
  <2> QED BY <1>1, <1>2, <2>1, CloseKeeps
<1>3. CASE /\ frame' = [from |-> r, id |-> connectionId, visibility |-> visibility, seq |-> sequence + 1]
           /\ UNCHANGED <<closed, subscriptions, link, task>>
  <2>1. LabelOK(upstream, connectionId, sequence, frame, conn)
    BY DEF SessionInv
  <2>2. frame'.id = connectionId /\ frame'.seq = sequence + 1
    BY <1>3
  <2>3. connectionId \in Connections \cup {None} /\ None \notin Connections
    BY SessionConstants DEF SessionInv, SessionShape
  <2>4. LabelOK(upstream, connectionId, sequence, frame, conn)'
    BY <1>1, <1>3, <2>1, <2>2, <2>3 DEF LabelOK, link
  <2>5. SessionShape'
    BY <1>1, <1>3 DEF SessionInv, SessionShape, link
  <2> QED BY <1>1, <1>3, <2>4, <2>5 DEF SessionInv, link
<1> QED BY <1>2, <1>3 DEF Forward

LEMMA StandsKeeps ==
    ASSUME SessionInv, UNCHANGED <<wanted, link, label, conn, task>> PROVE SessionInv'
BY DEF SessionInv, SessionShape, wanted, link, label

\* What a connection has when its request is taken.
LEMMA SendKeeps == ASSUME SessionInv, NEW t \in Tasks, Send(t) PROVE SessionInv'
<1>1. PICK c, sends : c = task[t].conn /\ sends = task[t].sends
  OBVIOUS
<1>2. /\ conn' = [conn EXCEPT ![c].subs = sends] /\ task' = [task EXCEPT ![t].pc = "notify"]
      /\ task[t].pc = "sending" /\ UNCHANGED <<wanted, link, label>>
  BY <1>1 DEF Send
<1>3. t = Relay /\ c \in Connections
  BY <1>1, <1>2, AtTask DEF TaskOK
<1>4. /\ LabelGoesOn /\ GenerationOn /\ upstream' = upstream
  BY <1>2, SameLabel, SameGeneration DEF link, wanted
<1>5. /\ conn' = [d \in Connections |-> conn'[d]]
      /\ \A d \in Connections : ConnShape(conn'[d])
      /\ ConnsGoOn(conn, conn')
  <2>1. /\ conn = [d \in Connections |-> conn[d]]
        /\ \A d \in Connections : conn[d] = [state |-> conn[d].state, subs |-> conn[d].subs,
                                             visibility |-> conn[d].visibility]
    BY DEF SessionInv, SessionShape, ConnShape
  <2>2. conn' = [d \in Connections |-> conn'[d]]
    BY <1>2, <2>1
  <2>3. ASSUME NEW d \in Connections
        PROVE  /\ ConnShape(conn'[d]) /\ conn'[d].state = conn[d].state
               /\ conn'[d].visibility = conn[d].visibility
    <3>1. CASE d = c
      BY <1>2, <2>1, <3>1 DEF ConnShape
    <3>2. CASE d # c
      BY <1>2, <2>1, <3>2 DEF ConnShape
    <3> QED BY <3>1, <3>2
  <2> QED BY <2>2, <2>3 DEF ConnsGoOn
<1>6. PICK me, g, v, cs, ss, ds, place, you :
        /\ me = task[t] /\ g = generation /\ v = visibility /\ cs = conn /\ ss = subscriptions
        /\ ds = conn' /\ place = "notify" /\ you = [me EXCEPT !.pc = place]
  OBVIOUS
<1>7. /\ g \in Nat /\ g >= g /\ TaskOK(t, me, g, v, cs, ss)
      /\ place \notin {"connecting", "resubscribing", "reading", "sending"}
  BY <1>6, AtTask
<1>8. TaskOK(t, you, g, v, ds, ss)
  BY <1>6, <1>7, MovedOK
<1>9. task' = [task EXCEPT ![t] = you]
  <2>1. task = [u \in Tasks |-> task[u]]
    BY AtTask
  <2> QED BY <1>2, <1>6, <2>1
<1>10. \A u \in Tasks : u # t => SendsOn(u)
  BY <1>3, AtTask DEF TaskOK, SendsOn
<1>11. \A u \in Tasks : (Elsewhere(u) /\ SendsOn(u)) \/ TaskOKNext(u)
  BY <1>2, <1>6, <1>8, <1>9, <1>10, OneTask DEF TaskOKNext, link, wanted
<1> QED BY <1>4, <1>5, <1>9, <1>11, OneTask, ConnStepKept

\* What the tasks are once the reader of connection c is created by task t.
SpawnedOK(t, c, h, vis, ds, rs) ==
    /\ Spawned(t, c) = [u \in Tasks |-> Spawned(t, c)[u]]
    /\ \A u \in Tasks : u \notin {t, c} => Spawned(t, c)[u] = task[u]
    /\ TaskOK(t, Spawned(t, c)[t], h, vis, ds, rs) /\ TaskOK(c, Spawned(t, c)[c], h, vis, ds, rs)

LEMMA SpawnedFits ==
    ASSUME SessionInv, NEW t \in Tasks, NEW c \in Connections, NEW ds, NEW rs,
           ds[c].state # "unused", task[t].gen = generation => ds[c].visibility = visibility
    PROVE  SpawnedOK(t, c, generation, visibility, ds, rs)
<1>1. c \in Tasks
  BY DEF Tasks
<1>2. PICK me, g, v, cs, ss, place, you, reader :
        /\ me = task[t] /\ g = generation /\ v = visibility /\ cs = conn /\ ss = subscriptions
        /\ place = "notify" /\ you = [me EXCEPT !.pc = place]
        /\ reader = [At("reading") EXCEPT !.gen = me.gen]
  OBVIOUS
<1>3. /\ g \in Nat /\ g >= g /\ TaskOK(t, me, g, v, cs, ss)
      /\ place \notin {"connecting", "resubscribing", "reading", "sending"}
  BY <1>2, AtTask
<1>4. TaskOK(t, you, g, v, ds, rs)
  BY <1>2, <1>3, MovedOK
<1>5. TaskOK(c, reader, g, v, ds, rs)
  <2>1. TaskShape(reader) /\ reader.gen = me.gen /\ reader.pc = "reading" /\ reader.next = "connect"
    BY <1>2 DEF At, TaskShape
  <2>2. me.gen \in Nat /\ me.gen <= g
    BY <1>3 DEF TaskOK
  <2> QED BY <1>2, <2>1, <2>2 DEF TaskOK
<1>6. PICK ts : ts = Spawned(t, c)
  OBVIOUS
<1>7. /\ ts = [u \in Tasks |-> ts[u]] /\ ts[c] = reader /\ (t # c => ts[t] = you)
      /\ \A u \in Tasks : u \notin {t, c} => ts[u] = task[u]
  <2>1. task = [u \in Tasks |-> task[u]]
    BY AtTask
  <2> QED BY <1>1, <1>2, <1>6, <2>1 DEF Spawned
<1>8. TaskOK(t, ts[t], g, v, ds, rs) /\ TaskOK(c, ts[c], g, v, ds, rs)
  <2>1. CASE t = c
    BY <1>5, <1>7, <2>1
  <2>2. CASE t # c
    BY <1>4, <1>5, <1>7, <2>2
  <2> QED BY <2>1, <2>2
<1> QED BY <1>2, <1>6, <1>7, <1>8 DEF SpawnedOK

LEMMA ResubscribeKeeps == ASSUME SessionInv, NEW t \in Tasks, Resubscribe(t) PROVE SessionInv'
<1>1. PICK c : c = task[t].conn
  OBVIOUS
<1>2. /\ task[t].pc = "resubscribing" /\ task' = Spawned(t, c)
      /\ UNCHANGED <<wanted, generation, upstream, label, conn>>
  BY <1>1 DEF Resubscribe
<1>3. /\ c \in Connections /\ conn[c].state # "unused"
      /\ task[t].gen = generation => conn[c].visibility = visibility
  BY <1>1, <1>2, AtTask DEF TaskOK
<1>4. PICK ds, rs : ds = conn /\ rs = subscriptions
  OBVIOUS
<1>5. SpawnedOK(t, c, generation, visibility, ds, rs)
  BY <1>3, <1>4, SpawnedFits
<1>6. /\ LabelGoesOn /\ GenerationOn /\ upstream' \in {upstream, None}
      /\ subscriptions' \subseteq subscriptions
  BY <1>2, SameLabel, SameGeneration DEF wanted
<1>7. \A u \in Tasks : SendsOn(u)
  BY <1>2, <1>6, SendsGoOn
<1>8. /\ task' = [u \in Tasks |-> task'[u]]
      /\ \A u \in Tasks : (Elsewhere(u) /\ SendsOn(u)) \/ TaskOKNext(u)
  BY <1>2, <1>4, <1>5, <1>7 DEF SpawnedOK, Elsewhere, TaskOKNext, wanted
<1> QED BY <1>2, <1>6, <1>8, StepKept

\* A new connection: no task or frame had it, and the id is its own.
LEMMA OpenKeeps == ASSUME SessionInv, NEW t \in Tasks, OpenUpstream(t) PROVE SessionInv'
<1>1. PICK c, subs :
        /\ c \in Connections /\ conn[c].state = "unused"
        /\ conn' = [conn EXCEPT ![c] = [state |-> "open", visibility |-> task[t].visibility,
                                        subs |-> subs]]
        /\ upstream' = c /\ connectionId' = c /\ sequence' = 0
        /\ \/ task' = [task EXCEPT ![t].pc = "resubscribing", ![t].conn = c]
           \/ task' = Spawned(t, c)
  BY DEF OpenUpstream, Relabel
<1>2. task[t].pc = "connecting" /\ UNCHANGED <<wanted, generation, frame>>
  BY DEF OpenUpstream
<1>3. /\ conn' = [d \in Connections |-> conn'[d]]
      /\ conn'[c].state = "open" /\ conn'[c].visibility = task[t].visibility
      /\ \A d \in Connections : ConnShape(conn'[d]) /\ (d # c => conn'[d] = conn[d])
  <2>1. /\ conn = [d \in Connections |-> conn[d]]
        /\ \A d \in Connections : ConnShape(conn[d])
    BY DEF SessionInv, SessionShape
  <2>2. conn' = [d \in Connections |-> conn'[d]] /\ \A d \in Connections : d # c => conn'[d] = conn[d]
    BY <1>1, <2>1
  <2>3. conn'[c] = [state |-> "open", visibility |-> task[t].visibility, subs |-> subs]
    BY <1>1, <2>1
  <2> QED BY <2>1, <2>2, <2>3 DEF ConnShape
<1>4. ConnsGoOn(conn, conn')
  BY <1>1, <1>3 DEF ConnsGoOn
<1>5. GenerationOn
  BY <1>2, SameGeneration DEF wanted
<1>6. task[t].gen = generation => conn'[c].visibility = visibility
  BY <1>2, <1>3, AtTask DEF TaskOK
<1>7. \A u \in Tasks : SendsOn(u)
  <2> SUFFICES ASSUME NEW u \in Tasks, task[u].pc = "sending" PROVE SendsOn(u)
    BY DEF SendsOn
  <2>1. task[u].conn \in Connections /\ task[u].conn # c
    BY <1>1, AtTask DEF TaskOK
  <2>2. conn'[task[u].conn] = conn[task[u].conn]
    BY <1>3, <2>1
  <2> QED BY <1>2, <2>2 DEF SendsOn, wanted
<1>8. PICK ds, rs : ds = conn' /\ rs = subscriptions
  OBVIOUS
<1>9. /\ task' = [u \in Tasks |-> task'[u]]
      /\ \A u \in Tasks : (Elsewhere(u) /\ SendsOn(u)) \/ TaskOKNext(u)
  <2>1. CASE task' = Spawned(t, c)
    <3>1. SpawnedOK(t, c, generation, visibility, ds, rs)
      BY <1>1, <1>3, <1>6, <1>8, SpawnedFits
    <3> QED BY <1>2, <1>7, <1>8, <2>1, <3>1 DEF SpawnedOK, Elsewhere, TaskOKNext, wanted
  <2>2. CASE task' = [task EXCEPT ![t].pc = "resubscribing", ![t].conn = c]
    <3>1. PICK me, you : me = task[t] /\ you = [me EXCEPT !.pc = "resubscribing", !.conn = c]
      OBVIOUS
    <3>2. task = [u \in Tasks |-> task[u]]
      BY AtTask
    <3>3. task' = [task EXCEPT ![t] = you]
      BY <2>2, <3>1, <3>2
    <3>4. TaskShape(me) /\ me.gen \in Nat /\ me.gen <= generation /\ me.next \in {"connect", "over", "done"}
      BY <3>1, AtTask DEF TaskOK
    <3>5. /\ TaskShape(you) /\ you.gen = me.gen /\ you.next = me.next /\ you.pc = "resubscribing"
          /\ you.conn = c
      BY <3>1, <3>4 DEF TaskShape
    <3>6. TaskOK(t, you, generation, visibility, ds, rs)
      BY <1>1, <1>3, <1>6, <1>8, <3>1, <3>4, <3>5 DEF TaskOK
    <3> QED BY <1>2, <1>7, <1>8, <3>3, <3>6, OneTask DEF TaskOKNext, wanted
  <2> QED BY <1>1, <2>1, <2>2
<1>10. \A u \in Tasks : TaskOKNext(u)
  BY <1>4, <1>5, <1>9, TasksKept
<1>11. LabelOK(upstream, connectionId, sequence, frame, conn)'
  <2>1. LabelOK(upstream, connectionId, sequence, frame, conn)
    BY DEF SessionInv
  <2>2. frame # None => frame.id # c
    BY <1>1, <2>1 DEF LabelOK
  <2>3. frame # None /\ frame.id \in Connections => conn'[frame.id].state # "unused"
    BY <1>4, <2>1 DEF LabelOK, ConnsGoOn
  <2> QED BY <1>1, <1>2, <1>3, <2>1, <2>2, <2>3 DEF LabelOK
<1>12. SessionShape'
  <2>1. \A u \in Tasks : TaskShape(task'[u])
    BY <1>10 DEF TaskOKNext, TaskOK
  <2> QED BY <1>1, <1>3, <1>5, <1>9, <2>1 DEF SessionShape, GenerationOn
<1> QED BY <1>10, <1>11, <1>12 DEF SessionInv, TaskOKNext

LEMMA SessionStarts == ASSUME SessionInit PROVE SessionInv
<1>1. /\ task = [t \in Tasks |-> At(IF t = Relay THEN "receive" ELSE "none")] /\ generation = 0
      /\ upstream = None /\ connectionId = None /\ sequence = 0 /\ frame = None
  BY DEF SessionInit
<1>2. PICK opens \in SUBSET Connections :
        conn = [c \in Connections |-> [state |-> IF c \in opens THEN "unused" ELSE "closed",
                                       visibility |-> None, subs |-> {}]]
  BY SessionConstants DEF SessionInit
<1>3. ASSUME NEW t \in Tasks PROVE TaskOK(t, task[t], generation, visibility, conn, subscriptions)
  <2>1. PICK place, g, v, cs, ss : /\ place = IF t = Relay THEN "receive" ELSE "none"
                                /\ g = generation /\ v = visibility /\ cs = conn /\ ss = subscriptions
    OBVIOUS
  <2>2. g \in Nat /\ place \notin {"connecting", "resubscribing", "reading", "sending"}
    BY <1>1, <2>1
  <2>3. TaskOK(t, At(place), g, v, cs, ss)
    BY <2>2, RestingOK
  <2> QED BY <1>1, <2>1, <2>3
<1>4. SessionShape
  <2>1. \A t \in Tasks : TaskShape(task[t])
    BY <1>3 DEF TaskOK
  <2>2. conn = [c \in Connections |-> conn[c]] /\ \A c \in Connections : ConnShape(conn[c])
    BY <1>2 DEF ConnShape
  <2> QED BY <1>1, <2>1, <2>2 DEF SessionShape
<1> QED BY <1>1, <1>3, <1>4 DEF SessionInv, LabelOK

LEMMA SessionStep == ASSUME SessionInv, [SessionNext]_sessionVars PROVE SessionInv'
<1>1. CASE UNCHANGED sessionVars \/ Disconnect
  BY <1>1, StandsKeeps DEF sessionVars, Disconnect
<1>2. ASSUME NEW t \in Tasks, TaskStep(t) PROVE SessionInv'
  BY <1>2, JoinKeeps, CloseOldKeeps, OpenKeeps, OpenFailsKeeps, ResubscribeKeeps, SendKeeps,
     NotifyKeeps, AnnounceKeeps DEF TaskStep
<1>3. ASSUME NEW r \in Connections, Read(r) \/ Forward(r) \/ Lose(r) PROVE SessionInv'
  BY <1>3, EndCancelledKeeps, EndReadKeeps, WakeKeeps, GiveUpKeeps, ForwardKeeps, LoseKeeps DEF Read
<1>4. CASE Ask
  BY <1>4, ConnectKeeps, MovingControlsKeep, SendingControlsKeep DEF Ask
<1>5. CASE HangUp
  BY <1>5, HangUpKeeps
<1> QED BY <1>1, <1>2, <1>3, <1>4, <1>5 DEF SessionNext

\* Only a reader that forwards writes a frame.
LEMMA OnlyForwardWrites ==
    ASSUME [SessionNext]_sessionVars, frame' # frame
    PROVE  \E r \in Connections : Forward(r)
<1>1. ~UNCHANGED label
  BY DEF label
<1>2. ~UNCHANGED sessionVars /\ ~Disconnect /\ ~HangUp
  BY <1>1 DEF sessionVars, Disconnect, HangUp
<1>3. ASSUME NEW t \in Tasks PROVE ~TaskStep(t)
  BY <1>1 DEF TaskStep, Join, CloseOld, OpenUpstream, OpenFails, Resubscribe, Send, SendFails,
     Notify, Announce
<1>4. ASSUME NEW r \in Connections PROVE ~Read(r) /\ ~Lose(r)
  BY <1>1 DEF Read, EndCancelled, EndRead, Wake, GiveUp, Lose
<1>5. ~Ask
  BY <1>1 DEF Ask, ConnectControl, Subscribe, Unsubscribe, PauseControl, Reconnect, List
<1> QED BY <1>2, <1>3, <1>4, <1>5 DEF SessionNext

LEMMA LabelsRight ==
    ASSUME SessionInv, [SessionNext]_sessionVars, frame' # frame
    PROVE  /\ frame'.from = upstream =>
                /\ frame'.id = upstream
                /\ StillServes(upstream) => frame'.visibility = conn[upstream].visibility
           /\ frame # None /\ frame'.id = frame.id => frame'.seq > frame.seq
<1>1. PICK r \in Connections : Forward(r)
  BY OnlyForwardWrites
<1>2. /\ frame' = [from |-> r, id |-> connectionId, visibility |-> visibility, seq |-> sequence + 1]
      /\ task[r].pc = "reading"
  BY <1>1 DEF Forward
<1>3. /\ frame'.from = r /\ frame'.id = connectionId /\ frame'.visibility = visibility
      /\ frame'.seq = sequence + 1
  BY <1>2
<1>4. LabelOK(upstream, connectionId, sequence, frame, conn) /\ sequence \in Nat
      /\ r # None
  BY SessionConstants DEF SessionInv, SessionShape
<1>5. frame'.from = upstream => frame'.id = upstream
  BY <1>3, <1>4 DEF LabelOK
<1>6. task[r].gen = generation => conn[r].visibility = visibility
  <2>1. r \in Tasks
    BY DEF Tasks
  <2> QED BY <1>2, <2>1, AtTask DEF TaskOK
<1>7. frame'.from = upstream /\ StillServes(upstream) =>
        frame'.visibility = conn[upstream].visibility
  BY <1>3, <1>6 DEF StillServes
<1>8. frame # None /\ frame'.id = frame.id => frame'.seq > frame.seq
  BY <1>3, <1>4 DEF LabelOK
<1> QED BY <1>5, <1>7, <1>8

\* Frames can be told apart: one read from the session's upstream carries that
\* connection's id, and its visibility as long as its reader serves the
\* session; two frames of the same id have growing numbers.
\* (_read_upstream's envelope, websocket_session.py)
THEOREM FramesAreLabelled == SessionSpec => FrameLabels
<1>1. SessionInv /\ [SessionNext]_sessionVars => SessionInv'
  BY SessionStep
<1>2. SessionInv /\ [SessionNext]_sessionVars
      => [frame' # frame =>
            /\ frame'.from = upstream =>
                 /\ frame'.id = upstream
                 /\ StillServes(upstream) => frame'.visibility = conn[upstream].visibility
            /\ frame # None /\ frame'.id = frame.id => frame'.seq > frame.seq]_sessionVars
  BY LabelsRight
<1> QED BY <1>1, <1>2, SessionStarts, PTL DEF SessionSpec, FrameLabels

\* What a step does to the subscriptions of a connection that is in use.
LEMMA SubscriptionsStay ==
    ASSUME SessionInv, [SessionNext]_sessionVars, NEW c \in Connections, upstream = c
    PROVE  conn[c].subs \cap subscriptions \subseteq conn'[c].subs
<1>1. conn[c].state # "unused" /\ conn = [d \in Connections |-> conn[d]]
  BY SessionConstants DEF SessionInv, SessionShape, LabelOK
<1>2. CASE UNCHANGED conn
  BY <1>2
<1>3. ASSUME NEW t \in Tasks, CloseOld(t) PROVE conn[c].subs \subseteq conn'[c].subs
  <2>1. PICK d, state : d = task[t].conn /\ state = "closed" /\ state # "unused"
    OBVIOUS
  <2>2. conn' = [conn EXCEPT ![d].state = state]
    BY <1>3, <2>1 DEF CloseOld
  <2>3. conn'[c].subs = conn[c].subs
    BY <2>1, <2>2, ConnEnds
  <2> QED BY <2>3
<1>4. ASSUME NEW d \in Connections, Lose(d) PROVE conn[c].subs \subseteq conn'[c].subs
  <2>1. PICK state : state = "lost" /\ state # "unused"
    OBVIOUS
  <2>2. conn' = [conn EXCEPT ![d].state = state]
    BY <1>4, <2>1 DEF Lose
  <2>3. conn'[c].subs = conn[c].subs
    BY <2>1, <2>2, ConnEnds
  <2> QED BY <2>3
<1>5. ASSUME NEW t \in Tasks, OpenUpstream(t) PROVE conn[c].subs \subseteq conn'[c].subs
  <2>1. PICK d, opened : d \in Connections /\ conn[d].state = "unused" /\ conn' = [conn EXCEPT ![d] = opened]
    BY <1>5 DEF OpenUpstream
  <2>2. conn'[c] = conn[c]
    BY <1>1, <2>1
  <2> QED BY <2>2
<1>6. ASSUME NEW t \in Tasks, Send(t)
      PROVE  conn[c].subs \cap subscriptions \subseteq conn'[c].subs
  <2>1. PICK d, sends : d = task[t].conn /\ sends = task[t].sends
    OBVIOUS
  <2>2. conn' = [conn EXCEPT ![d].subs = sends] /\ task[t].pc = "sending"
    BY <1>6, <2>1 DEF Send
  <2>3. conn[d].subs \cap subscriptions \subseteq sends
    BY <2>1, <2>2, AtTask DEF TaskOK
  <2>4. CASE c # d
    BY <1>1, <2>2, <2>4
  <2>5. CASE c = d
    <3>1. ConnShape(conn[c])
      BY DEF SessionInv, SessionShape
    <3>2. conn'[c].subs = sends
      BY <1>1, <2>2, <2>5, <3>1 DEF ConnShape
    <3> QED BY <2>3, <2>5, <3>2
  <2> QED BY <2>4, <2>5
<1>7. CASE UNCHANGED sessionVars \/ Disconnect \/ HangUp
  BY <1>2, <1>7 DEF sessionVars, Disconnect, HangUp
<1>8. ASSUME NEW t \in Tasks, TaskStep(t)
      PROVE  conn[c].subs \cap subscriptions \subseteq conn'[c].subs
  BY <1>2, <1>3, <1>5, <1>6, <1>8 DEF TaskStep, Join, OpenFails, Resubscribe, SendFails,
     Notify, Announce
<1>9. ASSUME NEW r \in Connections, Read(r) \/ Forward(r) \/ Lose(r)
      PROVE  conn[c].subs \cap subscriptions \subseteq conn'[c].subs
  BY <1>2, <1>4, <1>9 DEF Read, EndCancelled, EndRead, Wake, GiveUp, Forward
<1>10. CASE Ask
  BY <1>2, <1>10 DEF Ask, ConnectControl, Subscribe, Unsubscribe, PauseControl, Reconnect, List
<1> QED BY <1>7, <1>8, <1>9, <1>10 DEF SessionNext

\* No request that a task sends, at whatever moment the limiter lets it go,
\* takes from the upstream a stream that it has and the client still wants.
\* (_subscribe, _list and _send_upstream, websocket_session.py)
THEOREM NoStreamIsDropped == SessionSpec => NothingDropped
<1>1. SessionInv /\ [SessionNext]_sessionVars => SessionInv'
  BY SessionStep
<1>2. SessionInv /\ [SessionNext]_sessionVars
      => [\A c \in Connections :
            upstream = c => conn[c].subs \cap subscriptions \subseteq conn'[c].subs]_sessionVars
  BY SubscriptionsStay
<1> QED BY <1>1, <1>2, SessionStarts, PTL DEF SessionSpec, NothingDropped
=============================================================================
