---------------------------- MODULE SeriesProofs ----------------------------
(***************************************************************************)
(* Proofs about the series computed from stored candles.                   *)
(*                                                                         *)
(* IndicatorQueue: the pages of one reading add up to the series as it     *)
(* stood when its ceiling was taken (PagesAgree), for every set of         *)
(* workers, every plan of writes and every page size.                      *)
(*                                                                         *)
(* Rollups: once the recompute jobs are drained, the row a reader is       *)
(* served of a bucket names a frontier as new as every revision and every  *)
(* quality event of the bucket (SettledFrontier).  The inductive invariant *)
(* says it of every state: among the rows of a bucket and the jobs that    *)
(* have yet to write one, some claim is as new as the bucket, and none is  *)
(* newer than it.  That row also has the value: where nothing raced, it is *)
(* the aggregate of the candles and the coverage stored                    *)
(* (SettledRollupIsCurrent), since a claim that covers its bucket was      *)
(* computed, or will be, from what the store holds now.                    *)
(***************************************************************************)
EXTENDS IndicatorQueue, Rollups, FiniteSums

----------------------------------------------------------------------------
(* Numbers *)

(* Of finite sets, the smaller one has no more elements. *)
LEMMA NoMore ==
    ASSUME NEW S, IsFiniteSet(S), NEW T, T \subseteq S
    PROVE  IsFiniteSet(T) /\ Cardinality(T) \in Nat /\ Cardinality(S) \in Nat
           /\ Cardinality(T) <= Cardinality(S)
BY FS_Subset, FS_CardinalityType

----------------------------------------------------------------------------
(* The points of a chunk, in the order of their slots *)

\* A chunk: finitely many candles, one of a slot at the most.
ChunkOK(chunk) ==
    /\ IsFiniteSet(chunk)
    /\ \A c \in chunk : c[1] \in Slots
    /\ \A c, d \in chunk : c[1] = d[1] => c = d

\* Points of different slots.
Apart(ps) ==
    /\ IsFiniteSet(ps)
    /\ \A p \in ps : p.slot \in Slots
    /\ \A p, q \in ps : p.slot = q.slot => p = q

(* BySlot gives every place of the list a point of the set. *)
LEMMA BySlotLists ==
    ASSUME NEW ps, Apart(ps)
    PROVE  /\ BySlot(ps) \in Seq(ps)
           /\ \A k \in DOMAIN BySlot(ps) : BySlot(ps)[k].slot \in Slots
<1> DEFINE R == {pq \in ps \X ps : pq[1].slot < pq[2].slot}
           below(p) == {q \in ps : q.slot < p.slot}
           pick(k) == CHOOSE p \in ps : Cardinality(below(p)) = k - 1
<1>1. /\ IsFiniteSet(ps) /\ \A p \in ps : p.slot \in Nat
      /\ \A p, q \in ps : p.slot = q.slot => p = q
  BY BoundsAssumption DEF Apart, Slots
<1>2. /\ \A i \in ps : <<i, i>> \notin R
      /\ \A i, j, k \in ps : <<i, j>> \in R /\ <<j, k>> \in R => <<i, k>> \in R
      /\ \A i, j \in ps : i # j => <<i, j>> \in R \/ <<j, i>> \in R
  BY <1>1
<1>3. \A m \in 1..Cardinality(ps) : \E p \in ps : Place(ps, R, p) = m
  <2> HIDE DEF R
  <2> QED BY <1>1, <1>2, RankIsBijection
<1>4. \A p \in ps : below(p) = {q \in ps : <<q, p>> \in R}
  OBVIOUS
<1>5. \A p \in ps : Cardinality(below(p)) \in Nat
  BY <1>1, NoMore
<1>6. \A k \in 1..Cardinality(ps) : \E p \in ps : Cardinality(below(p)) = k - 1
  <2> TAKE k \in 1..Cardinality(ps)
  <2>1. PICK p \in ps : Place(ps, R, p) = k
    BY <1>3
  <2>2. PICK n : n = Cardinality(below(p))
    OBVIOUS
  <2>3. n \in Nat
    BY <1>5, <2>2
  <2>4. k = n + 1
    BY <2>1, <2>2, <1>4 DEF Place
  <2>5. n = k - 1
    BY <2>3, <2>4
  <2> QED BY <2>2, <2>5
<1>7. \A k \in 1..Cardinality(ps) : pick(k) \in ps
  <2> HIDE DEF below
  <2> QED BY <1>6
<1>8. BySlot(ps) = [k \in 1..Cardinality(ps) |-> pick(k)]
  BY DEF BySlot
<1>9. Cardinality(ps) \in Nat
  BY <1>1, FS_CardinalityType
<1> HIDE DEF pick
<1>10. BySlot(ps) \in Seq(ps)
  BY <1>7, <1>8, <1>9
<1>11. \A k \in DOMAIN BySlot(ps) : BySlot(ps)[k] \in ps
  BY <1>7, <1>8
<1> QED BY <1>10, <1>11 DEF Apart

----------------------------------------------------------------------------
(* The invariant *)

\* A worker's record has its six fields.
Whole(r) == r = [pc |-> r.pc, batch |-> r.batch, fresh |-> r.fresh, state |-> r.state,
                 chunk |-> r.chunk, next |-> r.next]

\* Every worker has a record of its own, and the chunk in it is one.
WorkersOK(wk) ==
    /\ wk = [w \in Workers |-> wk[w]]
    /\ \A w \in Workers : Whole(wk[w]) /\ ChunkOK(wk[w].chunk)

\* The materialised points are a sequence, each of a slot of the series.
PointsOK(ps) ==
    /\ ps \in Seq({ps[i] : i \in DOMAIN ps})
    /\ \A i \in DOMAIN ps : ps[i].slot \in Slots

\* Projected, of any sequence of points.
KeyIn(ps, i) == <<ps[i].frontier.source, ps[i].frontier.quality, ps[i].frontier.known, i>>
BetterIn(ps, i, j) == i = j \/ After(KeyIn(ps, i), KeyIn(ps, j))
ReadableIn(ps, ceiling, asOf) == {i \in 1..ceiling : ps[i].frontier.known <= asOf}
ProjectedIn(ps, ceiling, asOf) ==
    {i \in ReadableIn(ps, ceiling, asOf) :
        \A j \in ReadableIn(ps, ceiling, asOf) : ps[j].slot = ps[i].slot => BetterIn(ps, i, j)}

\* What a reading has to give, and has given up to the slot it is at.
DueIn(ps, ceiling, asOf) == {ps[i] : i \in ProjectedIn(ps, ceiling, asOf)}
GivenIn(ps, ceiling, asOf, after) ==
    {ps[i] : i \in {j \in ProjectedIn(ps, ceiling, asOf) : ps[j].slot <= after}}

\* The reading stands on the points up to its ceiling, and has everything of
\* them up to its cursor.
ReaderOK(rd, ps) ==
    /\ rd = [asOf |-> rd.asOf, ceiling |-> rd.ceiling, after |-> rd.after, got |-> rd.got,
              due |-> rd.due]
    /\ rd.ceiling \in 0..Len(ps)
    /\ rd.after \in Nat
    /\ rd.ceiling # 0 => /\ rd.due = DueIn(ps, rd.ceiling, rd.asOf)
                         /\ rd.got = GivenIn(ps, rd.ceiling, rd.asOf, rd.after)

ReadingInv == WorkersOK(worker) /\ PointsOK(points) /\ ReaderOK(reader, points)

LEMMA ProjectedHere == \A c, t : Projected(c, t) = ProjectedIn(points, c, t)
BY DEF Projected, ProjectedIn, Readable, ReadableIn, Better, BetterIn, PointKey, KeyIn

(* A reading that has nothing left to read has everything: PagesAgree. *)
LEMMA ReadingInvAgrees == ReadingInv => PagesAgree
<1> SUFFICES ASSUME ReadingInv, reader.ceiling # 0, Page = {} PROVE reader.got = reader.due
  BY DEF PagesAgree
<1> DEFINE c == reader.ceiling
           P == ProjectedIn(points, c, reader.asOf)
<1>1. c \in 1..Len(points) /\ reader.after \in Nat /\ Len(points) \in Nat
      /\ DOMAIN points = 1..Len(points)
  BY DEF ReadingInv, ReaderOK, PointsOK
<1>2. P \subseteq DOMAIN points
  BY <1>1 DEF ProjectedIn, ReadableIn
<1>3. \A i \in P : points[i].slot \in Nat
  BY <1>2, BoundsAssumption DEF ReadingInv, PointsOK, Slots
<1>4. \A i \in P : ~(points[i].slot > reader.after)
  BY ProjectedHere DEF Page
<1>5. {j \in P : points[j].slot <= reader.after} = P
  <2> HIDE DEF P
  <2> QED BY <1>1, <1>3, <1>4
<1>6. reader.due = {points[i] : i \in P}
      /\ reader.got = {points[i] : i \in {j \in P : points[j].slot <= reader.after}}
  BY DEF ReadingInv, ReaderOK, DueIn, GivenIn
<1> HIDE DEF P
<1> QED BY <1>5, <1>6

LEMMA InitReadingInv == Init => ReadingInv
<1> SUFFICES ASSUME Init PROVE ReadingInv
  OBVIOUS
<1>1. WorkersOK(worker)
  <2>1. ChunkOK({})
    BY FS_EmptySet DEF ChunkOK
  <2>2. worker = [w \in Workers |-> Idle]
    BY DEF Init
  <2> QED BY <2>1, <2>2 DEF WorkersOK, Idle, Whole
<1>2. PointsOK(points)
  BY DEF Init, PointsOK
<1>3. ReaderOK(reader, points)
  BY DEF Init, ReaderOK, NoReading
<1> QED BY <1>1, <1>2, <1>3 DEF ReadingInv

----------------------------------------------------------------------------
(* The points are only added to *)

\* ps is the beginning of qs.
Begins(ps, qs) ==
    /\ Len(ps) <= Len(qs)
    /\ \A i \in 1..Len(ps) : qs[i] = ps[i]

(* What a reading stands on is not disturbed by points that come later. *)
LEMMA ReaderUndisturbed ==
    ASSUME NEW ps, PointsOK(ps), NEW qs, PointsOK(qs), Begins(ps, qs), NEW rd, ReaderOK(rd, ps)
    PROVE  ReaderOK(rd, qs)
<1>1. Len(ps) \in Nat /\ Len(qs) \in Nat /\ Len(ps) <= Len(qs)
  BY DEF PointsOK, Begins
<1>2. rd.ceiling \in 0..Len(qs)
  BY <1>1 DEF ReaderOK
<1>3. \A i \in 1..rd.ceiling : qs[i] = ps[i]
  BY <1>1 DEF ReaderOK, Begins
<1> DEFINE c == rd.ceiling
           t == rd.asOf
<1>4. ProjectedIn(qs, c, t) = ProjectedIn(ps, c, t)
  <2>1. \A i \in 1..c : KeyIn(qs, i) = KeyIn(ps, i)
    BY <1>3 DEF KeyIn
  <2>2. \A i, j \in 1..c : BetterIn(qs, i, j) <=> BetterIn(ps, i, j)
    BY <2>1 DEF BetterIn
  <2>3. ReadableIn(qs, c, t) = ReadableIn(ps, c, t) /\ ReadableIn(ps, c, t) \subseteq 1..c
    BY <1>3 DEF ReadableIn
  <2>4. \A i \in ReadableIn(ps, c, t) : i \in 1..c
    BY <2>3
  <2> HIDE DEF c, t
  <2> QED BY <1>3, <2>2, <2>3, <2>4 DEF ProjectedIn, c
<1>5. \A i \in ProjectedIn(ps, c, t) : qs[i] = ps[i]
  BY <1>3 DEF ProjectedIn, ReadableIn
<1>6. DueIn(qs, c, t) = DueIn(ps, c, t)
  BY <1>4, <1>5 DEF DueIn
<1>7. GivenIn(qs, c, t, rd.after) = GivenIn(ps, c, t, rd.after)
  BY <1>4, <1>5 DEF GivenIn
<1> QED BY <1>2, <1>6, <1>7 DEF ReaderOK

----------------------------------------------------------------------------
(* What the steps do to the workers *)

LEMMA WorkerChange ==
    ASSUME NEW wk, WorkersOK(wk), NEW w \in Workers, NEW nk,
           nk = [v \in Workers |-> nk[v]],
           \A v \in Workers : v # w => nk[v] = wk[v],
           Whole(nk[w]), ChunkOK(nk[w].chunk)
    PROVE  WorkersOK(nk)
BY DEF WorkersOK

LEMMA IdleIsWhole == Whole(Idle) /\ ChunkOK(Idle.chunk)
BY FS_EmptySet DEF ChunkOK, Whole, Idle

(* A worker forgets what it had read. *)
LEMMA WorkerForgets ==
    ASSUME WorkersOK(worker), NEW w \in Workers, NEW pc, NEW b,
           worker' = [worker EXCEPT ![w] = [Idle EXCEPT !.pc = pc, !.batch = b]]
    PROVE  WorkersOK(worker')
<1>1. PICK r : r = [Idle EXCEPT !.pc = pc, !.batch = b]
  OBVIOUS
<1>2. Whole(r) /\ ChunkOK(r.chunk)
  <2>1. r.chunk = Idle.chunk /\ Whole(r)
    BY <1>1 DEF Idle, Whole
  <2> QED BY <2>1, IdleIsWhole
<1>3. worker = [v \in Workers |-> worker[v]]
  BY DEF WorkersOK
<1>4. PICK nk : nk = worker'
  OBVIOUS
<1>5. nk = [v \in Workers |-> nk[v]] /\ nk[w] = r /\ \A v \in Workers : v # w => nk[v] = worker[v]
  BY <1>1, <1>3, <1>4
<1>6. WorkersOK(nk)
  BY <1>2, <1>5, WorkerChange
<1> QED BY <1>4, <1>6

LEMMA WorkerIdles ==
    ASSUME WorkersOK(worker), NEW w \in Workers, Leave(w)
    PROVE  WorkersOK(worker')
<1>1. worker = [v \in Workers |-> worker[v]] /\ worker' = [worker EXCEPT ![w] = Idle]
  BY DEF WorkersOK, Leave
<1>2. PICK nk : nk = worker'
  OBVIOUS
<1>3. nk = [v \in Workers |-> nk[v]] /\ nk[w] = Idle /\ \A v \in Workers : v # w => nk[v] = worker[v]
  BY <1>1, <1>2
<1>4. WorkersOK(nk)
  BY <1>3, IdleIsWhole, WorkerChange
<1> QED BY <1>2, <1>4

(* A worker goes on with the chunk it has. *)
LEMMA WorkerGoesOn ==
    ASSUME WorkersOK(worker), NEW w \in Workers,
           \/ worker' = [worker EXCEPT ![w].pc = "locked"]
           \/ worker' = [worker EXCEPT ![w].pc = "fenced", ![w].fresh = TRUE]
           \/ worker' = [worker EXCEPT ![w].fresh = FALSE]
    PROVE  WorkersOK(worker')
<1>1. worker = [v \in Workers |-> worker[v]] /\ Whole(worker[w]) /\ ChunkOK(worker[w].chunk)
  BY DEF WorkersOK
<1>2. PICK nk : nk = worker'
  OBVIOUS
<1>3. nk = [v \in Workers |-> nk[v]] /\ \A v \in Workers : v # w => nk[v] = worker[v]
  BY <1>1, <1>2
<1>4. PICK r : r = worker[w]
  OBVIOUS
<1>5. \/ nk[w] = [r EXCEPT !.pc = "locked"]
      \/ nk[w] = [[r EXCEPT !.pc = "fenced"] EXCEPT !.fresh = TRUE]
      \/ nk[w] = [r EXCEPT !.fresh = FALSE]
  BY <1>1, <1>2, <1>4
<1>6. PICK n : n = nk[w]
  OBVIOUS
<1>7. Whole(n) /\ n.chunk = r.chunk
  BY <1>1, <1>4, <1>5, <1>6 DEF Whole
<1>8. WorkersOK(nk)
  BY <1>1, <1>3, <1>4, <1>6, <1>7, WorkerChange
<1> QED BY <1>2, <1>8

(* Candles: finitely many, one of a slot. *)
LEMMA CandlesOK == \A f : ChunkOK(Candles(f))
<1> SUFFICES ASSUME NEW f PROVE ChunkOK(Candles(f))
  OBVIOUS
<1> DEFINE S == {t \in Slots : Known(t, f) # {}}
           row(s) == RowOf(s, f)
           g == [s \in S |-> <<s, row(s), Judged(row(s), f)>>]
<1>1. IsFiniteSet(Slots)
  BY BoundsAssumption, FS_Interval DEF Slots
<1>2. IsFiniteSet(S)
  BY <1>1, FS_Subset
<1>3. Candles(f) = {g[s] : s \in S}
  BY DEF Candles
<1>4. IsFiniteSet({g[s] : s \in S})
  <2> HIDE DEF g, S
  <2> QED BY <1>2, ImageFinite
<1>5. \A s \in S : g[s][1] = s /\ s \in Slots
  OBVIOUS
<1>6. \A c \in {g[s] : s \in S} : c[1] \in S /\ c = g[c[1]]
  <2> HIDE DEF g, S
  <2> QED BY <1>5
<1>7. \A c \in {g[s] : s \in S} : c[1] \in Slots
  BY <1>6
<1> HIDE DEF g, S
<1> QED BY <1>3, <1>4, <1>6, <1>7 DEF ChunkOK

LEMMA PartOfChunk ==
    ASSUME NEW C, ChunkOK(C), NEW D, D \subseteq C
    PROVE  ChunkOK(D)
BY FS_Subset DEF ChunkOK

(* A worker reads its candles. *)
LEMMA WorkerReads ==
    ASSUME WorkersOK(worker), NEW w \in Workers, Read(w)
    PROVE  WorkersOK(worker')
<1>1. PICK st, ck, nx :
        /\ ck \subseteq Candles(FrontierOf(w))
        /\ worker' = [worker EXCEPT ![w].pc = "read", ![w].state = st, ![w].chunk = ck,
                                    ![w].next = nx]
  <2>1. \A b, f : Window(b, f) \subseteq Candles(f)
    BY DEF Window
  <2>2. PICK state \in Checkpoints(Held(w), FrontierOf(w)) :
          LET use == Usable(state, EffectiveStart(Held(w)))
              begin == IF use THEN LastSlot(state) + 1 ELSE 1
              found == Window(begin, FrontierOf(w))
              chunk == {c \in found : Cardinality({d \in found : d[1] < c[1]}) < Chunk}
              later == Later(begin, FrontierOf(w), chunk)
          IN  worker' = [worker EXCEPT ![w].pc = "read",
                             ![w].state = IF use THEN state ELSE {},
                             ![w].chunk = chunk,
                             ![w].next = IF later = {} THEN 0 ELSE Min(later)]
    BY DEF Read
  <2>3. PICK b, st : /\ b = IF Usable(state, EffectiveStart(Held(w))) THEN LastSlot(state) + 1 ELSE 1
                     /\ st = IF Usable(state, EffectiveStart(Held(w))) THEN state ELSE {}
    OBVIOUS
  <2>4. PICK found, ck :
          /\ found = Window(b, FrontierOf(w))
          /\ ck = {c \in found : Cardinality({d \in found : d[1] < c[1]}) < Chunk}
    OBVIOUS
  <2>5. PICK nx : nx = IF Later(b, FrontierOf(w), ck) = {} THEN 0
                       ELSE Min(Later(b, FrontierOf(w), ck))
    OBVIOUS
  <2>6. ck \subseteq Candles(FrontierOf(w))
    BY <2>1, <2>4
  <2>7. worker' = [worker EXCEPT ![w].pc = "read", ![w].state = st, ![w].chunk = ck,
                                 ![w].next = nx]
    BY <2>2, <2>3, <2>4, <2>5
  <2> QED BY <2>6, <2>7
<1>2. ChunkOK(ck)
  BY <1>1, CandlesOK, PartOfChunk
<1>3. worker = [v \in Workers |-> worker[v]] /\ Whole(worker[w])
  BY DEF WorkersOK
<1>4. PICK nk : nk = worker'
  OBVIOUS
<1>5. nk = [v \in Workers |-> nk[v]] /\ \A v \in Workers : v # w => nk[v] = worker[v]
  BY <1>1, <1>3, <1>4
<1>6. PICK r : r = worker[w]
  OBVIOUS
<1>7. nk[w] = [[[[r EXCEPT !.pc = "read"] EXCEPT !.state = st] EXCEPT !.chunk = ck] EXCEPT !.next = nx]
  BY <1>1, <1>3, <1>4, <1>6
<1>8. PICK n : n = nk[w]
  OBVIOUS
<1>9. Whole(n) /\ n.chunk = ck
  BY <1>3, <1>6, <1>7, <1>8 DEF Whole
<1>10. WorkersOK(nk)
  BY <1>2, <1>5, <1>8, <1>9, WorkerChange
<1> QED BY <1>4, <1>10

----------------------------------------------------------------------------
(* The steps *)

(* Complete adds the chunk's points behind the others. *)
LEMMA CompleteAdds ==
    ASSUME WorkersOK(worker), PointsOK(points), NEW w \in Workers, Complete(w)
    PROVE  PointsOK(points') /\ Begins(points, points')
<1> DEFINE ck == worker[w].chunk
           pt == [c \in ck |-> ChunkPoint(w, c)]
<1>1. ChunkOK(ck)
  BY DEF WorkersOK
<1>2. \A c \in ck : pt[c].slot = c[1]
  BY DEF ChunkPoint
<1>3. {ChunkPoint(w, c) : c \in ck} = {pt[c] : c \in ck}
  OBVIOUS
<1>4. IsFiniteSet({pt[c] : c \in ck})
  <2> HIDE DEF pt, ck
  <2> QED BY <1>1, ImageFinite DEF ChunkOK
<1>5. PICK new : new = NewPoints(w)
  OBVIOUS
<1>6. new \subseteq {pt[c] : c \in ck}
  BY <1>3, <1>5 DEF NewPoints
<1>7. Apart(new)
  <2> HIDE DEF pt, ck
  <2>1. IsFiniteSet(new)
    BY <1>4, <1>6, FS_Subset
  <2>2. \A p \in new : \E c \in ck : p = pt[c]
    BY <1>6
  <2>3. \A p \in new : p.slot \in Slots
    BY <2>2, <1>1, <1>2 DEF ChunkOK
  <2>4. \A p, q \in new : p.slot = q.slot => p = q
    BY <2>2, <1>1, <1>2 DEF ChunkOK
  <2> QED BY <2>1, <2>3, <2>4 DEF Apart
<1>8. PICK add : add = BySlot(new)
  OBVIOUS
<1>9. add \in Seq(new) /\ \A k \in DOMAIN add : add[k].slot \in Slots
  BY <1>7, <1>8, BySlotLists
<1>10. PICK qs : qs = points \o add
  OBVIOUS
<1>11. points' = qs
  BY <1>5, <1>8, <1>10 DEF Complete
<1>12. PICK A : A = {points[i] : i \in DOMAIN points}
  OBVIOUS
<1>13. points \in Seq(A) /\ \A i \in DOMAIN points : points[i].slot \in Slots
  BY <1>12 DEF PointsOK
<1>14. points \in Seq(A \cup new) /\ add \in Seq(A \cup new)
  BY <1>9, <1>13
<1>15. /\ Len(points) \in Nat /\ Len(add) \in Nat
       /\ qs \in Seq(A \cup new) /\ Len(qs) = Len(points) + Len(add)
       /\ \A i \in 1..Len(points) : qs[i] = points[i]
       /\ \A i \in 1..Len(add) : qs[Len(points) + i] = add[i]
  BY <1>10, <1>14
<1>16. DOMAIN points = 1..Len(points) /\ DOMAIN add = 1..Len(add) /\ DOMAIN qs = 1..Len(qs)
  BY <1>14, <1>15
<1>17. Begins(points, qs)
  BY <1>15 DEF Begins
<1>18. \A i \in DOMAIN qs : qs[i].slot \in Slots
  <2> SUFFICES ASSUME NEW i \in 1..Len(qs) PROVE qs[i].slot \in Slots
    BY <1>16
  <2>1. CASE i <= Len(points)
    BY <2>1, <1>13, <1>15, <1>16
  <2>2. CASE i > Len(points)
    <3>1. PICK k \in 1..Len(add) : i = Len(points) + k
      <4>1. i - Len(points) \in 1..Len(add) /\ i = Len(points) + (i - Len(points))
        BY <2>2, <1>15
      <4> QED BY <4>1
    <3> QED BY <3>1, <1>9, <1>15, <1>16
  <2> QED BY <2>1, <2>2, <1>15
<1>19. qs \in Seq({qs[i] : i \in DOMAIN qs})
  <2>1. qs = [i \in 1..Len(qs) |-> qs[i]] /\ Len(qs) \in Nat
    BY <1>15
  <2>2. \A i \in 1..Len(qs) : qs[i] \in {qs[j] : j \in DOMAIN qs}
    BY <1>16
  <2> QED BY <2>1, <2>2
<1> QED BY <1>11, <1>17, <1>18, <1>19 DEF PointsOK

(* The reading opens with everything still to give. *)
LEMMA StartsReading ==
    ASSUME PointsOK(points), NEW t, StartReading(t)
    PROVE  ReaderOK(reader', points)
<1> DEFINE known == {i \in DOMAIN points : points[i].frontier.known <= t}
<1>1. PICK rd : rd = reader'
  OBVIOUS
<1>2. PICK n : n = Max(known)
  OBVIOUS
<1>3. Len(points) \in Nat /\ DOMAIN points = 1..Len(points)
  BY DEF PointsOK
<1>4. n \in 1..Len(points)
  <2>1. known \subseteq 1..Len(points) /\ known # {}
    BY <1>3 DEF StartReading
  <2>2. IsFiniteSet(1..Len(points))
    BY <1>3, FS_Interval
  <2> HIDE DEF known
  <2>3. IsFiniteSet(known) /\ known \in SUBSET Int
    <3>1. IsFiniteSet(known)
      BY <2>1, <2>2, FS_Subset
    <3>2. \A x \in 1..Len(points) : x \in Int
      BY <1>3
    <3>3. known \in SUBSET Int
      BY <2>1, <3>2
    <3> QED BY <3>1, <3>3
  <2>4. n \in known
    BY <1>2, <2>1, <2>3, MaxIn
  <2> QED BY <2>1, <2>4
<1>5. rd = [asOf |-> t, ceiling |-> n, after |-> 0, got |-> {}, due |-> DueIn(points, n, t)]
  BY <1>1, <1>2, ProjectedHere DEF StartReading, DueIn
<1>6. \A j \in ProjectedIn(points, n, t) : points[j].slot \in Nat \ {0}
  BY <1>3, <1>4, BoundsAssumption DEF ProjectedIn, ReadableIn, PointsOK, Slots
<1>7. {j \in ProjectedIn(points, n, t) : points[j].slot <= 0} = {}
  BY <1>6
<1>8. GivenIn(points, n, t, 0) = {}
  BY <1>7 DEF GivenIn
<1> HIDE DEF known
<1> QED BY <1>1, <1>3, <1>4, <1>5, <1>8 DEF ReaderOK

(* A page: with a point it has every point of the slots before, so that    *)
(* what has been given is everything up to the new cursor.                 *)
LEMMA ReadsPage ==
    ASSUME PointsOK(points), ReaderOK(reader, points), ReadPage
    PROVE  ReaderOK(reader', points)
<1> DEFINE slot(i) == points[i].slot
           P == ProjectedIn(points, reader.ceiling, reader.asOf)
           below(i) == {j \in Page : slot(j) < slot(i)}
           page == {i \in Page : Cardinality(below(i)) < PageSize}
           seen == {slot(i) : i \in page}
<1>1. PICK c, a, t : c = reader.ceiling /\ a = reader.after /\ t = reader.asOf
  OBVIOUS
<1>2. c \in 1..Len(points) /\ a \in Nat /\ Len(points) \in Nat /\ DOMAIN points = 1..Len(points)
  BY <1>1 DEF ReaderOK, PointsOK, ReadPage
<1>3. Page = {i \in P : slot(i) > a} /\ P \subseteq 1..c
  BY <1>1, ProjectedHere DEF Page, ProjectedIn, ReadableIn
<1>4. \A i \in P : slot(i) \in Nat
  <2>1. P \subseteq DOMAIN points
    BY <1>2, <1>3
  <2> QED BY <2>1, BoundsAssumption DEF PointsOK, Slots
<1>5. IsFiniteSet(Page)
  <2>1. IsFiniteSet(1..c)
    BY <1>2, FS_Interval
  <2> HIDE DEF P
  <2> QED BY <2>1, <1>3, FS_Subset
<1>6. Page # {}
  BY DEF ReadPage
<1>7. \A i \in Page : slot(i) \in Nat /\ slot(i) > a /\ i \in P
  <2> HIDE DEF P, slot
  <2> QED BY <1>3, <1>4
<1> HIDE DEF P, slot
<1>8. \A i, j \in Page : slot(j) <= slot(i) /\ i \in page => j \in page
  <2> SUFFICES ASSUME NEW i \in Page, NEW j \in Page, slot(j) <= slot(i), i \in page
               PROVE  j \in page
    OBVIOUS
  <2>1. below(j) \subseteq below(i) /\ below(i) \subseteq Page
    BY <1>7
  <2>2. IsFiniteSet(below(i))
    BY <2>1, <1>5, FS_Subset
  <2>3. PICK S, T : S = below(i) /\ T = below(j)
    OBVIOUS
  <2>4. Cardinality(T) \in Nat /\ Cardinality(S) \in Nat /\ Cardinality(T) <= Cardinality(S)
    BY <2>1, <2>2, <2>3, NoMore
  <2>5. Cardinality(S) < PageSize
    BY <2>3
  <2>6. Cardinality(T) < PageSize
    BY <2>4, <2>5, BoundsAssumption
  <2> QED BY <2>3, <2>6
<1>9. \E i \in Page : i \in page
  <2>1. PICK f : f = [i \in Page |-> slot(i)]
    OBVIOUS
  <2>2. PICK S : S = {f[i] : i \in Page}
    OBVIOUS
  <2>3. S \in SUBSET Nat /\ S # {}
    BY <2>1, <2>2, <1>6, <1>7
  <2>4. PICK n \in S : \A m \in S : n <= m
    BY <2>3, LeastNat
  <2>5. PICK i \in Page : n = slot(i)
    BY <2>1, <2>2
  <2>6. \A j \in Page : slot(i) <= slot(j)
    BY <2>1, <2>2, <2>4, <2>5
  <2>7. below(i) = {}
    BY <2>6, <1>7
  <2>8. Cardinality(below(i)) = 0
    BY <2>7, FS_EmptySet
  <2> QED BY <2>8, BoundsAssumption
<1>10. IsFiniteSet(seen) /\ seen # {} /\ seen \in SUBSET Int
  <2>1. IsFiniteSet(page)
    BY <1>5, FS_Subset
  <2>2. PICK f : f = [i \in page |-> slot(i)]
    OBVIOUS
  <2>3. seen = {f[i] : i \in page}
    BY <2>2
  <2> HIDE DEF page
  <2>4. IsFiniteSet({f[i] : i \in page})
    BY <2>1, ImageFinite
  <2> USE DEF page
  <2>5. \A i \in page : slot(i) \in Int
    BY <1>7
  <2> QED BY <2>3, <2>4, <2>5, <1>9
<1>11. PICK top : top = Max(seen)
  OBVIOUS
<1>12. top \in seen /\ \A y \in seen : top >= y
  <2> HIDE DEF seen
  <2> QED BY <1>10, <1>11, MaxIn
<1>13. PICK i \in page : top = slot(i)
  BY <1>12
<1>14. \A j \in page : slot(j) <= top
  BY <1>7, <1>12, <1>13
<1>15. top \in Nat /\ a < top
  BY <1>2, <1>7, <1>13
<1>16. {j \in P : slot(j) <= top} = {j \in P : slot(j) <= a} \cup page
  <2>1. \A j \in P : slot(j) \in Nat
    BY <1>4 DEF slot
  <2>2. ASSUME NEW j \in P, slot(j) <= top PROVE slot(j) <= a \/ j \in page
    <3>1. slot(j) <= a \/ j \in Page
      BY <1>3, <1>2, <2>1 DEF slot
    <3> QED BY <3>1, <2>2, <1>8, <1>13
  <2>3. ASSUME NEW j \in P, slot(j) <= a PROVE slot(j) <= top
    BY <2>1, <2>3, <1>2, <1>15
  <2>4. \A j \in page : j \in P /\ slot(j) <= top
    BY <1>7, <1>14
  <2> HIDE DEF page
  <2> QED BY <2>2, <2>3, <2>4
<1>17. reader.got = {points[j] : j \in {k \in P : slot(k) <= a}}
  BY <1>1, <1>2 DEF ReaderOK, GivenIn, P, slot
<1>18. reader' = [reader EXCEPT !.got = reader.got \cup {points[j] : j \in page}, !.after = top]
  BY <1>11 DEF ReadPage, slot
<1>19. reader.got \cup {points[j] : j \in page} = GivenIn(points, c, t, top)
  <2>1. GivenIn(points, c, t, top) = {points[j] : j \in {k \in P : slot(k) <= top}}
    BY <1>1 DEF GivenIn, P, slot
  <2> HIDE DEF page
  <2> QED BY <2>1, <1>16, <1>17
<1>20. PICK g : g = GivenIn(points, c, t, top)
  OBVIOUS
<1>21. PICK rd : rd = reader'
  OBVIOUS
<1>22. rd = [reader EXCEPT !.got = g, !.after = top]
  BY <1>18, <1>19, <1>20, <1>21
<1>23. rd = [asOf |-> t, ceiling |-> c, after |-> top, got |-> g, due |-> reader.due]
  BY <1>22, <1>1 DEF ReaderOK
<1> QED BY <1>1, <1>2, <1>15, <1>20, <1>21, <1>23 DEF ReaderOK

LEMMA EndsReading ==
    ASSUME PointsOK(points), reader' = NoReading
    PROVE  ReaderOK(reader', points)
<1>1. Len(points) \in Nat
  BY DEF PointsOK
<1> QED BY <1>1 DEF ReaderOK, NoReading

(* Every step keeps the invariant. *)
LEMMA NextReadingInv == ReadingInv /\ [Next]_vars => ReadingInv'
<1> SUFFICES ASSUME ReadingInv, [Next]_vars PROVE ReadingInv'
  OBVIOUS
<1>0. WorkersOK(worker) /\ PointsOK(points) /\ ReaderOK(reader, points)
  BY DEF ReadingInv
<1>1. CASE \/ UNCHANGED vars
           \/ Insert
           \/ \E t \in Transactions : Commit(t)
           \/ \E i \in Ids : Lapse(i)
  <2>1. UNCHANGED <<worker, points, reader>>
    BY <1>1 DEF vars, Insert, Commit, Lapse
  <2> QED BY <2>1, <1>0 DEF ReadingInv
<1>2. ASSUME NEW w \in Workers, Step(w) \/ Crash(w) \/ LapseRenewed(w) PROVE ReadingInv'
  <2>1. UNCHANGED reader
    BY <1>2 DEF Step, Crash, LapseRenewed, Claim, Lock, LeaseLost, Release, Fence, Read,
                Complete, Fail, Handle
  <2>2. WorkersOK(worker')
    <3>1. CASE LeaseLost(w) \/ Release(w) \/ Complete(w) \/ Handle(w) \/ Crash(w)
      <4>1. Leave(w)
        BY <3>1 DEF LeaseLost, Release, Complete, Handle, Crash
      <4> QED BY <4>1, <1>0, WorkerIdles
    <3>2. CASE Lock(w) \/ Fence(w) \/ LapseRenewed(w)
      BY <3>2, <1>0, WorkerGoesOn DEF Lock, Fence, LapseRenewed
    <3>3. CASE Read(w)
      BY <3>3, <1>0, WorkerReads
    <3>4. CASE Claim(w) \/ Fail(w)
      <4>1. PICK pc, b : worker' = [worker EXCEPT ![w] = [Idle EXCEPT !.pc = pc, !.batch = b]]
        BY <3>4 DEF Claim, Fail
      <4> QED BY <4>1, <1>0, WorkerForgets
    <3> QED BY <1>2, <3>1, <3>2, <3>3, <3>4 DEF Step
  <2>3. CASE Complete(w)
    <3>1. PICK qs : qs = points'
      OBVIOUS
    <3>2. PointsOK(qs) /\ Begins(points, qs)
      BY <2>3, <1>0, <3>1, CompleteAdds
    <3>3. ReaderOK(reader, qs)
      BY <3>2, <1>0, ReaderUndisturbed
    <3> QED BY <2>1, <2>2, <3>1, <3>2, <3>3 DEF ReadingInv
  <2>4. CASE ~Complete(w)
    <3>1. UNCHANGED points
      BY <1>2, <2>4 DEF Step, Crash, LapseRenewed, Claim, Lock, LeaseLost, Release, Fence,
                        Read, Fail, Handle
    <3> QED BY <2>1, <2>2, <3>1, <1>0 DEF ReadingInv
  <2> QED BY <2>3, <2>4
<1>3. CASE (\E i \in Ids : StartReading(Frontier(i).known)) \/ ReadPage \/ EndReading
  <2>1. UNCHANGED <<worker, points>>
    BY <1>3 DEF StartReading, ReadPage, EndReading
  <2>2. ReaderOK(reader', points)
    BY <1>3, <1>0, StartsReading, ReadsPage, EndsReading DEF EndReading
  <2> QED BY <2>1, <2>2, <1>0 DEF ReadingInv
<1> QED BY <1>1, <1>2, <1>3 DEF Next

(* read_indicator_points under indicator_projection_ceiling: whatever      *)
(* workers, retries and crashes add to the series between two pages, the   *)
(* pages of one reading add up to the series as it stood when its ceiling  *)
(* was taken.                                                              *)
THEOREM ReadingsAgree == Spec => []PagesAgree
<1>1. Init => ReadingInv
  BY InitReadingInv
<1>2. ReadingInv /\ [Next]_vars => ReadingInv'
  BY NextReadingInv
<1>3. ReadingInv => PagesAgree
  BY ReadingInvAgrees
<1> QED BY <1>1, <1>2, <1>3, PTL DEF Spec

----------------------------------------------------------------------------
(* Sets told apart by a number, and their order *)

ToldApart(S, key) ==
    /\ IsFiniteSet(S)
    /\ \A x \in S : key[x] \in Nat
    /\ \A x, y \in S : key[x] = key[y] => x = y

\* The members up to x, and the place that gives x.
UpTo(S, key, x) == {y \in S : key[y] <= key[x]}
Numbered(S, key) ==
    /\ \A x \in S : Cardinality(UpTo(S, key, x)) \in 1..Cardinality(S)
    /\ \A n \in 1..Cardinality(S) : \E x \in S : Cardinality(UpTo(S, key, x)) = n
    /\ \A x, z \in S : Cardinality(UpTo(S, key, x)) = Cardinality(UpTo(S, key, z)) => x = z

(* In a set whose members are told apart by a number, every place up to the
   size of the set is the place of one member. *)
LEMMA EveryPlaceTaken ==
    ASSUME NEW S, NEW key, ToldApart(S, key)
    PROVE  Numbered(S, key)
<1> DEFINE R == {xy \in S \X S : key[xy[1]] < key[xy[2]]}
           below(x) == {y \in S : <<y, x>> \in R}
<1>1. \A x, y \in S : <<x, y>> \in R <=> key[x] < key[y]
  OBVIOUS
<1>2. IsFiniteSet(S) /\ StrictOrder(R, S)
  BY <1>1 DEF ToldApart, StrictOrder
<1> HIDE DEF R
<1>3. Placed(S, R)
  BY <1>2, PlacesTaken
<1>4. /\ \A i \in S : Place(S, R, i) \in 1..Cardinality(S)
      /\ \A m \in 1..Cardinality(S) : \E i \in S : Place(S, R, i) = m
      /\ \A i, j \in S : Place(S, R, i) = Place(S, R, j) => i = j
  BY <1>3 DEF Placed
<1>6. ASSUME NEW x \in S PROVE Cardinality(UpTo(S, key, x)) = Place(S, R, x)
  <2>1. UpTo(S, key, x) = below(x) \cup {x} /\ x \notin below(x) /\ below(x) \subseteq S
    BY <1>1 DEF UpTo, ToldApart
  <2>2. PICK b : b = below(x)
    OBVIOUS
  <2>3. IsFiniteSet(b)
    BY <1>2, <2>1, <2>2, FS_Subset
  <2>4. Cardinality(b \cup {x}) = Cardinality(b) + 1
    BY <2>1, <2>2, <2>3, FS_AddElement
  <2> QED BY <2>1, <2>2, <2>4 DEF Place
<1> QED BY <1>4, <1>6 DEF Numbered

\* A sequence of members of S in which every member is.
Lists(o, S) ==
    /\ o \in Seq(S)
    /\ DOMAIN o = 1..Cardinality(S)
    /\ \A n \in DOMAIN o : o[n] \in S
    /\ \A x \in S : \E n \in DOMAIN o : o[n] = x

Fills(o, c, S) == o = [n \in 1..c |-> o[n]] /\ \A n \in 1..c : o[n] \in S

LEMMA SequenceOf ==
    ASSUME NEW S, NEW c \in Nat, NEW o, Fills(o, c, S)
    PROVE  o \in Seq(S)
BY DEF Fills

\* o gives every place the member that has it.
ByNumber(o, S, key) ==
    /\ o = [n \in 1..Cardinality(S) |-> o[n]]
    /\ \A n \in 1..Cardinality(S) : o[n] \in S /\ Cardinality(UpTo(S, key, o[n])) = n

(* The list of such a set by their numbers holds every member. *)
LEMMA ListedByNumber ==
    ASSUME NEW S, NEW key, ToldApart(S, key), NEW o, ByNumber(o, S, key)
    PROVE  Lists(o, S)
<1> DEFINE place(x) == Cardinality(UpTo(S, key, x))
<1>1. /\ \A x \in S : place(x) \in 1..Cardinality(S)
      /\ \A x, z \in S : place(x) = place(z) => x = z
  BY EveryPlaceTaken DEF Numbered
<1>2. PICK c \in Nat : c = Cardinality(S)
  BY FS_CardinalityType DEF ToldApart
<1>3. /\ o = [n \in 1..c |-> o[n]] /\ DOMAIN o = 1..c
      /\ \A n \in 1..c : o[n] \in S /\ place(o[n]) = n
  BY <1>2 DEF ByNumber
<1> HIDE DEF place
<1>4. o \in Seq(S)
  <2>1. Fills(o, c, S)
    BY <1>3 DEF Fills
  <2> QED BY <2>1, SequenceOf
<1>5. ASSUME NEW x \in S PROVE \E n \in DOMAIN o : o[n] = x
  <2>1. PICK n \in 1..c : n = place(x)
    BY <1>1, <1>2
  <2>2. o[n] \in S /\ place(o[n]) = place(x)
    BY <1>3, <2>1
  <2> QED BY <1>1, <1>3, <2>2
<1> QED BY <1>2, <1>3, <1>4, <1>5 DEF Lists

----------------------------------------------------------------------------
(* Buckets and ranges *)

LEMMA MinutesAndBuckets ==
    /\ IsFiniteSet(Minutes) /\ Minutes \subseteq Nat
    /\ \A s \in Minutes : Bucket(s) \in Nat
    /\ Buckets \subseteq Nat
<1>1. IsFiniteSet(Minutes)
  BY RollupAssumption, FS_Interval DEF Minutes
<1>2. Minutes \subseteq Nat
  BY RollupAssumption DEF Minutes
<1>3. ASSUME NEW s \in Minutes PROVE Bucket(s) \in Nat
  <2>1. PICK k \in Nat \ {0} : k = BucketSize
    BY RollupAssumption
  <2>2. s \in Nat
    BY <1>2
  <2>3. s \div k \in Nat
    BY <2>1, <2>2
  <2> QED BY <2>1, <2>3 DEF Bucket
<1> QED BY <1>1, <1>2, <1>3 DEF Buckets

\* The buckets of some slots.
BucketsOf(slots) == {Bucket(s) : s \in slots}

\* A family of sets of buckets, no bucket in two of them.
Parts(F, bs) ==
    /\ IsFiniteSet(F)
    /\ \A r \in F : r # {} /\ r \subseteq bs
    /\ \A q, r \in F : q \cap r # {} => q = r
    /\ \A b \in bs : \E r \in F : b \in r

\* The classes of a finite set under equal values of two functions.
Alike(bs, f, g) == {{b \in bs : f[b] = f[a] /\ g[b] = g[a]} : a \in bs}

LEMMA Classes ==
    ASSUME NEW bs, IsFiniteSet(bs), NEW f, NEW g, NEW F, F = Alike(bs, f, g)
    PROVE  Parts(F, bs)
<1> USE DEF Alike
<1> DEFINE c == [a \in bs |-> {b \in bs : f[b] = f[a] /\ g[b] = g[a]}]
<1>1. F = {c[a] : a \in bs}
  OBVIOUS
<1>2. IsFiniteSet({c[a] : a \in bs})
  <2> HIDE DEF c
  <2> QED BY ImageFinite
<1>3. \A r \in F : r # {} /\ r \subseteq bs
  OBVIOUS
<1>4. ASSUME NEW q \in F, NEW r \in F, q \cap r # {} PROVE q = r
  <2>1. PICK a \in bs : q = {b \in bs : f[b] = f[a] /\ g[b] = g[a]}
    OBVIOUS
  <2>2. PICK d \in bs : r = {b \in bs : f[b] = f[d] /\ g[b] = g[d]}
    OBVIOUS
  <2>3. PICK b \in bs : b \in q /\ b \in r
    BY <1>3, <1>4
  <2>4. f[b] = f[a] /\ g[b] = g[a] /\ f[b] = f[d] /\ g[b] = g[d]
    BY <2>1, <2>2, <2>3
  <2> QED BY <2>1, <2>2, <2>4
<1>5. ASSUME NEW b \in bs PROVE \E r \in F : b \in r
  <2>1. b \in c[b] /\ c[b] \in F
    OBVIOUS
  <2> QED BY <2>1
<1> HIDE DEF c
<1> QED BY <1>1, <1>2, <1>3, <1>4, <1>5 DEF Parts

(* The affected ranges divide the changed buckets. *)
LEMMA RangesDivide ==
    ASSUME NEW changed, changed \subseteq Minutes
    PROVE  Parts(AffectedRanges(changed), BucketsOf(changed)) /\ BucketsOf(changed) \subseteq Buckets
<1> DEFINE bs == BucketsOf(changed)
           first(b) == Max({a \in bs : a <= b /\ (a - 1) \notin bs})
           part(b) == (b - first(b)) \div MaxOutputBuckets
<1>1. IsFiniteSet(bs)
  <2>1. IsFiniteSet(changed)
    BY MinutesAndBuckets, FS_Subset
  <2>2. PICK f : f = [s \in changed |-> Bucket(s)]
    OBVIOUS
  <2>3. bs = {f[s] : s \in changed}
    BY <2>2 DEF BucketsOf
  <2> QED BY <2>1, <2>3, ImageFinite
<1>2. bs \subseteq Buckets
  BY DEF BucketsOf, Buckets
<1>3. AffectedRanges(changed)
          = {{b \in bs : first(b) = first(a) /\ part(b) = part(a)} : a \in bs}
  BY DEF AffectedRanges, BucketsOf
<1> HIDE DEF first, part, bs
<1>4. PICK f, g : f = [b \in bs |-> first(b)] /\ g = [b \in bs |-> part(b)]
  OBVIOUS
<1>5. AffectedRanges(changed) = {{b \in bs : f[b] = f[a] /\ g[b] = g[a]} : a \in bs}
  <2>1. \A a \in bs : {b \in bs : first(b) = first(a) /\ part(b) = part(a)}
                        = {b \in bs : f[b] = f[a] /\ g[b] = g[a]}
    BY <1>4
  <2> QED BY <1>3, <2>1
<1>6. Parts(AffectedRanges(changed), bs)
  <2>1. PICK F : F = AffectedRanges(changed)
    OBVIOUS
  <2>2. F = Alike(bs, f, g)
    BY <1>5, <2>1 DEF Alike
  <2> QED BY <1>1, <2>1, <2>2, Classes
<1> QED BY <1>2, <1>6 DEF bs

(* A finite set of natural numbers that is not empty has a least one. *)
LEMMA MinIn ==
    ASSUME NEW t \in SUBSET Nat, t # {}
    PROVE  Min(t) \in t /\ \A y \in t : Min(t) <= y
<1>1. \E x \in t : \A y \in t : x <= y
  BY LeastNat
<1> QED BY <1>1 DEF Min

(* Ranges in order are all of them. *)
LEMMA RangesListed ==
    ASSUME NEW F, NEW bs, Parts(F, bs), bs \subseteq Nat
    PROVE  Lists(InOrder(F), F)
<1>1. PICK key : key = [r \in F |-> Min(r)]
  OBVIOUS
<1>2. ASSUME NEW r \in F PROVE key[r] = Min(r) /\ Min(r) \in r /\ Min(r) \in Nat
  <2>1. r \in SUBSET Nat /\ r # {}
    BY DEF Parts
  <2>2. Min(r) \in r
    BY <2>1, MinIn
  <2> QED BY <1>1, <2>1, <2>2
<1>3. ASSUME NEW q \in F, NEW r \in F, key[q] = key[r] PROVE q = r
  BY <1>2, <1>3 DEF Parts
<1>4. ToldApart(F, key)
  BY <1>2, <1>3 DEF Parts, ToldApart
<1>5. \A r \in F : UpTo(F, key, r) = {q \in F : Min(q) <= Min(r)}
  BY <1>2 DEF UpTo
<1>6. \A n \in 1..Cardinality(F) : \E r \in F : Cardinality(UpTo(F, key, r)) = n
  BY <1>4, EveryPlaceTaken DEF Numbered
<1> DEFINE position(r) == Cardinality({q \in F : Min(q) <= Min(r)})
           pick(n) == CHOOSE r \in F : position(r) = n
<1>7. \A r \in F : position(r) = Cardinality(UpTo(F, key, r))
  BY <1>5
<1> HIDE DEF position
<1>8. \A n \in 1..Cardinality(F) : \E r \in F : position(r) = n
  BY <1>6, <1>7
<1>9. InOrder(F) = [n \in 1..Cardinality(F) |-> pick(n)]
  BY DEF InOrder, position
<1>10. \A n \in 1..Cardinality(F) : pick(n) \in F /\ position(pick(n)) = n
  BY <1>8
<1> HIDE DEF pick
<1>11. PICK o : o = InOrder(F)
  OBVIOUS
<1>12. ByNumber(o, F, key)
  BY <1>7, <1>9, <1>10, <1>11 DEF ByNumber
<1> QED BY <1>4, <1>11, <1>12, ListedByNumber

----------------------------------------------------------------------------
(* What the store holds *)

\* Finitely many revisions.
RevisionsOK(rv) ==
    /\ IsFiniteSet(rv)
    /\ \A r \in rv : r.id \in Nat /\ r.slot \in Minutes /\ r.asOf \in Nat /\ r.number \in Nat

EventsOK(ev) ==
    /\ ev \in Seq({ev[i] : i \in DOMAIN ev})
    /\ \A i \in DOMAIN ev : ev[i].at \in Nat

\* A frontier names an event there is, and no id beyond every revision's.
FrontierOK(x, rv, ev) ==
    /\ x.through \in Nat /\ x.event \in Nat /\ x.known \in Nat
    /\ x.event <= Len(ev)
    /\ \E r \in rv : x.through <= r.id

JobShape(x) ==
    x = [buckets |-> x.buckets, through |-> x.through, event |-> x.event, cov |-> x.cov,
         known |-> x.known, status |-> x.status, attempts |-> x.attempts, owner |-> x.owner,
         due |-> x.due]
JobOK(x, rv, ev) == JobShape(x) /\ x.buckets \subseteq Buckets /\ FrontierOK(x, rv, ev)

JobsOK(js, rv, ev) ==
    /\ js \in Seq({js[i] : i \in DOMAIN js})
    /\ \A i \in DOMAIN js : JobOK(js[i], rv, ev)

(* The ceiling of some slots: the newest event about one of them. *)
LEMMA CeilingIsNewest ==
    ASSUME NEW ev, EventsOK(ev), NEW slots
    PROVE  /\ QualityCeiling(ev, slots) \in Nat /\ QualityCeiling(ev, slots) <= Len(ev)
           /\ \A e \in DOMAIN ev : ev[e].slots \cap slots # {} => e <= QualityCeiling(ev, slots)
           /\ \/ QualityCeiling(ev, slots) = 0
              \/ /\ QualityCeiling(ev, slots) \in DOMAIN ev
                 /\ ev[QualityCeiling(ev, slots)].slots \cap slots # {}
<1> DEFINE E == {e \in DOMAIN ev : ev[e].slots \cap slots # {}}
<1>1. QualityCeiling(ev, slots) = IF E = {} THEN 0 ELSE Max(E)
  BY DEF QualityCeiling, MaxOr
<1>2. DOMAIN ev = 1..Len(ev) /\ Len(ev) \in Nat
  BY DEF EventsOK
<1>3. IsFiniteSet(E) /\ E \in SUBSET Int
  <2>1. IsFiniteSet(1..Len(ev))
    BY <1>2, FS_Interval
  <2> QED BY <1>2, <2>1, FS_Subset
<1>4. CASE E = {}
  BY <1>1, <1>2, <1>4
<1>5. CASE E # {}
  <2>1. PICK m : m = Max(E)
    OBVIOUS
  <2>2. m \in E /\ \A e \in E : m >= e
    <3> HIDE DEF E
    <3> QED BY <1>3, <1>5, <2>1, MaxIn
  <2>3. QualityCeiling(ev, slots) = m
    BY <1>1, <1>5, <2>1
  <2> QED BY <1>2, <2>2, <2>3
<1> QED BY <1>4, <1>5

(* The newest of some revisions. *)
LEMMA NewestRevision ==
    ASSUME NEW rv, RevisionsOK(rv), rv # {}
    PROVE  /\ Max({q.id : q \in rv}) \in Nat
           /\ \E r \in rv : r.id = Max({q.id : q \in rv})
           /\ \A r \in rv : r.id <= Max({q.id : q \in rv})
<1>1. PICK f : f = [q \in rv |-> q.id]
  OBVIOUS
<1>2. PICK T : T = {q.id : q \in rv}
  OBVIOUS
<1>3. T = {f[q] : q \in rv}
  BY <1>1, <1>2
<1>4. IsFiniteSet(T)
  BY <1>3, ImageFinite DEF RevisionsOK
<1>5. T \in SUBSET Nat /\ T # {}
  BY <1>2 DEF RevisionsOK
<1>6. Max(T) \in T /\ \A y \in T : Max(T) >= y
  BY <1>4, <1>5, MaxIn
<1> QED BY <1>2, <1>5, <1>6

----------------------------------------------------------------------------
(* The jobs a change queues *)

\* One job for every range.
OneEach(js, F) ==
    /\ js = [n \in DOMAIN InOrder(F) |-> js[n]]
    /\ \A n \in DOMAIN InOrder(F) : js[n].buckets = InOrder(F)[n]

Ordered(js, F) ==
    /\ js \in Seq({js[i] : i \in DOMAIN js}) /\ DOMAIN js = DOMAIN InOrder(F)
    /\ \A n \in DOMAIN js : js[n].buckets \in F
    /\ \A r \in F : \E n \in DOMAIN js : js[n].buckets = r

LEMMA JobsListed ==
    ASSUME NEW F, NEW bs, Parts(F, bs), bs \subseteq Nat, NEW js, OneEach(js, F)
    PROVE  Ordered(js, F)
<1>1. Lists(InOrder(F), F)
  BY RangesListed
<1>2. PICK c \in Nat : c = Cardinality(F)
  BY FS_CardinalityType DEF Parts
<1>3. DOMAIN InOrder(F) = 1..c /\ js = [n \in 1..c |-> js[n]] /\ DOMAIN js = 1..c
  BY <1>1, <1>2 DEF Lists, OneEach
<1>4. js \in Seq({js[i] : i \in DOMAIN js})
  <2>1. PICK S : S = {js[i] : i \in DOMAIN js}
    OBVIOUS
  <2>2. Fills(js, c, S)
    BY <1>3, <2>1 DEF Fills
  <2>3. js \in Seq(S)
    BY <2>2, SequenceOf
  <2> QED BY <2>1, <2>3
<1> QED BY <1>1, <1>3, <1>4 DEF Lists, OneEach, Ordered

LEMMA SomeParts ==
    ASSUME NEW F, NEW bs, Parts(F, bs), NEW G, G \subseteq F
    PROVE  Parts(G, UNION G)
BY FS_Subset DEF Parts

\* Pending jobs over some buckets.
Queued(js, rv, ev, bs) ==
    /\ js \in Seq({js[i] : i \in DOMAIN js})
    /\ \A n \in DOMAIN js : JobOK(js[n], rv, ev) /\ js[n].status = "pending" /\ js[n].buckets \subseteq bs

LEMMA JobIsPending ==
    ASSUME NEW bs, bs \subseteq Buckets, NEW through \in Nat, NEW event \in Nat, NEW cov, NEW known \in Nat
    PROVE  /\ JobShape(Job(bs, through, event, cov, known))
           /\ Job(bs, through, event, cov, known).status = "pending"
           /\ Job(bs, through, event, cov, known).buckets = bs
           /\ Job(bs, through, event, cov, known).through = through
           /\ Job(bs, through, event, cov, known).event = event
           /\ Job(bs, through, event, cov, known).known = known
BY DEF Job, JobShape

\* What a quality transition queues: for every changed bucket that has a
\* revision, a job under the newest revision and the newest event.
QualityQueued(js, changed, rv, ev) ==
    /\ Queued(js, rv, ev, BucketsOf(changed))
    /\ \A n \in DOMAIN js : js[n].event = Len(ev) /\ \A r \in rv : r.id <= js[n].through
    /\ \A s \in changed, r \in rv : Bucket(s) = Bucket(r.slot) =>
           \E n \in DOMAIN js : Bucket(s) \in js[n].buckets

LEMMA QualityJobsQueued ==
    ASSUME NEW changed, changed \subseteq Minutes, NEW rv, RevisionsOK(rv), rv # {},
           NEW ev, EventsOK(ev), Len(ev) # 0, NEW cov
    PROVE  QualityQueued(QualityJobs(changed, rv, ev, cov), changed, rv, ev)
<1> DEFINE A == AffectedRanges(changed)
           F == {r \in A : Covering(r) \cap SlotsIn(rv) # {}}
<1>1. Parts(A, BucketsOf(changed)) /\ BucketsOf(changed) \subseteq Buckets /\ Buckets \subseteq Nat
  BY RangesDivide, MinutesAndBuckets
<1>2. PICK js : js = QualityJobs(changed, rv, ev, cov)
  OBVIOUS
<1>3. PICK top : top = Max({q.id : q \in rv})
  OBVIOUS
<1>4. top \in Nat /\ (\E r \in rv : r.id = top) /\ \A r \in rv : r.id <= top
  BY <1>3, NewestRevision
<1>5. Len(ev) \in Nat /\ ev[Len(ev)].at \in Nat
  BY DEF EventsOK
<1>6. js = [n \in DOMAIN InOrder(F) |-> Job(InOrder(F)[n], top, Len(ev), cov, ev[Len(ev)].at)]
  BY <1>2, <1>3 DEF QualityJobs
<1>7. PICK G : G = F
  OBVIOUS
<1>8. /\ Parts(G, UNION G) /\ UNION G \subseteq Nat
      /\ \A r \in G : r \subseteq BucketsOf(changed) /\ r \subseteq Buckets
  <2>1. G \subseteq A
    BY <1>7
  <2> HIDE DEF A, F
  <2>2. Parts(G, UNION G)
    BY <1>1, <2>1, SomeParts
  <2> QED BY <1>1, <2>1, <2>2 DEF Parts
<1>9. Lists(InOrder(G), G)
  BY <1>8, RangesListed
<1>10. ASSUME NEW n \in DOMAIN InOrder(G)
       PROVE  /\ js[n].buckets = InOrder(G)[n] /\ js[n].buckets \in G /\ JobShape(js[n])
              /\ js[n].status = "pending" /\ js[n].through = top /\ js[n].event = Len(ev)
              /\ js[n].known = ev[Len(ev)].at
  <2>1. PICK bs, at : bs = InOrder(G)[n] /\ at = ev[Len(ev)].at
    OBVIOUS
  <2>2. bs \in G
    BY <1>9, <2>1 DEF Lists
  <2>3. js[n] = Job(bs, top, Len(ev), cov, at)
    BY <1>6, <1>7, <2>1
  <2>4. PICK l \in Nat : l = Len(ev)
    BY <1>5
  <2>5. bs \subseteq Buckets /\ at \in Nat
    BY <1>5, <1>8, <2>1, <2>2
  <2>6. PICK x : x = Job(bs, top, l, cov, at)
    OBVIOUS
  <2>7. JobShape(x) /\ x.status = "pending" /\ x.buckets = bs /\ x.through = top
        /\ x.event = l /\ x.known = at
    BY <1>4, <2>5, <2>6, JobIsPending
  <2> QED BY <2>1, <2>2, <2>3, <2>4, <2>6, <2>7
<1>11. OneEach(js, G)
  <2>1. js = [n \in DOMAIN InOrder(G) |-> js[n]]
    BY <1>6, <1>7
  <2> QED BY <1>10, <2>1 DEF OneEach
<1>12. /\ js \in Seq({js[i] : i \in DOMAIN js}) /\ DOMAIN js = DOMAIN InOrder(G)
       /\ \A r \in G : \E n \in DOMAIN js : js[n].buckets = r
  <2>1. PICK u : u = UNION G
    OBVIOUS
  <2>2. Parts(G, u) /\ u \subseteq Nat
    BY <1>8, <2>1
  <2>3. Ordered(js, G)
    BY <1>11, <2>2, JobsListed
  <2> QED BY <2>3 DEF Ordered
<1> HIDE DEF A, F
<1>13. \A n \in DOMAIN js :
           /\ JobOK(js[n], rv, ev) /\ js[n].status = "pending"
           /\ js[n].buckets \subseteq BucketsOf(changed)
           /\ js[n].event = Len(ev) /\ \A r \in rv : r.id <= js[n].through
  <2> TAKE n \in DOMAIN js
  <2>1. /\ js[n].buckets \in G /\ JobShape(js[n]) /\ js[n].status = "pending"
        /\ js[n].through = top /\ js[n].event = Len(ev) /\ js[n].known = ev[Len(ev)].at
    BY <1>10, <1>12
  <2>2. js[n].buckets \subseteq BucketsOf(changed) /\ js[n].buckets \subseteq Buckets
    BY <1>8, <2>1
  <2>3. FrontierOK(js[n], rv, ev)
    <3>1. PICK x : x = js[n]
      OBVIOUS
    <3>2. FrontierOK(x, rv, ev)
      BY <1>4, <1>5, <2>1, <3>1 DEF FrontierOK
    <3> QED BY <3>1, <3>2
  <2> QED BY <1>4, <2>1, <2>2, <2>3 DEF JobOK
<1>14. ASSUME NEW s \in changed, NEW r \in rv, Bucket(s) = Bucket(r.slot)
       PROVE  \E n \in DOMAIN js : Bucket(s) \in js[n].buckets
  <2>1. Bucket(s) \in BucketsOf(changed)
    BY DEF BucketsOf
  <2>2. PICK q \in A : Bucket(s) \in q
    BY <1>1, <2>1 DEF Parts
  <2>3. r.slot \in Covering(q) \cap SlotsIn(rv)
    BY <1>14, <2>2 DEF RevisionsOK, Covering, SlotsIn
  <2>4. q \in G
    BY <1>7, <2>3 DEF F
  <2> QED BY <1>12, <2>2, <2>4
<1>15. Queued(js, rv, ev, BucketsOf(changed))
  BY <1>12, <1>13 DEF Queued
<1> QED BY <1>2, <1>13, <1>14, <1>15 DEF QualityQueued

\* What new revisions queue: for every bucket of them, a job under the newest
\* of them and no event of its range beyond its own.
SourceQueued(js, created, rv, ev) ==
    /\ Queued(js, rv, ev, BucketsOf(SlotsIn(created)))
    /\ \A n \in DOMAIN js :
           /\ \A r \in created : r.id <= js[n].through
           /\ \A e \in DOMAIN ev, b \in js[n].buckets :
                  ev[e].slots \cap SlotsOf(b) # {} => e <= js[n].event
    /\ \A m, n \in DOMAIN js : js[m].buckets \cap js[n].buckets # {} =>
           js[m].through = js[n].through /\ js[m].event = js[n].event
    /\ \A r \in created : \E n \in DOMAIN js : Bucket(r.slot) \in js[n].buckets

(* The knowledge of a source job. *)
LEMMA KnowledgeIsNat ==
    ASSUME NEW rv, RevisionsOK(rv), NEW k \in Nat
    PROVE  Max({q.asOf : q \in rv} \cup {k}) \in Nat
<1>1. PICK f : f = [q \in rv |-> q.asOf]
  OBVIOUS
<1>2. PICK T : T = {q.asOf : q \in rv}
  OBVIOUS
<1>3. T = {f[q] : q \in rv}
  BY <1>1, <1>2
<1>4. IsFiniteSet(T)
  BY <1>3, ImageFinite DEF RevisionsOK
<1>5. PICK U : U = T \cup {k}
  OBVIOUS
<1>6. IsFiniteSet(U)
  BY <1>4, <1>5, FS_AddElement
<1>7. U \in SUBSET Nat /\ U # {}
  BY <1>2, <1>5 DEF RevisionsOK
<1>8. Max(U) \in U
  BY <1>6, <1>7, MaxIn
<1> QED BY <1>2, <1>5, <1>7, <1>8

LEMMA SourceJobsQueued ==
    ASSUME NEW created, RevisionsOK(created), created # {}, NEW rv, created \subseteq rv,
           NEW ev, EventsOK(ev), NEW cov
    PROVE  SourceQueued(SourceJobs(created, ev, cov), created, rv, ev)
<1> DEFINE Knowledge(r) ==
               Max({q.asOf : q \in created}
                   \cup {IF QualityCeiling(ev, Covering(r)) = 0 THEN 0
                         ELSE ev[QualityCeiling(ev, Covering(r))].at})
<1>1. PICK slots : slots = SlotsIn(created)
  OBVIOUS
<1>2. PICK F : F = AffectedRanges(slots)
  OBVIOUS
<1>3. slots \subseteq Minutes
  BY <1>1 DEF SlotsIn, RevisionsOK
<1>4. PICK bs : bs = BucketsOf(slots)
  OBVIOUS
<1>5. Parts(F, bs) /\ bs \subseteq Buckets /\ bs \subseteq Nat
  BY <1>2, <1>3, <1>4, RangesDivide, MinutesAndBuckets
<1>6. PICK top : top = Max({q.id : q \in created})
  OBVIOUS
<1>7. top \in Nat /\ (\E r \in created : r.id = top) /\ \A r \in created : r.id <= top
  BY <1>6, NewestRevision
<1>8. PICK js : js = SourceJobs(created, ev, cov)
  OBVIOUS
<1>9. js = [n \in DOMAIN InOrder(F) |->
               Job(InOrder(F)[n], top, QualityCeiling(ev, Covering(InOrder(F)[n])), cov,
                   Knowledge(InOrder(F)[n]))]
  BY <1>1, <1>2, <1>6, <1>8 DEF SourceJobs
<1>10. Lists(InOrder(F), F)
  BY <1>5, RangesListed
<1>11. ASSUME NEW r \in F PROVE Knowledge(r) \in Nat
  <2>1. PICK c, k : c = QualityCeiling(ev, Covering(r)) /\ k = IF c = 0 THEN 0 ELSE ev[c].at
    OBVIOUS
  <2>2. k \in Nat
    BY <2>1, CeilingIsNewest DEF EventsOK
  <2>3. Max({q.asOf : q \in created} \cup {k}) \in Nat
    BY <2>2, KnowledgeIsNat
  <2> QED BY <2>1, <2>3
<1> HIDE DEF Known
<1>12. ASSUME NEW n \in DOMAIN InOrder(F)
       PROVE  /\ js[n].buckets = InOrder(F)[n] /\ js[n].buckets \in F /\ JobShape(js[n])
              /\ js[n].status = "pending" /\ js[n].through = top /\ js[n].known \in Nat
              /\ js[n].event = QualityCeiling(ev, Covering(js[n].buckets))
  <2>1. PICK r \in F : r = InOrder(F)[n]
    BY <1>10 DEF Lists
  <2>2. PICK c, k : c = QualityCeiling(ev, Covering(r)) /\ k = Knowledge(r)
    OBVIOUS
  <2>3. c \in Nat /\ k \in Nat
    BY <1>11, <2>2, CeilingIsNewest
  <2>4. js[n] = Job(r, top, c, cov, k)
    BY <1>9, <2>1, <2>2
  <2>5. r \subseteq Buckets
    BY <1>5 DEF Parts
  <2>6. PICK x : x = Job(r, top, c, cov, k)
    OBVIOUS
  <2>7. JobShape(x) /\ x.status = "pending" /\ x.buckets = r /\ x.through = top
        /\ x.event = c /\ x.known = k
    BY <1>7, <2>3, <2>5, <2>6, JobIsPending
  <2> QED BY <2>1, <2>2, <2>3, <2>4, <2>6, <2>7
<1>13. OneEach(js, F)
  <2>1. js = [n \in DOMAIN InOrder(F) |-> js[n]]
    BY <1>9
  <2> QED BY <1>12, <2>1 DEF OneEach
<1>14. Ordered(js, F)
  BY <1>5, <1>13, JobsListed
<1>15. /\ js \in Seq({js[i] : i \in DOMAIN js}) /\ DOMAIN js = DOMAIN InOrder(F)
       /\ \A r \in F : \E n \in DOMAIN js : js[n].buckets = r
  BY <1>14 DEF Ordered
<1>16. ASSUME NEW n \in DOMAIN js
       PROVE  /\ JobOK(js[n], rv, ev) /\ js[n].status = "pending" /\ js[n].buckets \subseteq bs
              /\ \A r \in created : r.id <= js[n].through
              /\ \A e \in DOMAIN ev, b \in js[n].buckets :
                     ev[e].slots \cap SlotsOf(b) # {} => e <= js[n].event
  <2>1. PICK x : x = js[n]
    OBVIOUS
  <2>2. /\ x.buckets \in F /\ JobShape(x) /\ x.status = "pending" /\ x.through = top
        /\ x.known \in Nat /\ x.event = QualityCeiling(ev, Covering(x.buckets))
    BY <1>12, <1>15, <2>1
  <2>3. x.buckets \subseteq bs
    BY <1>5, <2>2 DEF Parts
  <2>4. PICK cs : cs = Covering(x.buckets)
    OBVIOUS
  <2>5. x.event \in Nat /\ x.event <= Len(ev)
        /\ \A e \in DOMAIN ev : ev[e].slots \cap cs # {} => e <= x.event
    BY <2>2, <2>4, CeilingIsNewest
  <2>6. \A b \in x.buckets : SlotsOf(b) \subseteq cs
    BY <2>4 DEF SlotsOf, Covering
  <2>7. \A e \in DOMAIN ev, b \in x.buckets : ev[e].slots \cap SlotsOf(b) # {} => e <= x.event
    BY <2>5, <2>6
  <2>8. FrontierOK(x, rv, ev)
    BY <1>7, <2>2, <2>5 DEF FrontierOK
  <2>9. JobOK(x, rv, ev)
    BY <1>5, <2>2, <2>3, <2>8 DEF JobOK
  <2> QED BY <1>7, <2>1, <2>2, <2>3, <2>7, <2>9
<1>17. ASSUME NEW r \in created PROVE \E n \in DOMAIN js : Bucket(r.slot) \in js[n].buckets
  <2>1. Bucket(r.slot) \in bs
    BY <1>1, <1>4 DEF SlotsIn, BucketsOf
  <2>2. PICK q \in F : Bucket(r.slot) \in q
    BY <1>5, <2>1 DEF Parts
  <2> QED BY <1>15, <2>2
<1>18. Queued(js, rv, ev, bs)
  BY <1>15, <1>16 DEF Queued
<1>19. ASSUME NEW m \in DOMAIN js, NEW n \in DOMAIN js, js[m].buckets \cap js[n].buckets # {}
       PROVE  js[m].through = js[n].through /\ js[m].event = js[n].event
  <2>1. js[m].buckets \in F /\ js[n].buckets \in F
    BY <1>12, <1>15
  <2>2. js[m].buckets = js[n].buckets
    BY <1>5, <1>19, <2>1 DEF Parts
  <2> QED BY <1>12, <1>15, <2>2
<1> QED BY <1>1, <1>4, <1>8, <1>16, <1>17, <1>18, <1>19 DEF SourceQueued

----------------------------------------------------------------------------
(* The latest revision of a slot *)

(* The projection of a slot is one of its revisions. *)
LEMMA LatestIsOne ==
    ASSUME NEW rv, RevisionsOK(rv), NEW s \in SlotsIn(rv)
    PROVE  Latest(rv, s) \in rv /\ Latest(rv, s).slot = s
<1> DEFINE S == {q \in rv : q.slot = s}
           R == {rq \in S \X S : Newer(rq[1], rq[2])}
<1>1. IsFiniteSet(S) /\ S # {}
  BY FS_Subset DEF RevisionsOK, SlotsIn
<1>2. \A r \in S : r.asOf \in Nat /\ r.number \in Nat
  BY DEF RevisionsOK
<1>3. \A x, y \in S : <<x, y>> \in R <=> Newer(x, y)
  OBVIOUS
<1>4. ASSUME NEW x \in S, NEW y \in S PROVE Newer(x, y) \/ Newer(y, x)
  BY <1>2 DEF Newer
<1>5. ASSUME NEW x \in S, NEW y \in S, NEW z \in S, Newer(x, y), Newer(y, z) PROVE Newer(x, z)
  <2>1. PICK a, b, c, k, l, m \in Nat : /\ a = x.asOf /\ b = y.asOf /\ c = z.asOf
                                        /\ k = x.number /\ l = y.number /\ m = z.number
    BY <1>2
  <2>2. (a > b \/ (a = b /\ k >= l)) /\ (b > c \/ (b = c /\ l >= m))
    BY <1>5, <2>1 DEF Newer
  <2>3. a > c \/ (a = c /\ k >= m)
    BY <2>2
  <2> QED BY <2>1, <2>3 DEF Newer
<1> HIDE DEF R
<1>6. \A x, y \in S : <<x, y>> \in R \/ <<y, x>> \in R
  BY <1>3, <1>4
<1>7. \A x, y, z \in S : <<x, y>> \in R /\ <<y, z>> \in R => <<x, z>> \in R
  BY <1>3, <1>5
<1>8. \E x \in S : \A y \in S : <<x, y>> \in R
  <2> HIDE DEF S
  <2> QED BY <1>1, <1>6, <1>7, FirstElement
<1>9. \E r \in S : \A q \in rv : q.slot = s => Newer(r, q)
  BY <1>3, <1>8
<1>10. Latest(rv, s) \in S
  BY <1>9 DEF Latest
<1> QED BY <1>10

----------------------------------------------------------------------------
(* The rows a computation writes *)

\* Finitely many rows, one of a bucket at the most.
RowSet(rows) ==
    /\ IsFiniteSet(rows)
    /\ \A r \in rows : r.bucket \in Nat
    /\ \A r, q \in rows : r.bucket = q.bucket => r = q

\* What a function gives on a set.
Values(f, T) == {f[s] : s \in T}
NatOn(f, T) == \A s \in T : f[s] \in Nat

LEMMA ValuesFinite ==
    ASSUME NEW T, IsFiniteSet(T), NEW f
    PROVE  IsFiniteSet(Values(f, T))
<1>1. IsFiniteSet({f[s] : s \in T})
  BY ImageFinite
<1> QED BY <1>1 DEF Values

OfBuckets(f, bs) == \A b \in bs : f[b].bucket = b

LEMMA RowsOfBuckets ==
    ASSUME NEW bs, IsFiniteSet(bs), bs \subseteq Nat, NEW f, OfBuckets(f, bs)
    PROVE  RowSet(Values(f, bs))
<1>1. IsFiniteSet(Values(f, bs))
  BY ValuesFinite
<1>2. \A r \in Values(f, bs) : r.bucket \in bs /\ r = f[r.bucket]
  BY DEF Values, OfBuckets
<1> QED BY <1>1, <1>2 DEF RowSet

(* The greatest of finitely many numbers that minutes have. *)
LEMMA GreatestOverSlots ==
    ASSUME NEW T, T \subseteq Minutes, T # {}, NEW f, NatOn(f, T)
    PROVE  Max(Values(f, T)) \in Nat /\ \E s \in T : f[s] = Max(Values(f, T))
<1>1. PICK S : S = Values(f, T)
  OBVIOUS
<1>2. IsFiniteSet(T)
  BY FS_Subset, MinutesAndBuckets
<1>3. IsFiniteSet(S)
  BY <1>1, <1>2, ValuesFinite
<1>4. S \in SUBSET Nat /\ S # {}
  BY <1>1 DEF Values, NatOn
<1>5. Max(S) \in S
  BY <1>3, <1>4, MaxIn
<1> QED BY <1>1, <1>4, <1>5 DEF Values

LEMMA GreatestWith ==
    ASSUME NEW T, T \subseteq Minutes, NEW f, NatOn(f, T), NEW k \in Nat
    PROVE  Max(Values(f, T) \cup {k}) \in Nat
<1>1. PICK S : S = Values(f, T)
  OBVIOUS
<1>2. IsFiniteSet(T)
  BY FS_Subset, MinutesAndBuckets
<1>3. IsFiniteSet(S)
  BY <1>1, <1>2, ValuesFinite
<1>4. PICK U : U = S \cup {k}
  OBVIOUS
<1>5. IsFiniteSet(U) /\ U \in SUBSET Nat /\ U # {}
  BY <1>1, <1>3, <1>4, FS_AddElement DEF Values, NatOn
<1>6. Max(U) \in U
  BY <1>5, MaxIn
<1> QED BY <1>1, <1>4, <1>5, <1>6

(* The rows of a recompute job: for every bucket of it that has a revision
   under its frontier, one, with that frontier. *)
LEMMA RowsOfJobAre ==
    ASSUME RevisionsOK(revisions), NEW job, job.buckets \subseteq Buckets, job.known \in Nat
    PROVE  /\ RowSet(RowsOfJob(job))
           /\ \A row \in RowsOfJob(job) : /\ row.bucket \in job.buckets /\ row.known \in Nat
                                          /\ row.through = job.through /\ row.event = job.event
           /\ \A r \in revisions : r.id <= job.through /\ Bucket(r.slot) \in job.buckets =>
                  \E row \in RowsOfJob(job) : row.bucket = Bucket(r.slot)
<1> DEFINE revs == {r \in revisions : r.id <= job.through}
           inputs(b) == [s \in SlotsOf(b) \cap SlotsIn(revs) |->
                            <<Latest(revs, s).content, Latest(revs, s).content>>]
           known(b) == Max({job.known} \cup {Latest(revs, s).asOf : s \in DOMAIN inputs(b)})
           bs == {a \in job.buckets : SlotsOf(a) \cap SlotsIn(revs) # {}}
           row(b) == [bucket |-> b, covered |-> job.cov, through |-> job.through,
                      event |-> job.event, known |-> known(b),
                      result |-> Aggregate(b, inputs(b), job.cov)]
<1>1. RowsOfJob(job) = {row(b) : b \in bs}
  BY DEF RowsOfJob
<1>2. RevisionsOK(revs)
  BY FS_Subset DEF RevisionsOK
<1>3. IsFiniteSet(bs) /\ bs \subseteq Nat
  <2>1. PICK f : f = [s \in Minutes |-> Bucket(s)]
    OBVIOUS
  <2>2. Buckets = {f[s] : s \in Minutes}
    BY <2>1 DEF Buckets
  <2>3. IsFiniteSet(Buckets)
    BY <2>2, ImageFinite, MinutesAndBuckets
  <2>4. bs \subseteq Buckets
    OBVIOUS
  <2> HIDE DEF bs
  <2> QED BY <2>3, <2>4, MinutesAndBuckets, FS_Subset
<1>4. ASSUME NEW b \in bs PROVE known(b) \in Nat
  <2>1. PICK T : T = SlotsOf(b) \cap SlotsIn(revs)
    OBVIOUS
  <2>2. PICK f : f = [s \in T |-> Latest(revs, s).asOf]
    OBVIOUS
  <2>3. T \subseteq Minutes
    BY <2>1 DEF SlotsOf
  <2>4. NatOn(f, T)
    <3> HIDE DEF revs
    <3> QED BY <1>2, <2>1, <2>2, LatestIsOne DEF RevisionsOK, NatOn
  <2>5. known(b) = Max({job.known} \cup {f[s] : s \in T})
    BY <2>1, <2>2
  <2>6. PICK k \in Nat : k = job.known
    OBVIOUS
  <2>7. Max(Values(f, T) \cup {k}) \in Nat
    BY <2>3, <2>4, GreatestWith
  <2>8. {job.known} \cup {f[s] : s \in T} = Values(f, T) \cup {k}
    BY <2>6 DEF Values
  <2> QED BY <2>5, <2>7, <2>8
<1> HIDE DEF known, inputs
<1>5. PICK f : f = [b \in bs |-> row(b)]
  OBVIOUS
<1>6. \A b \in bs : f[b] = row(b) /\ f[b].bucket = b
  BY <1>5
<1>7. RowSet(Values(f, bs))
  <2>1. OfBuckets(f, bs)
    BY <1>6 DEF OfBuckets
  <2> HIDE DEF bs, row
  <2> QED BY <1>3, <2>1, RowsOfBuckets
<1>8. RowsOfJob(job) = Values(f, bs)
  <2> HIDE DEF bs, row
  <2> QED BY <1>1, <1>6 DEF Values
<1>9. \A b \in bs : /\ row(b).bucket = b /\ row(b).known \in Nat
                    /\ row(b).through = job.through /\ row(b).event = job.event
  BY <1>4
<1>10. \A r \in revisions : r.id <= job.through /\ Bucket(r.slot) \in job.buckets => Bucket(r.slot) \in bs
  BY DEF SlotsOf, SlotsIn, RevisionsOK
<1>11. \A b \in bs : b \in job.buckets
  OBVIOUS
<1> HIDE DEF bs, row
<1>12. \A x \in RowsOfJob(job) : /\ x.bucket \in job.buckets /\ x.known \in Nat
                                 /\ x.through = job.through /\ x.event = job.event
  BY <1>1, <1>9, <1>11
<1>13. \A r \in revisions : r.id <= job.through /\ Bucket(r.slot) \in job.buckets =>
           \E x \in RowsOfJob(job) : x.bucket = Bucket(r.slot)
  BY <1>1, <1>9, <1>10
<1>14. RowSet(RowsOfJob(job))
  BY <1>7, <1>8
<1> QED BY <1>12, <1>13, <1>14

\* What a full aggregation has read: revisions of the slots it has.
ReadOK(read, rv) ==
    /\ DOMAIN read \subseteq Minutes
    /\ \A s \in DOMAIN read : read[s].revision \in rv /\ read[s].revision.slot = s

(* The rows of a full aggregation name the newest revision they read of the
   bucket and the newest event about it. *)
LEMMA RowsOfReadAre ==
    ASSUME RevisionsOK(revisions), EventsOK(events), NEW read, ReadOK(read, revisions), NEW cov
    PROVE  /\ RowSet(RowsOfRead(read, cov))
           /\ \A row \in RowsOfRead(read, cov) :
                  /\ row.event = QualityCeiling(events, SlotsOf(row.bucket))
                  /\ FrontierOK(row, revisions, events)
                  /\ \E r \in revisions : Bucket(r.slot) = row.bucket /\ row.through = r.id
<1> DEFINE inputs(b) == [s \in SlotsOf(b) \cap DOMAIN read |->
                            <<read[s].content, read[s].revision.content>>]
           through(b) == Max({read[s].revision.id : s \in DOMAIN inputs(b)})
           ceiling(b) == QualityCeiling(events, SlotsOf(b))
           known(b) == Max({read[s].revision.asOf : s \in DOMAIN inputs(b)}
                           \cup {IF ceiling(b) = 0 THEN 0 ELSE events[ceiling(b)].at})
           bs == {Bucket(s) : s \in DOMAIN read}
           row(b) == [bucket |-> b, covered |-> Restrict(coverage, SlotsOf(b)),
                      through |-> through(b), event |-> ceiling(b), known |-> known(b),
                      result |-> Aggregate(b, inputs(b), cov)]
<1>1. RowsOfRead(read, cov) = {row(b) : b \in bs}
  BY DEF RowsOfRead
<1>2. IsFiniteSet(bs) /\ bs \subseteq Nat
  <2>1. PICK T : T = DOMAIN read
    OBVIOUS
  <2>2. PICK f : f = [s \in T |-> Bucket(s)]
    OBVIOUS
  <2>3. bs = Values(f, T)
    BY <2>1, <2>2 DEF Values
  <2>4. IsFiniteSet(T)
    BY <2>1, MinutesAndBuckets, FS_Subset DEF ReadOK
  <2>5. IsFiniteSet(Values(f, T))
    BY <2>4, ValuesFinite
  <2>6. bs \subseteq Nat
    BY MinutesAndBuckets DEF ReadOK
  <2> HIDE DEF bs
  <2> QED BY <2>3, <2>5, <2>6
<1>3. ASSUME NEW b \in bs
      PROVE  /\ through(b) \in Nat /\ known(b) \in Nat
             /\ \E r \in revisions : Bucket(r.slot) = b /\ through(b) = r.id
  <2>1. PICK T : T = SlotsOf(b) \cap DOMAIN read
    OBVIOUS
  <2>2. PICK f, g : /\ f = [s \in T |-> read[s].revision.id]
                    /\ g = [s \in T |-> read[s].revision.asOf]
    OBVIOUS
  <2>3. T \subseteq Minutes /\ T # {} /\ \A s \in T : Bucket(s) = b
    BY <2>1 DEF SlotsOf, ReadOK
  <2>4. \A s \in T : /\ read[s].revision \in revisions /\ Bucket(read[s].revision.slot) = b
                     /\ f[s] = read[s].revision.id /\ g[s] = read[s].revision.asOf
    BY <2>1, <2>2, <2>3 DEF ReadOK
  <2>5. NatOn(f, T) /\ NatOn(g, T)
    BY <2>4 DEF NatOn, RevisionsOK
  <2>6. through(b) = Max(Values(f, T))
    BY <2>1, <2>2 DEF Values
  <2>7. through(b) \in Nat /\ \E s \in T : f[s] = through(b)
    BY <2>3, <2>5, <2>6, GreatestOverSlots
  <2>8. PICK c, k : c = ceiling(b) /\ k = IF c = 0 THEN 0 ELSE events[c].at
    OBVIOUS
  <2>9. k \in Nat
    BY <2>8, CeilingIsNewest DEF EventsOK
  <2>10. Max(Values(g, T) \cup {k}) \in Nat
    BY <2>3, <2>5, <2>9, GreatestWith
  <2>11. known(b) = Max(Values(g, T) \cup {k})
    BY <2>1, <2>2, <2>8 DEF Values
  <2> QED BY <2>4, <2>7, <2>10, <2>11
<1>4. \A b \in bs : ceiling(b) \in Nat /\ ceiling(b) <= Len(events)
  BY CeilingIsNewest
<1> HIDE DEF known, through, inputs
<1>5. PICK f : f = [b \in bs |-> row(b)]
  OBVIOUS
<1>6. \A b \in bs : f[b] = row(b) /\ f[b].bucket = b
  BY <1>5
<1>7. RowSet(Values(f, bs))
  <2>1. OfBuckets(f, bs)
    BY <1>6 DEF OfBuckets
  <2> HIDE DEF bs, row
  <2> QED BY <1>2, <2>1, RowsOfBuckets
<1>8. RowsOfRead(read, cov) = Values(f, bs)
  <2> HIDE DEF bs, row
  <2> QED BY <1>1, <1>6 DEF Values
<1>9. ASSUME NEW b \in bs
      PROVE  /\ row(b).event = QualityCeiling(events, SlotsOf(row(b).bucket))
             /\ FrontierOK(row(b), revisions, events)
             /\ \E r \in revisions : Bucket(r.slot) = row(b).bucket /\ row(b).through = r.id
  <2>1. /\ row(b).bucket = b /\ row(b).through = through(b) /\ row(b).event = ceiling(b)
        /\ row(b).known = known(b)
    OBVIOUS
  <2>2. PICK x : x = row(b)
    OBVIOUS
  <2>3. PICK r \in revisions : Bucket(r.slot) = b /\ through(b) = r.id
    BY <1>3
  <2>4. x.through \in Nat /\ x.event \in Nat /\ x.known \in Nat /\ x.event <= Len(events)
        /\ x.through = r.id
    BY <1>3, <1>4, <2>1, <2>2, <2>3
  <2> HIDE DEF row
  <2>5. FrontierOK(x, revisions, events)
    BY <2>4 DEF FrontierOK
  <2> QED BY <2>1, <2>2, <2>3, <2>5
<1> HIDE DEF bs, row
<1> QED BY <1>1, <1>7, <1>8, <1>9

\* The rows that a write leaves: those there were, then some of the new ones,
\* with a row at the frontier of each new one.
Written(new, old, rows) ==
    /\ new \in Seq({new[i] : i \in DOMAIN new})
    /\ \A i \in DOMAIN old : i \in DOMAIN new /\ new[i] = old[i]
    /\ \A i \in DOMAIN new : i \in DOMAIN old \/ new[i] \in rows
    /\ \A r \in rows : \E i \in DOMAIN new :
           new[i].bucket = r.bucket /\ new[i].through = r.through /\ new[i].event = r.event

Sequence(s) == s \in Seq({s[i] : i \in DOMAIN s})

\* u is s with t at its end.
Joined(u, s, t) ==
    /\ Sequence(u) /\ Len(s) \in Nat /\ Len(t) \in Nat
    /\ DOMAIN s = 1..Len(s) /\ DOMAIN t = 1..Len(t)
    /\ DOMAIN u = 1..(Len(s) + Len(t)) /\ Len(u) = Len(s) + Len(t)
    /\ \A i \in DOMAIN s : u[i] = s[i]
    /\ \A i \in DOMAIN t : u[Len(s) + i] = t[i]
    /\ \A i \in DOMAIN u : i \in DOMAIN s \/ \E k \in DOMAIN t : i = Len(s) + k

LEMMA Concatenated ==
    ASSUME NEW s, Sequence(s), NEW t, Sequence(t)
    PROVE  Joined(s \o t, s, t)
<1>1. PICK S : S = {s[i] : i \in DOMAIN s} \cup {t[i] : i \in DOMAIN t}
  OBVIOUS
<1>2. /\ Len(s) \in Nat /\ DOMAIN s = 1..Len(s) /\ s = [i \in 1..Len(s) |-> s[i]]
      /\ Len(t) \in Nat /\ DOMAIN t = 1..Len(t) /\ t = [i \in 1..Len(t) |-> t[i]]
  BY DEF Sequence
<1>3. s \in Seq(S) /\ t \in Seq(S)
  <2>1. Fills(s, Len(s), S) /\ Fills(t, Len(t), S)
    BY <1>1, <1>2 DEF Fills
  <2>2. PICK m, n \in Nat : m = Len(s) /\ n = Len(t)
    BY <1>2
  <2>3. s \in Seq(S)
    BY <2>1, <2>2, SequenceOf
  <2>4. t \in Seq(S)
    BY <2>1, <2>2, SequenceOf
  <2> QED BY <2>3, <2>4
<1>4. PICK u : u = s \o t
  OBVIOUS
<1>5. u \in Seq(S) /\ Len(u) = Len(s) + Len(t)
  BY <1>3, <1>4
<1>6. /\ \A i \in 1..Len(s) : u[i] = s[i]
      /\ \A i \in 1..Len(t) : u[Len(s) + i] = t[i]
  BY <1>3, <1>4
<1>7. DOMAIN u = 1..(Len(s) + Len(t)) /\ u = [i \in 1..Len(u) |-> u[i]] /\ Len(u) \in Nat
  BY <1>2, <1>5
<1>8. Sequence(u)
  <2>1. PICK U, n : U = {u[i] : i \in DOMAIN u} /\ n = Len(u)
    OBVIOUS
  <2>2. Fills(u, n, U) /\ n \in Nat
    BY <1>5, <1>7, <2>1 DEF Fills
  <2>3. u \in Seq(U)
    BY <2>2, SequenceOf
  <2> QED BY <2>1, <2>3 DEF Sequence
<1>9. ASSUME NEW i \in DOMAIN u PROVE i \in DOMAIN s \/ \E k \in DOMAIN t : i = Len(s) + k
  <2>1. CASE i > Len(s)
    <3>1. i - Len(s) \in DOMAIN t /\ i = Len(s) + (i - Len(s))
      BY <1>2, <1>7, <2>1
    <3> QED BY <3>1
  <2>2. CASE ~(i > Len(s))
    BY <1>2, <1>7, <2>2
  <2> QED BY <2>1, <2>2
<1> QED BY <1>2, <1>4, <1>5, <1>6, <1>7, <1>8, <1>9 DEF Joined

LEMMA InsertedRows ==
    ASSUME rollups \in Seq({rollups[i] : i \in DOMAIN rollups}), NEW rows, RowSet(rows)
    PROVE  Written(Inserted(rows), rollups, rows)
<1> DEFINE fresh == {r \in rows : \A k \in DOMAIN rollups : ~SameKey(rollups[k], r)}
           position(r) == Cardinality({q \in fresh : q.bucket <= r.bucket})
           pick(n) == CHOOSE r \in fresh : position(r) = n
           tail == [n \in 1..Cardinality(fresh) |-> pick(n)]
<1>1. Inserted(rows) = rollups \o tail
  BY DEF Inserted
<1>2. \A r \in rows : r \in fresh \/ \E k \in DOMAIN rollups :
          /\ rollups[k].bucket = r.bucket /\ rollups[k].through = r.through
          /\ rollups[k].event = r.event
  BY DEF SameKey
<1>3. fresh \subseteq rows
  OBVIOUS
<1>4. PICK F : F = fresh
  OBVIOUS
<1>5. PICK key : key = [r \in F |-> r.bucket]
  OBVIOUS
<1>6. ToldApart(F, key)
  <2>1. F \subseteq rows
    BY <1>3, <1>4
  <2>2. IsFiniteSet(F)
    BY <2>1, FS_Subset DEF RowSet
  <2> HIDE DEF fresh
  <2> QED BY <1>5, <2>1, <2>2 DEF ToldApart, RowSet
<1>7. \A r \in F : position(r) = Cardinality(UpTo(F, key, r))
  <2>1. \A r \in F : UpTo(F, key, r) = {q \in F : q.bucket <= r.bucket}
    BY <1>5 DEF UpTo
  <2> HIDE DEF fresh
  <2> QED BY <1>4, <2>1
<1>8. \A n \in 1..Cardinality(F) : \E r \in F : Cardinality(UpTo(F, key, r)) = n
  BY <1>6, EveryPlaceTaken DEF Numbered
<1> HIDE DEF position, fresh
<1>9. \A n \in 1..Cardinality(F) : \E r \in F : position(r) = n
  BY <1>7, <1>8
<1>10. \A n \in 1..Cardinality(F) : pick(n) \in F /\ position(pick(n)) = n
  BY <1>4, <1>9
<1>11. tail = [n \in 1..Cardinality(F) |-> pick(n)]
  BY <1>4
<1> HIDE DEF pick, tail
<1>12. PICK t : t = tail
  OBVIOUS
<1>13. ByNumber(t, F, key)
  BY <1>7, <1>10, <1>11, <1>12 DEF ByNumber
<1>14. Lists(t, F)
  BY <1>6, <1>13, ListedByNumber
<1>15. Sequence(t)
  <2>1. PICK c \in Nat : c = Cardinality(F)
    BY <1>6, FS_CardinalityType DEF ToldApart
  <2>2. PICK T : T = {t[i] : i \in DOMAIN t}
    OBVIOUS
  <2>3. t = [n \in 1..c |-> t[n]]
    BY <1>13, <2>1 DEF ByNumber
  <2>4. Fills(t, c, T)
    BY <2>2, <2>3 DEF Fills
  <2>5. t \in Seq(T)
    BY <2>4, SequenceOf
  <2> QED BY <2>2, <2>5 DEF Sequence
<1>16. PICK old, new : old = rollups /\ new = old \o t
  OBVIOUS
<1>17. Joined(new, old, t)
  <2>1. Sequence(old)
    BY <1>16 DEF Sequence
  <2> QED BY <1>15, <1>16, <2>1, Concatenated
<1>18. /\ Sequence(new) /\ Len(old) \in Nat /\ Len(t) \in Nat
       /\ DOMAIN old = 1..Len(old) /\ DOMAIN t = 1..Len(t)
       /\ DOMAIN new = 1..(Len(old) + Len(t))
       /\ \A i \in DOMAIN old : new[i] = old[i]
       /\ \A i \in DOMAIN t : new[Len(old) + i] = t[i]
       /\ \A i \in DOMAIN new : i \in DOMAIN old \/ \E k \in DOMAIN t : i = Len(old) + k
  BY <1>17 DEF Joined
<1>19. \A i \in DOMAIN new : i \in DOMAIN old \/ new[i] \in rows
  BY <1>3, <1>4, <1>14, <1>18 DEF Lists
<1>20. ASSUME NEW r \in rows
       PROVE  \E i \in DOMAIN new : /\ new[i].bucket = r.bucket /\ new[i].through = r.through
                                    /\ new[i].event = r.event
  <2>1. CASE r \in F
    <3>1. PICK n \in DOMAIN t : t[n] = r
      BY <1>14, <2>1 DEF Lists
    <3>2. Len(old) + n \in DOMAIN new /\ new[Len(old) + n] = r
      BY <1>18, <3>1
    <3> QED BY <3>2
  <2>2. CASE r \notin F
    <3>1. PICK k \in DOMAIN old : /\ old[k].bucket = r.bucket /\ old[k].through = r.through
                                  /\ old[k].event = r.event
      BY <1>2, <1>4, <1>16, <2>2
    <3>2. k \in DOMAIN new /\ new[k] = old[k]
      BY <1>18
    <3> QED BY <3>1, <3>2
  <2> QED BY <2>1, <2>2
<1>21. \A i \in DOMAIN old : i \in DOMAIN new /\ new[i] = old[i]
  BY <1>18
<1>22. Written(new, old, rows)
  BY <1>18, <1>19, <1>20, <1>21 DEF Written, Sequence
<1> QED BY <1>1, <1>12, <1>16, <1>22

----------------------------------------------------------------------------
(* Claims on a bucket *)

\* A row of the bucket, or a job over it that has yet to succeed, has the
\* frontier t, e.
IsClaim(js, rl, b, t, e) ==
    \/ \E i \in DOMAIN rl : rl[i].bucket = b /\ rl[i].through = t /\ rl[i].event = e
    \/ \E j \in DOMAIN js : /\ js[j].status # "succeeded" /\ b \in js[j].buckets
                            /\ js[j].through = t /\ js[j].event = e

\* u, f is no newer than t, e.
AtMost(u, f, t, e) == u < t \/ (u = t /\ f <= e)

\* t, e is as new as any revision and any event of the bucket.
Covers(t, e, rv, ev, b) ==
    /\ \A r \in rv : Bucket(r.slot) = b => r.id <= t
    /\ \A i \in DOMAIN ev : ev[i].slots \cap SlotsOf(b) # {} => i <= e

\* One claim is as new as the bucket, and no claim is newer.
Tops(t, e, js, rl, rv, ev, b) ==
    /\ t \in Nat /\ e \in Nat
    /\ IsClaim(js, rl, b, t, e)
    /\ Covers(t, e, rv, ev, b)
    /\ \A u, f \in Nat : IsClaim(js, rl, b, u, f) => AtMost(u, f, t, e)
Topped(js, rl, rv, ev, b) == \E t, e : Tops(t, e, js, rl, rv, ev, b)
AllTopped(js, rl, rv, ev) == \A r \in rv : Topped(js, rl, rv, ev, Bucket(r.slot))

RowsOK(rl, rv, ev) ==
    /\ Sequence(rl)
    /\ \A i \in DOMAIN rl : FrontierOK(rl[i], rv, ev)

LEMMA ClaimsAreFrontiers ==
    ASSUME NEW js, NEW rl, NEW rv, NEW ev, JobsOK(js, rv, ev), RowsOK(rl, rv, ev),
           NEW b, NEW t, NEW e, IsClaim(js, rl, b, t, e)
    PROVE  t \in Nat /\ e \in Nat /\ e <= Len(ev) /\ \E r \in rv : t <= r.id
BY DEF IsClaim, JobsOK, JobOK, RowsOK, FrontierOK

\* A claim that no revision and no event of the bucket is behind.
Behind(u, f, rv, ev, b) ==
    /\ \E r \in rv : Bucket(r.slot) = b /\ u <= r.id
    /\ f = 0 \/ (f \in DOMAIN ev /\ ev[f].slots \cap SlotsOf(b) # {})

(* Claims may go but for one that covers the bucket, and come if they are
   behind it. *)
LEMMA StillTopped ==
    ASSUME NEW js, NEW rl, NEW rv, NEW ev, NEW b, Topped(js, rl, rv, ev, b),
           RevisionsOK(rv), NEW njs, NEW nrl,
           \A t, e \in Nat : IsClaim(js, rl, b, t, e) /\ Covers(t, e, rv, ev, b)
               => IsClaim(njs, nrl, b, t, e),
           \A u, f \in Nat : IsClaim(njs, nrl, b, u, f)
               => IsClaim(js, rl, b, u, f) \/ Behind(u, f, rv, ev, b)
    PROVE  Topped(njs, nrl, rv, ev, b)
<1>1. PICK t, e : Tops(t, e, js, rl, rv, ev, b)
  BY DEF Topped
<1>2. t \in Nat /\ e \in Nat /\ IsClaim(njs, nrl, b, t, e) /\ Covers(t, e, rv, ev, b)
  BY <1>1 DEF Tops
<1>3. ASSUME NEW u \in Nat, NEW f \in Nat, IsClaim(njs, nrl, b, u, f) PROVE AtMost(u, f, t, e)
  <2>1. CASE IsClaim(js, rl, b, u, f)
    BY <1>1, <2>1 DEF Tops
  <2>2. CASE Behind(u, f, rv, ev, b)
    <3>1. PICK r \in rv : Bucket(r.slot) = b /\ u <= r.id
      BY <2>2 DEF Behind
    <3>2. r.id <= t /\ r.id \in Nat
      BY <1>2, <3>1 DEF Covers, RevisionsOK
    <3>3. u <= t
      BY <1>2, <3>1, <3>2
    <3>4. f <= e
      BY <1>2, <2>2 DEF Behind, Covers
    <3> QED BY <1>2, <3>3, <3>4 DEF AtMost
  <2> QED BY <1>3, <2>1, <2>2
<1>4. Tops(t, e, njs, nrl, rv, ev, b)
  BY <1>2, <1>3 DEF Tops
<1> QED BY <1>4 DEF Topped

----------------------------------------------------------------------------
(* A change: its revisions, its event and the jobs it queues *)

\* The jobs there were, then the quality jobs, then the source jobs.
Added(njs, js, q, s) ==
    /\ Sequence(njs)
    /\ \A i \in DOMAIN js : i \in DOMAIN njs /\ njs[i] = js[i]
    /\ \A n \in DOMAIN q : \E i \in DOMAIN njs : njs[i] = q[n]
    /\ \A n \in DOMAIN s : \E i \in DOMAIN njs : njs[i] = s[n]
    /\ \A i \in DOMAIN njs : \/ i \in DOMAIN js
                             \/ \E n \in DOMAIN q : njs[i] = q[n]
                             \/ \E n \in DOMAIN s : njs[i] = s[n]

LEMMA AddedJobs ==
    ASSUME NEW js, Sequence(js), NEW q, Sequence(q), NEW s, Sequence(s)
    PROVE  Added((js \o q) \o s, js, q, s)
<1>1. PICK u : u = js \o q
  OBVIOUS
<1>2. PICK v : v = u \o s
  OBVIOUS
<1>3. Joined(u, js, q)
  BY <1>1, Concatenated
<1>4. Joined(v, u, s)
  <2>1. Sequence(u)
    BY <1>3 DEF Joined
  <2> QED BY <1>2, <2>1, Concatenated
<1>5. \A i \in DOMAIN js : i \in DOMAIN u /\ u[i] = js[i]
  BY <1>3 DEF Joined
<1>6. \A i \in DOMAIN u : i \in DOMAIN v /\ v[i] = u[i]
  BY <1>4 DEF Joined
<1>7. \A n \in DOMAIN q : \E i \in DOMAIN u : u[i] = q[n]
  <2> TAKE n \in DOMAIN q
  <2>1. Len(js) + n \in DOMAIN u /\ u[Len(js) + n] = q[n]
    BY <1>3 DEF Joined
  <2> QED BY <2>1
<1>8. \A n \in DOMAIN s : \E i \in DOMAIN v : v[i] = s[n]
  <2> TAKE n \in DOMAIN s
  <2>1. Len(u) + n \in DOMAIN v /\ v[Len(u) + n] = s[n]
    BY <1>4 DEF Joined
  <2> QED BY <2>1
<1>9. \A i \in DOMAIN u : i \in DOMAIN js \/ \E n \in DOMAIN q : u[i] = q[n]
  BY <1>3 DEF Joined
<1>10. \A i \in DOMAIN v : i \in DOMAIN u \/ \E n \in DOMAIN s : v[i] = s[n]
  BY <1>4 DEF Joined
<1>11. \A n \in DOMAIN q : \E i \in DOMAIN v : v[i] = q[n]
  BY <1>6, <1>7
<1>12. \A i \in DOMAIN v : \/ i \in DOMAIN js
                           \/ \E n \in DOMAIN q : v[i] = q[n]
                           \/ \E n \in DOMAIN s : v[i] = s[n]
  BY <1>6, <1>9, <1>10
<1>13. \A i \in DOMAIN js : i \in DOMAIN v /\ v[i] = js[i]
  BY <1>5, <1>6
<1>14. Sequence(v)
  BY <1>4 DEF Joined
<1> QED BY <1>1, <1>2, <1>8, <1>11, <1>12, <1>13, <1>14 DEF Added

\* The store after a change: more revisions, at most one more event.
Changes(rv, ev, created, changed, nrv, nev) ==
    /\ RevisionsOK(rv) /\ RevisionsOK(created) /\ nrv = rv \cup created
    /\ EventsOK(ev) /\ EventsOK(nev)
    /\ \/ changed = {} /\ nev = ev
       \/ /\ Len(nev) = Len(ev) + 1 /\ nev[Len(nev)].slots = changed
          /\ \A i \in DOMAIN ev : nev[i] = ev[i]

LEMMA FrontierKept ==
    ASSUME NEW rv, NEW ev, NEW created, NEW changed, NEW nrv, NEW nev,
           Changes(rv, ev, created, changed, nrv, nev), NEW x, FrontierOK(x, rv, ev)
    PROVE  FrontierOK(x, nrv, nev)
<1>1. Len(ev) \in Nat /\ Len(nev) \in Nat /\ Len(ev) <= Len(nev)
  BY DEF Changes, EventsOK
<1> QED BY <1>1 DEF Changes, FrontierOK

LEMMA UnionOK ==
    ASSUME NEW rv, RevisionsOK(rv), NEW created, RevisionsOK(created)
    PROVE  RevisionsOK(rv \cup created)
BY FS_Union DEF RevisionsOK

(* The jobs and the rows stay within the store. *)
LEMMA ChangeKeepsFrontiers ==
    ASSUME NEW rv, NEW ev, NEW created, NEW changed, NEW nrv, NEW nev,
           Changes(rv, ev, created, changed, nrv, nev),
           NEW js, JobsOK(js, rv, ev), NEW rl, RowsOK(rl, rv, ev),
           NEW q, QualityQueued(q, changed, nrv, nev), NEW s, SourceQueued(s, created, nrv, nev),
           NEW njs, Added(njs, js, q, s)
    PROVE  JobsOK(njs, nrv, nev) /\ RowsOK(rl, nrv, nev)
<1>1. RowsOK(rl, nrv, nev)
  BY FrontierKept DEF RowsOK
<1>2. \A i \in DOMAIN js : JobOK(js[i], nrv, nev)
  BY FrontierKept DEF JobsOK, JobOK
<1>3. (\A n \in DOMAIN q : JobOK(q[n], nrv, nev)) /\ \A n \in DOMAIN s : JobOK(s[n], nrv, nev)
  BY DEF QualityQueued, SourceQueued, Queued
<1>4. \A i \in DOMAIN njs : JobOK(njs[i], nrv, nev)
  BY <1>2, <1>3 DEF Added
<1> QED BY <1>1, <1>4 DEF JobsOK, Added, Sequence

(* A bucket whose coverage changed: its quality job is newer than all else. *)
LEMMA ChangedBucketTopped ==
    ASSUME NEW rv, NEW ev, NEW created, NEW changed, NEW nrv, NEW nev,
           Changes(rv, ev, created, changed, nrv, nev),
           NEW js, JobsOK(js, rv, ev), NEW rl, RowsOK(rl, rv, ev),
           NEW q, QualityQueued(q, changed, nrv, nev), NEW s, SourceQueued(s, created, nrv, nev),
           NEW njs, Added(njs, js, q, s),
           NEW m \in changed, NEW p \in nrv, Bucket(m) = Bucket(p.slot)
    PROVE  Topped(njs, rl, nrv, nev, Bucket(p.slot))
<1>1. PICK b : b = Bucket(p.slot)
  OBVIOUS
<1>2. PICK n \in DOMAIN q : b \in q[n].buckets
  BY <1>1 DEF QualityQueued
<1>3. PICK i \in DOMAIN njs : njs[i] = q[n]
  BY <1>2 DEF Added
<1>4. PICK t, e : t = q[n].through /\ e = q[n].event
  OBVIOUS
<1>5. /\ q[n].status = "pending" /\ e = Len(nev) /\ \A r \in nrv : r.id <= t
      /\ FrontierOK(q[n], nrv, nev)
  BY <1>4 DEF QualityQueued, Queued, JobOK
<1>6. t \in Nat /\ e \in Nat
  BY <1>4, <1>5 DEF FrontierOK
<1>7. IsClaim(njs, rl, b, t, e)
  BY <1>2, <1>3, <1>4, <1>5 DEF IsClaim
<1>8. JobsOK(njs, nrv, nev) /\ RowsOK(rl, nrv, nev)
  BY ChangeKeepsFrontiers
<1>9. ASSUME NEW u \in Nat, NEW f \in Nat, IsClaim(njs, rl, b, u, f) PROVE AtMost(u, f, t, e)
  <2>1. f <= Len(nev) /\ \E r \in nrv : u <= r.id
    BY <1>8, <1>9, ClaimsAreFrontiers
  <2>2. PICK r \in nrv : u <= r.id
    BY <2>1
  <2>3. r.id \in Nat /\ r.id <= t
    BY <1>5, UnionOK DEF Changes, RevisionsOK
  <2>4. u <= t /\ f <= e
    BY <1>5, <1>6, <2>1, <2>2, <2>3
  <2> QED BY <1>6, <2>4 DEF AtMost
<1>10. Covers(t, e, nrv, nev, b)
  <2>1. \A k \in DOMAIN nev : k <= e
    BY <1>5 DEF Changes, EventsOK
  <2> QED BY <1>5, <2>1 DEF Covers
<1>11. Tops(t, e, njs, rl, nrv, nev, b)
  BY <1>6, <1>7, <1>9, <1>10 DEF Tops
<1> QED BY <1>1, <1>11 DEF Topped

(* A bucket whose coverage did not change: its newest claim, or the source job
   of the new revisions, whichever is newer. *)
LEMMA UnchangedBucketTopped ==
    ASSUME NEW rv, NEW ev, NEW created, NEW changed, NEW nrv, NEW nev,
           Changes(rv, ev, created, changed, nrv, nev),
           NEW js, JobsOK(js, rv, ev), NEW rl, RowsOK(rl, rv, ev),
           NEW q, QualityQueued(q, changed, nrv, nev), NEW s, SourceQueued(s, created, nrv, nev),
           NEW njs, Added(njs, js, q, s), changed \subseteq Minutes,
           NEW b, b \notin BucketsOf(changed), Topped(js, rl, rv, ev, b)
    PROVE  Topped(njs, rl, nrv, nev, b)
<1>1. PICK t, e : Tops(t, e, js, rl, rv, ev, b)
  BY DEF Topped
<1>2. \A u, f : IsClaim(js, rl, b, u, f) => IsClaim(njs, rl, b, u, f)
  BY DEF IsClaim, Added
<1>3. \A i \in DOMAIN nev : nev[i].slots \cap SlotsOf(b) # {} => i \in DOMAIN ev /\ nev[i] = ev[i]
  <2> SUFFICES ASSUME NEW i \in DOMAIN nev, nev[i].slots \cap SlotsOf(b) # {}
               PROVE  i \in DOMAIN ev /\ nev[i] = ev[i]
    OBVIOUS
  <2>1. changed \cap SlotsOf(b) = {}
    BY DEF BucketsOf, SlotsOf
  <2>2. CASE nev = ev
    BY <2>2
  <2>3. CASE /\ Len(nev) = Len(ev) + 1 /\ nev[Len(nev)].slots = changed
             /\ \A k \in DOMAIN ev : nev[k] = ev[k]
    <3>1. i # Len(nev)
      BY <2>1, <2>3
    <3>2. /\ DOMAIN ev = 1..Len(ev) /\ DOMAIN nev = 1..Len(nev)
          /\ Len(ev) \in Nat /\ Len(nev) \in Nat
      BY DEF Changes, EventsOK
    <3>3. i \in DOMAIN ev
      BY <2>3, <3>1, <3>2
    <3> QED BY <2>3, <3>3
  <2> QED BY <2>2, <2>3 DEF Changes
<1>4. \A n \in DOMAIN q : b \notin q[n].buckets
  BY DEF QualityQueued, Queued
<1>5. t \in Nat /\ e \in Nat /\ Covers(t, e, rv, ev, b) /\ IsClaim(njs, rl, b, t, e)
  BY <1>1, <1>2 DEF Tops
<1>6. CASE \E n \in DOMAIN s : b \in s[n].buckets
  <2>1. PICK n \in DOMAIN s : b \in s[n].buckets
    BY <1>6
  <2>2. PICK v, g : v = s[n].through /\ g = s[n].event
    OBVIOUS
  <2>3. v \in Nat /\ g \in Nat /\ s[n].status = "pending"
    BY <2>2 DEF SourceQueued, Queued, JobOK, FrontierOK
  <2>4. IsClaim(njs, rl, b, v, g)
    <3>1. PICK i \in DOMAIN njs : njs[i] = s[n]
      BY DEF Added
    <3> QED BY <2>1, <2>2, <2>3, <3>1 DEF IsClaim
  <2>5. \A k \in DOMAIN s : b \in s[k].buckets => s[k].through = v /\ s[k].event = g
    BY <2>1, <2>2 DEF SourceQueued
  <2>6. \A u, f : IsClaim(njs, rl, b, u, f) => IsClaim(js, rl, b, u, f) \/ (u = v /\ f = g)
    <3> SUFFICES ASSUME NEW u, NEW f, IsClaim(njs, rl, b, u, f), ~IsClaim(js, rl, b, u, f)
                 PROVE  u = v /\ f = g
      OBVIOUS
    <3>1. PICK j \in DOMAIN njs : /\ njs[j].status # "succeeded" /\ b \in njs[j].buckets
                                  /\ njs[j].through = u /\ njs[j].event = f
      BY DEF IsClaim
    <3>2. j \notin DOMAIN js
      BY <3>1 DEF IsClaim, Added
    <3>3. PICK k \in DOMAIN s : njs[j] = s[k]
      BY <1>4, <3>1, <3>2 DEF Added
    <3> QED BY <2>5, <3>1, <3>3
  <2>7. \A u, f \in Nat : IsClaim(js, rl, b, u, f) => AtMost(u, f, t, e)
    BY <1>1 DEF Tops
  <2>8. \A r \in created : r.id <= v
    BY <2>2 DEF SourceQueued
  <2>9. \A i \in DOMAIN nev : nev[i].slots \cap SlotsOf(b) # {} => i <= g
    BY <2>1, <2>2 DEF SourceQueued
  <2>10. \A r \in rv : Bucket(r.slot) = b => r.id <= t
    BY <1>5 DEF Covers
  <2>11. \A i \in DOMAIN nev : nev[i].slots \cap SlotsOf(b) # {} => i <= e
    BY <1>3, <1>5 DEF Covers
  <2>12. /\ \A r \in rv : r.id \in Nat
         /\ \A r \in created : r.id \in Nat
         /\ \A i \in DOMAIN nev : i \in Nat
    BY DEF Changes, RevisionsOK, EventsOK
  <2>13. CASE v > t \/ (v = t /\ g > e)
    <3>1. Covers(v, g, nrv, nev, b)
      <4>1. \A r \in nrv : Bucket(r.slot) = b => r.id <= v
        BY <1>5, <2>3, <2>8, <2>10, <2>12, <2>13 DEF Changes
      <4> QED BY <2>9, <4>1 DEF Covers
    <3>2. ASSUME NEW u \in Nat, NEW f \in Nat, IsClaim(njs, rl, b, u, f) PROVE AtMost(u, f, v, g)
      <4>1. CASE u = v /\ f = g
        BY <4>1, <2>3 DEF AtMost
      <4>2. CASE IsClaim(js, rl, b, u, f)
        <5>1. u < t \/ (u = t /\ f <= e)
          BY <2>7, <4>2 DEF AtMost
        <5>2. u < v \/ (u = v /\ f <= g)
          BY <1>5, <2>3, <2>13, <5>1
        <5> QED BY <5>2 DEF AtMost
      <4> QED BY <2>6, <3>2, <4>1, <4>2
    <3>3. Tops(v, g, njs, rl, nrv, nev, b)
      BY <2>3, <2>4, <3>1, <3>2 DEF Tops
    <3> QED BY <3>3 DEF Topped
  <2>14. CASE ~(v > t \/ (v = t /\ g > e))
    <3>1. v < t \/ (v = t /\ g <= e)
      BY <1>5, <2>3, <2>14
    <3>2. Covers(t, e, nrv, nev, b)
      <4>1. \A r \in nrv : Bucket(r.slot) = b => r.id <= t
        BY <1>5, <2>3, <2>8, <2>10, <2>12, <3>1 DEF Changes
      <4> QED BY <2>11, <4>1 DEF Covers
    <3>3. ASSUME NEW u \in Nat, NEW f \in Nat, IsClaim(njs, rl, b, u, f) PROVE AtMost(u, f, t, e)
      <4>1. CASE u = v /\ f = g
        BY <3>1, <4>1 DEF AtMost
      <4>2. CASE IsClaim(js, rl, b, u, f)
        BY <2>7, <4>2
      <4> QED BY <2>6, <3>3, <4>1, <4>2
    <3>4. Tops(t, e, njs, rl, nrv, nev, b)
      BY <1>5, <3>2, <3>3 DEF Tops
    <3> QED BY <3>4 DEF Topped
  <2> QED BY <2>13, <2>14
<1>7. CASE ~\E n \in DOMAIN s : b \in s[n].buckets
  <2>1. \A r \in created : Bucket(r.slot) # b
    BY <1>7 DEF SourceQueued
  <2>2. Covers(t, e, nrv, nev, b)
    BY <1>3, <1>5, <2>1 DEF Covers, Changes
  <2>3. \A u, f : IsClaim(njs, rl, b, u, f) => IsClaim(js, rl, b, u, f)
    BY <1>4, <1>7 DEF IsClaim, Added
  <2>4. Tops(t, e, njs, rl, nrv, nev, b)
    BY <1>1, <1>5, <2>2, <2>3 DEF Tops
  <2> QED BY <2>4 DEF Topped
<1> QED BY <1>6, <1>7

(* A change leaves every bucket that has a revision topped. *)
LEMMA ChangeTopped ==
    ASSUME NEW rv, NEW ev, NEW created, NEW changed, NEW nrv, NEW nev,
           Changes(rv, ev, created, changed, nrv, nev),
           NEW js, JobsOK(js, rv, ev), NEW rl, RowsOK(rl, rv, ev),
           NEW q, QualityQueued(q, changed, nrv, nev), NEW s, SourceQueued(s, created, nrv, nev),
           NEW njs, Added(njs, js, q, s), changed \subseteq Minutes, AllTopped(js, rl, rv, ev),
           \A r \in created : r.slot \in changed \cup SlotsIn(rv)
    PROVE  AllTopped(njs, rl, nrv, nev)
<1> SUFFICES ASSUME NEW p \in nrv PROVE Topped(njs, rl, nrv, nev, Bucket(p.slot))
  BY DEF AllTopped
<1>1. PICK b : b = Bucket(p.slot)
  OBVIOUS
<1>2. CASE b \in BucketsOf(changed)
  <2>1. PICK m \in changed : Bucket(m) = b
    BY <1>2 DEF BucketsOf
  <2> QED BY <1>1, <2>1, ChangedBucketTopped
<1>3. CASE b \notin BucketsOf(changed)
  <2>1. p.slot \notin changed
    BY <1>1, <1>3 DEF BucketsOf
  <2>2. p.slot \in SlotsIn(rv)
    BY <2>1 DEF Changes, SlotsIn
  <2>3. PICK r \in rv : r.slot = p.slot
    BY <2>2 DEF SlotsIn
  <2>4. Topped(js, rl, rv, ev, b)
    BY <1>1, <2>3 DEF AllTopped
  <2>5. Topped(njs, rl, nrv, nev, b)
    BY <1>3, <2>4, UnchangedBucketTopped
  <2> QED BY <1>1, <2>5
<1> QED BY <1>2, <1>3

----------------------------------------------------------------------------
(* The invariant of the rollups *)

TxShape(x) == x = [pc |-> x.pc, page |-> x.page, asOf |-> x.asOf, created |-> x.created]

\* What a collector has in hand; once written, every slot of its page has a
\* revision, committed or its own.
TxOK(x, rv) ==
    /\ TxShape(x) /\ x.asOf \in Nat /\ RevisionsOK(x.created)
    /\ x.pc \in {"fetched", "written"} => DOMAIN x.page \subseteq Minutes
    /\ x.pc = "written" => /\ SlotsIn(x.created) \subseteq DOMAIN x.page
                           /\ DOMAIN x.page \subseteq SlotsIn(rv) \cup SlotsIn(x.created)
TransactionsOK(xs, rv) ==
    /\ xs = [c \in Collectors |-> xs[c]]
    /\ \A c \in Collectors : TxOK(xs[c], rv)

\* A stored candle and an available slot have a revision.
StoreOK(cd, cv, rv) ==
    /\ cd = [s \in Minutes |-> cd[s]] /\ cv = [s \in Minutes |-> cv[s]]
    /\ \A s \in Minutes : cd[s] # Nothing \/ cv[s] = "available" => s \in SlotsIn(rv)

AggregatorShape(x) == x = [pc |-> x.pc, job |-> x.job, read |-> x.read, cov |-> x.cov]
AggregatorOK(x, js, rv) ==
    /\ AggregatorShape(x)
    /\ x.pc = "job" => x.job \in DOMAIN js
    /\ x.pc = "materializing" => ReadOK(x.read, rv)
AggregatorsOK(ag, js, rv) ==
    /\ ag = [w \in Aggregators |-> ag[w]]
    /\ \A w \in Aggregators : AggregatorOK(ag[w], js, rv)

FrontierInv ==
    /\ clock \in Nat /\ nextRev \in Nat
    /\ RevisionsOK(revisions) /\ EventsOK(events)
    /\ TransactionsOK(tx, revisions)
    /\ StoreOK(candles, coverage, revisions)
    /\ JobsOK(jobs, revisions, events) /\ RowsOK(rollups, revisions, events)
    /\ AggregatorsOK(aggregator, jobs, revisions)
    /\ AllTopped(jobs, rollups, revisions, events)

LEMMA IdleCollector == \A rv : TxOK(IdleTx, rv)
<1>1. RevisionsOK({})
  BY FS_EmptySet DEF RevisionsOK
<1> QED BY <1>1 DEF TxOK, TxShape, IdleTx

LEMMA IdleAggregator == \A js, rv : AggregatorOK(IdleWorker, js, rv)
BY DEF AggregatorOK, AggregatorShape, IdleWorker

LEMMA InitFrontierInv == RollupInit => FrontierInv
<1> SUFFICES ASSUME RollupInit PROVE FrontierInv
  OBVIOUS
<1>1. RevisionsOK({})
  BY FS_EmptySet DEF RevisionsOK
<1>2. TransactionsOK(tx, revisions)
  BY IdleCollector DEF RollupInit, TransactionsOK
<1>3. StoreOK(candles, coverage, revisions)
  BY DEF RollupInit, StoreOK
<1>4. JobsOK(jobs, revisions, events) /\ RowsOK(rollups, revisions, events) /\ EventsOK(events)
  BY DEF RollupInit, JobsOK, RowsOK, EventsOK, Sequence
<1>5. AggregatorsOK(aggregator, jobs, revisions)
  BY IdleAggregator DEF RollupInit, AggregatorsOK
<1>6. AllTopped(jobs, rollups, revisions, events)
  BY DEF RollupInit, AllTopped
<1>7. clock \in Nat /\ nextRev \in Nat /\ RevisionsOK(revisions)
  BY <1>1 DEF RollupInit
<1> QED BY <1>2, <1>3, <1>4, <1>5, <1>6, <1>7 DEF FrontierInv

----------------------------------------------------------------------------
(* Steps that leave the frontiers alone *)

\* A job takes another status, none of the two success.
SameJob(x, y) ==
    /\ JobShape(y) /\ y.buckets = x.buckets /\ y.through = x.through /\ y.event = x.event
    /\ y.known = x.known /\ y.cov = x.cov /\ x.status # "succeeded" /\ y.status # "succeeded"
JobsTouched(njs, js) ==
    /\ Sequence(njs) /\ DOMAIN njs = DOMAIN js
    /\ \A i \in DOMAIN js : njs[i] = js[i] \/ SameJob(js[i], njs[i])

LEMMA TouchedTopped ==
    ASSUME NEW js, NEW njs, JobsTouched(njs, js), NEW rl, NEW rv, NEW ev,
           JobsOK(js, rv, ev), AllTopped(js, rl, rv, ev)
    PROVE  JobsOK(njs, rv, ev) /\ AllTopped(njs, rl, rv, ev)
<1>1. \A i \in DOMAIN njs : JobOK(njs[i], rv, ev)
  BY DEF JobsTouched, SameJob, JobsOK, JobOK, FrontierOK
<1>2. JobsOK(njs, rv, ev)
  BY <1>1 DEF JobsOK, JobsTouched, Sequence
<1>3. \A b, t, e : IsClaim(njs, rl, b, t, e) <=> IsClaim(js, rl, b, t, e)
  BY DEF IsClaim, JobsTouched, SameJob
<1>4. \A b, t, e : Tops(t, e, js, rl, rv, ev, b) => Tops(t, e, njs, rl, rv, ev, b)
  BY <1>3 DEF Tops
<1> QED BY <1>2, <1>4 DEF AllTopped, Topped

LEMMA AggregatorsMove ==
    ASSUME NEW ag, NEW js, NEW rv, AggregatorsOK(ag, js, rv),
           NEW w \in Aggregators, NEW r, NEW njs, NEW nrv,
           DOMAIN js \subseteq DOMAIN njs, rv \subseteq nrv, AggregatorOK(r, njs, nrv),
           NEW nag, nag = [ag EXCEPT ![w] = r]
    PROVE  AggregatorsOK(nag, njs, nrv)
<1>1. nag = [v \in Aggregators |-> nag[v]] /\ nag[w] = r
      /\ \A v \in Aggregators : v # w => nag[v] = ag[v]
  BY DEF AggregatorsOK
<1>2. \A v \in Aggregators : AggregatorOK(ag[v], njs, nrv)
  BY DEF AggregatorsOK, AggregatorOK, ReadOK
<1> QED BY <1>1, <1>2 DEF AggregatorsOK

LEMMA AggregatorsStay ==
    ASSUME NEW ag, NEW js, NEW rv, AggregatorsOK(ag, js, rv), NEW njs, NEW nrv,
           DOMAIN js \subseteq DOMAIN njs, rv \subseteq nrv
    PROVE  AggregatorsOK(ag, njs, nrv)
BY DEF AggregatorsOK, AggregatorOK, ReadOK

(* A step on the jobs that changes no frontier. *)
LEMMA JobsStep ==
    ASSUME FrontierInv, JobsTouched(jobs', jobs), UNCHANGED <<clock, tx, source, rollups>>,
           AggregatorsOK(aggregator', jobs', revisions')
    PROVE  FrontierInv'
<1>1. /\ clock' = clock /\ tx' = tx /\ candles' = candles /\ revisions' = revisions
      /\ nextRev' = nextRev /\ coverage' = coverage /\ events' = events /\ rollups' = rollups
  BY DEF source
<1>2. PICK njs : njs = jobs'
  OBVIOUS
<1>3. JobsOK(njs, revisions, events) /\ AllTopped(njs, rollups, revisions, events)
  BY <1>2, TouchedTopped DEF FrontierInv
<1> QED BY <1>1, <1>2, <1>3 DEF FrontierInv

\* A job with another status, owner and due date.
Restatus(x, y) ==
    /\ y = [x EXCEPT !.status = y.status, !.owner = y.owner, !.due = y.due, !.attempts = y.attempts]
    /\ x.status # "succeeded" /\ y.status # "succeeded"

LEMMA RestatusIsSame ==
    ASSUME NEW x, JobShape(x), NEW y, Restatus(x, y)
    PROVE  SameJob(x, y)
<1>1. PICK st, ow, du, at : st = y.status /\ ow = y.owner /\ du = y.due /\ at = y.attempts
  OBVIOUS
<1>2. y = [buckets |-> x.buckets, through |-> x.through, event |-> x.event, cov |-> x.cov,
           known |-> x.known, status |-> st, attempts |-> at, owner |-> ow, due |-> du]
  BY <1>1 DEF Restatus, JobShape
<1> QED BY <1>2 DEF Restatus, SameJob, JobShape

LEMMA TouchedBy ==
    ASSUME NEW js, NEW rv, NEW ev, JobsOK(js, rv, ev), NEW njs, njs = [i \in DOMAIN js |-> njs[i]],
           \A i \in DOMAIN js : njs[i] = js[i] \/ Restatus(js[i], njs[i])
    PROVE  JobsTouched(njs, js)
<1>1. Sequence(njs) /\ DOMAIN njs = DOMAIN js
  BY SameDomain DEF Sequence, JobsOK
<1>2. \A i \in DOMAIN js : njs[i] = js[i] \/ SameJob(js[i], njs[i])
  BY RestatusIsSame DEF JobsOK, JobOK
<1> QED BY <1>1, <1>2 DEF JobsTouched

(* An expired attempt is buried. *)
LEMMA SweepTouches ==
    ASSUME JobsOK(jobs, revisions, events)
    PROVE  /\ Swept = [i \in DOMAIN jobs |-> Swept[i]]
           /\ \A i \in DOMAIN jobs : Swept[i] = jobs[i] \/ Restatus(jobs[i], Swept[i])
<1>1. Swept = [i \in DOMAIN jobs |-> Swept[i]]
  BY DEF Swept
<1>2. ASSUME NEW i \in DOMAIN jobs, Exhausted(i) PROVE Restatus(jobs[i], Swept[i])
  <2>1. PICK x : x = jobs[i]
    OBVIOUS
  <2>2. JobShape(x)
    BY <2>1 DEF JobsOK, JobOK
  <2>3. PICK y : y = [x EXCEPT !.status = "dead_letter", !.owner = Nothing, !.due = FALSE]
    OBVIOUS
  <2>4. y.status = "dead_letter" /\ y.owner = Nothing /\ y.due = FALSE /\ y.attempts = x.attempts
    BY <2>2, <2>3 DEF JobShape
  <2>5. y = [x EXCEPT !.status = y.status, !.owner = y.owner, !.due = y.due, !.attempts = y.attempts]
    BY <2>2, <2>3, <2>4 DEF JobShape
  <2>6. Swept[i] = y
    BY <1>2, <2>1, <2>3 DEF Swept
  <2>7. x.status = "running"
    BY <1>2, <2>1 DEF Exhausted
  <2> QED BY <2>1, <2>4, <2>5, <2>6, <2>7 DEF Restatus
<1>3. \A i \in DOMAIN jobs : ~Exhausted(i) => Swept[i] = jobs[i]
  BY DEF Swept
<1> QED BY <1>1, <1>2, <1>3

(* One job takes another status. *)
LEMMA OneJobMoves ==
    ASSUME FrontierInv, NEW j \in DOMAIN jobs, NEW x, JobShape(x), Restatus(jobs[j], x),
           NEW njs, njs = [jobs EXCEPT ![j] = x]
    PROVE  JobsTouched(njs, jobs)
<1>1. jobs = [i \in DOMAIN jobs |-> jobs[i]]
  BY DEF FrontierInv, JobsOK
<1>2. njs = [i \in DOMAIN jobs |-> njs[i]]
  OBVIOUS
<1>3. \A i \in DOMAIN jobs : njs[i] = jobs[i] \/ Restatus(jobs[i], njs[i])
  OBVIOUS
<1>4. JobsOK(jobs, revisions, events)
  BY DEF FrontierInv
<1> QED BY <1>2, <1>3, <1>4, TouchedBy

(* A claim takes an attempt of one job. *)
LEMMA ClaimTouches ==
    ASSUME JobsOK(jobs, revisions, events), NEW w, NEW j \in DOMAIN jobs, Eligible(j)
    PROVE  /\ Claimed(w, j) = [i \in DOMAIN jobs |-> Claimed(w, j)[i]]
           /\ \A i \in DOMAIN jobs : Claimed(w, j)[i] = jobs[i] \/ Restatus(jobs[i], Claimed(w, j)[i])
<1>1. PICK s : s = Swept
  OBVIOUS
<1>2. /\ s = [i \in DOMAIN jobs |-> s[i]]
      /\ \A i \in DOMAIN jobs : s[i] = jobs[i] \/ Restatus(jobs[i], s[i])
  BY <1>1, SweepTouches
<1>3. PICK x : x = s[j]
  OBVIOUS
<1>4. PICK z : z = jobs[j]
  OBVIOUS
<1>5. JobShape(z) /\ z.status # "succeeded"
  BY <1>4 DEF JobsOK, JobOK, Eligible
<1>6. x = z \/ Restatus(z, x)
  BY <1>2, <1>3, <1>4
<1>7. JobShape(x) /\ x = [z EXCEPT !.status = x.status, !.owner = x.owner, !.due = x.due,
                                   !.attempts = x.attempts]
  <2>1. CASE x = z
    BY <1>5, <2>1 DEF JobShape
  <2>2. CASE Restatus(z, x)
    BY <1>5, <2>2, RestatusIsSame DEF Restatus, SameJob
  <2> QED BY <1>6, <2>1, <2>2
<1>8. PICK n : n = x.attempts + 1
  OBVIOUS
<1>9. PICK y : y = [x EXCEPT !.status = "running", !.owner = w, !.due = FALSE, !.attempts = n]
  OBVIOUS
<1>10. y.status = "running" /\ y.owner = w /\ y.due = FALSE /\ y.attempts = n
  BY <1>7, <1>9 DEF JobShape
<1>11. y = [z EXCEPT !.status = y.status, !.owner = y.owner, !.due = y.due, !.attempts = y.attempts]
  BY <1>5, <1>7, <1>9, <1>10 DEF JobShape
<1>12. Restatus(z, y)
  BY <1>5, <1>10, <1>11 DEF Restatus
<1>13. PICK c : c = Claimed(w, j)
  OBVIOUS
<1>14. c = [s EXCEPT ![j] = y]
  BY <1>1, <1>2, <1>3, <1>7, <1>8, <1>9, <1>13 DEF Claimed, JobShape
<1>15. c = [i \in DOMAIN jobs |-> c[i]] /\ c[j] = y /\ \A i \in DOMAIN jobs : i # j => c[i] = s[i]
  BY <1>2, <1>14
<1> QED BY <1>2, <1>4, <1>12, <1>13, <1>15

(* A worker with a job in hand. *)
LEMMA HoldsJob ==
    ASSUME NEW js, NEW rv, NEW j \in DOMAIN js
    PROVE  AggregatorOK([IdleWorker EXCEPT !.pc = "job", !.job = j], js, rv)
<1>1. PICK e : e = <<>>
  OBVIOUS
<1>2. PICK x : x = [IdleWorker EXCEPT !.pc = "job", !.job = j]
  OBVIOUS
<1>3. x = [pc |-> "job", job |-> j, read |-> e, cov |-> e]
  BY <1>1, <1>2 DEF IdleWorker
<1>4. AggregatorOK(x, js, rv)
  BY <1>3 DEF AggregatorOK, AggregatorShape
<1> QED BY <1>2, <1>4

LEMMA ClaimNextJobKeeps ==
    ASSUME FrontierInv, NEW w \in Aggregators, ClaimNextJob(w)
    PROVE  FrontierInv' /\ JobsTouched(jobs', jobs)
<1>1. /\ UNCHANGED <<clock, tx, source, rollups>> /\ revisions' = revisions
      /\ JobsOK(jobs, revisions, events) /\ AggregatorsOK(aggregator, jobs, revisions)
  BY DEF ClaimNextJob, source, FrontierInv
<1>2. PICK njs : njs = jobs'
  OBVIOUS
<1>3. PICK nag : nag = aggregator'
  OBVIOUS
<1>4. CASE \E j \in DOMAIN jobs : /\ Eligible(j) /\ njs = Claimed(w, j)
                                  /\ nag = [aggregator EXCEPT ![w] = [IdleWorker EXCEPT !.pc = "job", !.job = j]]
  <2>1. PICK j \in DOMAIN jobs : /\ Eligible(j) /\ njs = Claimed(w, j)
                                 /\ nag = [aggregator EXCEPT ![w] = [IdleWorker EXCEPT !.pc = "job", !.job = j]]
    BY <1>4
  <2>2. JobsTouched(njs, jobs)
    <3>1. njs = [i \in DOMAIN jobs |-> njs[i]]
      BY <1>1, <2>1, ClaimTouches
    <3>2. \A i \in DOMAIN jobs : njs[i] = jobs[i] \/ Restatus(jobs[i], njs[i])
      BY <1>1, <2>1, ClaimTouches
    <3> QED BY <1>1, <3>1, <3>2, TouchedBy
  <2>3. DOMAIN njs = DOMAIN jobs
    BY <2>2 DEF JobsTouched
  <2>4. PICK r : r = [IdleWorker EXCEPT !.pc = "job", !.job = j]
    OBVIOUS
  <2>5. AggregatorOK(r, njs, revisions)
    BY <2>3, <2>4, HoldsJob
  <2>6. AggregatorsOK(nag, njs, revisions)
    BY <1>1, <2>1, <2>3, <2>4, <2>5, AggregatorsMove
  <2> QED BY <1>1, <1>2, <1>3, <2>2, <2>6, JobsStep
<1>5. CASE njs = Swept /\ nag = aggregator
  <2>1. JobsTouched(njs, jobs)
    <3>1. njs = [i \in DOMAIN jobs |-> njs[i]]
      BY <1>1, <1>5, SweepTouches
    <3>2. \A i \in DOMAIN jobs : njs[i] = jobs[i] \/ Restatus(jobs[i], njs[i])
      BY <1>1, <1>5, SweepTouches
    <3> QED BY <1>1, <3>1, <3>2, TouchedBy
  <2>2. AggregatorsOK(nag, njs, revisions)
    BY <1>1, <1>5, <2>1, AggregatorsStay DEF JobsTouched
  <2> QED BY <1>1, <1>2, <1>3, <2>1, <2>2, JobsStep
<1> QED BY <1>2, <1>3, <1>4, <1>5 DEF ClaimNextJob

LEMMA ClaimJobKeeps ==
    ASSUME FrontierInv, NEW w \in Aggregators, NEW j \in DOMAIN jobs, ClaimJob(w, j)
    PROVE  FrontierInv' /\ JobsTouched(jobs', jobs)
<1>1. /\ UNCHANGED <<clock, tx, source, rollups>> /\ revisions' = revisions
      /\ JobsOK(jobs, revisions, events) /\ AggregatorsOK(aggregator, jobs, revisions)
  BY DEF ClaimJob, source, FrontierInv
<1>2. PICK njs : njs = jobs'
  OBVIOUS
<1>3. PICK nag : nag = aggregator'
  OBVIOUS
<1>4. PICK x : njs = [jobs EXCEPT ![j] = x] /\ (x = jobs[j] \/ Restatus(jobs[j], x))
  <2>1. CASE Eligible(j) /\ njs = [jobs EXCEPT ![j] = Claimed(w, j)[j]]
    <3>1. PICK x : x = Claimed(w, j)[j]
      OBVIOUS
    <3>2. x = jobs[j] \/ Restatus(jobs[j], x)
      BY <1>1, <2>1, <3>1, ClaimTouches
    <3> QED BY <2>1, <3>1, <3>2
  <2>2. CASE njs = [jobs EXCEPT ![j] = Swept[j]]
    <3>1. PICK x : x = Swept[j]
      OBVIOUS
    <3>2. x = jobs[j] \/ Restatus(jobs[j], x)
      BY <1>1, <3>1, SweepTouches
    <3> QED BY <2>2, <3>1, <3>2
  <2> QED BY <1>2, <2>1, <2>2 DEF ClaimJob
<1>5. JobsTouched(njs, jobs) /\ DOMAIN njs = DOMAIN jobs
  <2>1. njs = [i \in DOMAIN jobs |-> njs[i]]
    <3>1. jobs = [i \in DOMAIN jobs |-> jobs[i]]
      BY <1>1 DEF JobsOK
    <3> QED BY <1>4, <3>1
  <2>2. \A i \in DOMAIN jobs : njs[i] = jobs[i] \/ Restatus(jobs[i], njs[i])
    BY <1>4
  <2>3. JobsTouched(njs, jobs)
    BY <1>1, <2>1, <2>2, TouchedBy
  <2> QED BY <2>1, <2>3
<1>6. AggregatorsOK(nag, njs, revisions)
  <2>1. CASE nag = aggregator
    BY <1>1, <1>5, <2>1, AggregatorsStay
  <2>2. CASE nag # aggregator
    <3>1. PICK r : r = [IdleWorker EXCEPT !.pc = "job", !.job = j]
      OBVIOUS
    <3>2. nag = [aggregator EXCEPT ![w] = r]
      BY <1>3, <2>2, <3>1 DEF ClaimJob
    <3>3. AggregatorOK(r, njs, revisions)
      BY <1>5, <3>1, HoldsJob
    <3> QED BY <1>1, <1>5, <3>2, <3>3, AggregatorsMove
  <2> QED BY <2>1, <2>2
<1> QED BY <1>1, <1>2, <1>3, <1>5, <1>6, JobsStep

LEMMA ElapseKeeps ==
    ASSUME FrontierInv, NEW j \in DOMAIN jobs, Elapse(j)
    PROVE  FrontierInv' /\ JobsTouched(jobs', jobs)
<1>1. /\ UNCHANGED <<clock, tx, source, rollups>> /\ revisions' = revisions
      /\ JobsOK(jobs, revisions, events) /\ AggregatorsOK(aggregator, jobs, revisions)
      /\ aggregator' = aggregator
  BY DEF Elapse, source, FrontierInv
<1>2. PICK z : z = jobs[j]
  OBVIOUS
<1>3. JobShape(z) /\ z.status # "succeeded"
  BY <1>1, <1>2 DEF JobsOK, JobOK, Elapse
<1>4. PICK x : x = [z EXCEPT !.due = TRUE]
  OBVIOUS
<1>5. x.status = z.status /\ x.owner = z.owner /\ x.due = TRUE /\ x.attempts = z.attempts
  BY <1>3, <1>4 DEF JobShape
<1>6. x = [z EXCEPT !.status = x.status, !.owner = x.owner, !.due = x.due, !.attempts = x.attempts]
  BY <1>3, <1>4, <1>5 DEF JobShape
<1>7. Restatus(jobs[j], x) /\ JobShape(x)
  BY <1>2, <1>3, <1>5, <1>6, RestatusIsSame DEF Restatus, SameJob
<1>8. PICK njs : njs = jobs'
  OBVIOUS
<1>9. njs = [jobs EXCEPT ![j] = x]
  BY <1>2, <1>4, <1>8 DEF Elapse
<1>10. JobsTouched(njs, jobs)
  BY <1>7, <1>9, OneJobMoves
<1>11. AggregatorsOK(aggregator, njs, revisions)
  BY <1>1, <1>10, AggregatorsStay DEF JobsTouched
<1> QED BY <1>1, <1>8, <1>10, <1>11, JobsStep

LEMMA SafeRestartKeeps ==
    ASSUME FrontierInv, NEW j \in DOMAIN jobs, SafeRestart(j)
    PROVE  FrontierInv' /\ JobsTouched(jobs', jobs)
<1>1. /\ UNCHANGED <<clock, tx, source, rollups>> /\ revisions' = revisions
      /\ JobsOK(jobs, revisions, events) /\ AggregatorsOK(aggregator, jobs, revisions)
      /\ aggregator' = aggregator
  BY DEF SafeRestart, source, FrontierInv
<1>2. PICK z : z = jobs[j]
  OBVIOUS
<1>3. JobShape(z) /\ z.status = "dead_letter"
  BY <1>1, <1>2 DEF JobsOK, JobOK, SafeRestart
<1>4. PICK x : x = [z EXCEPT !.status = "pending", !.attempts = 0]
  OBVIOUS
<1>5. x.status = "pending" /\ x.owner = z.owner /\ x.due = z.due /\ x.attempts = 0
  BY <1>3, <1>4 DEF JobShape
<1>6. x = [z EXCEPT !.status = x.status, !.owner = x.owner, !.due = x.due, !.attempts = x.attempts]
  BY <1>3, <1>4, <1>5 DEF JobShape
<1>7. Restatus(jobs[j], x) /\ JobShape(x)
  BY <1>2, <1>3, <1>5, <1>6, RestatusIsSame DEF Restatus, SameJob
<1>8. PICK njs : njs = jobs'
  OBVIOUS
<1>9. njs = [jobs EXCEPT ![j] = x]
  BY <1>1, <1>2, <1>4, <1>8 DEF SafeRestart, JobsOK
<1>10. JobsTouched(njs, jobs)
  BY <1>7, <1>9, OneJobMoves
<1>11. AggregatorsOK(aggregator, njs, revisions)
  BY <1>1, <1>10, AggregatorsStay DEF JobsTouched
<1> QED BY <1>1, <1>8, <1>10, <1>11, JobsStep

LEMMA FailJobKeeps ==
    ASSUME FrontierInv, NEW w \in Aggregators, FailJob(w)
    PROVE  FrontierInv' /\ JobsTouched(jobs', jobs)
<1>1. /\ UNCHANGED <<clock, tx, source, rollups>> /\ revisions' = revisions
      /\ JobsOK(jobs, revisions, events) /\ AggregatorsOK(aggregator, jobs, revisions)
  BY DEF FailJob, source, FrontierInv
<1>2. PICK j : j = aggregator[w].job
  OBVIOUS
<1>3. j \in DOMAIN jobs
  BY <1>1, <1>2 DEF FailJob, AggregatorsOK, AggregatorOK
<1>4. PICK z : z = jobs[j]
  OBVIOUS
<1>5. PICK njs : njs = jobs'
  OBVIOUS
<1>6. JobsTouched(njs, jobs)
  <2>1. CASE Holds(w)
    <3>1. JobShape(z) /\ z.status # "succeeded"
      BY <1>1, <1>2, <1>3, <1>4, <2>1 DEF JobsOK, JobOK, Holds
    <3>2. PICK st : st = IF z.attempts >= MaxTries THEN "dead_letter" ELSE "retry_wait"
      OBVIOUS
    <3>3. PICK x : x = [z EXCEPT !.owner = Nothing, !.status = st]
      OBVIOUS
    <3>4. x.status = st /\ x.owner = Nothing /\ x.due = z.due /\ x.attempts = z.attempts
      BY <3>1, <3>3 DEF JobShape
    <3>5. x = [z EXCEPT !.status = x.status, !.owner = x.owner, !.due = x.due, !.attempts = x.attempts]
      BY <3>1, <3>3, <3>4 DEF JobShape
    <3>6. Restatus(jobs[j], x) /\ JobShape(x)
      BY <1>4, <3>1, <3>2, <3>4, <3>5, RestatusIsSame DEF Restatus, SameJob
    <3>7. njs = [jobs EXCEPT ![j] = x]
      <4>1. jobs' = [jobs EXCEPT ![j].owner = Nothing, ![j].status = st]
        BY <1>2, <1>4, <2>1, <3>2 DEF FailJob
      <4> QED BY <1>1, <1>3, <1>4, <1>5, <3>1, <3>3, <4>1 DEF JobShape, JobsOK
    <3> QED BY <1>3, <3>6, <3>7, OneJobMoves
  <2>2. CASE ~Holds(w)
    <3>1. njs = jobs
      BY <1>5, <2>2 DEF FailJob
    <3> QED BY <1>1, <3>1 DEF JobsTouched, JobsOK, Sequence
  <2> QED BY <2>1, <2>2
<1>7. PICK nag : nag = aggregator'
  OBVIOUS
<1>8. AggregatorsOK(nag, njs, revisions)
  <2>1. PICK r : r = IdleWorker
    OBVIOUS
  <2>2. nag = [aggregator EXCEPT ![w] = r]
    BY <1>7, <2>1 DEF FailJob
  <2>3. AggregatorOK(r, njs, revisions)
    BY <2>1, IdleAggregator
  <2>4. DOMAIN jobs \subseteq DOMAIN njs
    BY <1>6 DEF JobsTouched
  <2> QED BY <1>1, <2>2, <2>3, <2>4, AggregatorsMove
<1> QED BY <1>1, <1>5, <1>6, <1>7, <1>8, JobsStep

(* A step on the aggregators alone. *)
LEMMA AggregatorStep ==
    ASSUME FrontierInv, UNCHANGED <<clock, tx, source, jobs, rollups>>,
           NEW w \in Aggregators, NEW r, aggregator' = [aggregator EXCEPT ![w] = r],
           AggregatorOK(r, jobs, revisions)
    PROVE  FrontierInv'
<1>1. /\ UNCHANGED <<clock, tx, source, rollups>> /\ revisions' = revisions /\ jobs' = jobs
      /\ JobsOK(jobs, revisions, events) /\ AggregatorsOK(aggregator, jobs, revisions)
  BY DEF source, FrontierInv
<1>2. PICK nag : nag = aggregator'
  OBVIOUS
<1>3. AggregatorsOK(nag, jobs, revisions)
  BY <1>1, <1>2, AggregatorsMove
<1>4. JobsTouched(jobs, jobs)
  BY <1>1 DEF JobsTouched, JobsOK, Sequence
<1> QED BY <1>1, <1>2, <1>3, <1>4, JobsStep

LEMMA ScheduleKeeps ==
    ASSUME FrontierInv, NEW w \in Aggregators, Schedule(w)
    PROVE  FrontierInv'
<1>1. PICK z : z = aggregator[w]
  OBVIOUS
<1>2. AggregatorShape(z) /\ aggregator = [v \in Aggregators |-> aggregator[v]]
  BY <1>1 DEF FrontierInv, AggregatorsOK, AggregatorOK
<1>3. PICK r : r = [z EXCEPT !.pc = "scheduled"]
  OBVIOUS
<1>4. AggregatorOK(r, jobs, revisions)
  BY <1>2, <1>3 DEF AggregatorOK, AggregatorShape
<1>5. aggregator' = [aggregator EXCEPT ![w] = r]
  BY <1>1, <1>2, <1>3 DEF Schedule
<1>6. UNCHANGED <<clock, tx, source, jobs, rollups>>
  BY DEF Schedule
<1> QED BY <1>4, <1>5, <1>6, AggregatorStep

LEMMA MaterializeFailsKeeps ==
    ASSUME FrontierInv, NEW w \in Aggregators, MaterializeFails(w) \/ LoseWorker(w)
    PROVE  FrontierInv'
<1>1. PICK r : r = IdleWorker
  OBVIOUS
<1>2. AggregatorOK(r, jobs, revisions)
  BY <1>1, IdleAggregator
<1>3. aggregator' = [aggregator EXCEPT ![w] = r] /\ UNCHANGED <<clock, tx, source, jobs, rollups>>
  BY <1>1 DEF MaterializeFails, LoseWorker
<1> QED BY <1>2, <1>3, AggregatorStep

LEMMA ClaimAggregationKeeps ==
    ASSUME FrontierInv, NEW w \in Aggregators, ClaimAggregation(w)
    PROVE  FrontierInv'
<1>1. UNCHANGED <<clock, tx, source, jobs, rollups>>
  BY DEF ClaimAggregation
<1>2. CASE aggregator' = [aggregator EXCEPT ![w] = IdleWorker]
  <2>1. PICK r : r = IdleWorker
    OBVIOUS
  <2>2. AggregatorOK(r, jobs, revisions)
    BY <2>1, IdleAggregator
  <2> QED BY <1>1, <1>2, <2>1, <2>2, AggregatorStep
<1>3. CASE ~(aggregator' = [aggregator EXCEPT ![w] = IdleWorker])
  <2>1. PICK a \in DOMAIN agg : aggregator' = [aggregator EXCEPT ![w] =
                 [pc |-> "materializing", job |-> a, cov |-> coverage,
                  read |-> [s \in {t \in Minutes : candles[t] # Nothing} |->
                               [content |-> candles[s].content,
                                revision |-> Latest(revisions, s)]]]]
    BY <1>3 DEF ClaimAggregation
  <2>2. PICK read : read = [s \in {t \in Minutes : candles[t] # Nothing} |->
                               [content |-> candles[s].content,
                                revision |-> Latest(revisions, s)]]
    OBVIOUS
  <2>3. DOMAIN read \subseteq Minutes
        /\ \A s \in DOMAIN read : candles[s] # Nothing /\ read[s].revision = Latest(revisions, s)
    BY <2>2
  <2>4. \A s \in DOMAIN read : s \in SlotsIn(revisions)
    BY <2>3 DEF FrontierInv, StoreOK
  <2>5. RevisionsOK(revisions)
    BY DEF FrontierInv
  <2>6. \A s \in DOMAIN read : Latest(revisions, s) \in revisions /\ Latest(revisions, s).slot = s
    BY <2>4, <2>5, LatestIsOne
  <2>7. ReadOK(read, revisions)
    BY <2>3, <2>6 DEF ReadOK
  <2>8. PICK r : r = [pc |-> "materializing", job |-> a, cov |-> coverage, read |-> read]
    OBVIOUS
  <2>9. AggregatorOK(r, jobs, revisions)
    BY <2>7, <2>8 DEF AggregatorOK, AggregatorShape
  <2>10. aggregator' = [aggregator EXCEPT ![w] = r]
    BY <2>1, <2>2, <2>8
  <2> QED BY <1>1, <2>9, <2>10, AggregatorStep
<1> QED BY <1>2, <1>3

----------------------------------------------------------------------------
(* Steps that write rows *)

LEMMA RowsWritten ==
    ASSUME NEW rv, NEW ev, NEW rl, RowsOK(rl, rv, ev), NEW rows, NEW nrl, Written(nrl, rl, rows),
           \A row \in rows : FrontierOK(row, rv, ev)
    PROVE  RowsOK(nrl, rv, ev)
<1>1. \A i \in DOMAIN nrl : FrontierOK(nrl[i], rv, ev)
  BY DEF Written, RowsOK
<1> QED BY <1>1 DEF Written, RowsOK, Sequence

LEMMA RunJobKeeps ==
    ASSUME FrontierInv, NEW w \in Aggregators, RunJob(w)
    PROVE  FrontierInv'
<1>1. /\ JobsOK(jobs, revisions, events) /\ AggregatorsOK(aggregator, jobs, revisions)
      /\ RowsOK(rollups, revisions, events) /\ AllTopped(jobs, rollups, revisions, events)
      /\ RevisionsOK(revisions)
  BY DEF FrontierInv
<1>2. /\ clock' = clock /\ tx' = tx /\ candles' = candles /\ revisions' = revisions
      /\ nextRev' = nextRev /\ coverage' = coverage /\ events' = events
  BY DEF RunJob, source
<1>3. PICK j : j = aggregator[w].job
  OBVIOUS
<1>4. j \in DOMAIN jobs
  BY <1>1, <1>3 DEF RunJob, AggregatorsOK, AggregatorOK
<1>5. PICK z : z = jobs[j]
  OBVIOUS
<1>6. JobOK(z, revisions, events) /\ z.status = "running" /\ JobShape(z)
  BY <1>1, <1>3, <1>4, <1>5 DEF JobsOK, JobOK, RunJob, Holds
<1>7. z.buckets \subseteq Buckets /\ FrontierOK(z, revisions, events)
  BY <1>6 DEF JobOK
<1>8. PICK x : x = [z EXCEPT !.status = "succeeded", !.owner = Nothing]
  OBVIOUS
<1>9. /\ JobShape(x) /\ x.status = "succeeded" /\ x.buckets = z.buckets
      /\ x.through = z.through /\ x.event = z.event /\ x.known = z.known
  BY <1>6, <1>8 DEF JobShape
<1>10. JobOK(x, revisions, events)
  BY <1>7, <1>9 DEF JobOK, FrontierOK
<1>11. PICK njs : njs = jobs'
  OBVIOUS
<1>12. jobs = [i \in DOMAIN jobs |-> jobs[i]]
  BY <1>1 DEF JobsOK
<1>13. njs = [jobs EXCEPT ![j] = x]
  <2>1. jobs' = [jobs EXCEPT ![j].status = "succeeded", ![j].owner = Nothing]
    BY <1>3 DEF RunJob
  <2> QED BY <1>4, <1>5, <1>6, <1>8, <1>11, <1>12, <2>1 DEF JobShape
<1>14. njs = [i \in DOMAIN jobs |-> njs[i]] /\ DOMAIN njs = DOMAIN jobs
       /\ njs[j] = x /\ \A i \in DOMAIN jobs : i # j => njs[i] = jobs[i]
  BY <1>4, <1>12, <1>13
<1>15. JobsOK(njs, revisions, events)
  <2>1. Sequence(njs)
    BY <1>1, <1>14, SameDomain DEF Sequence, JobsOK
  <2>2. \A i \in DOMAIN njs : JobOK(njs[i], revisions, events)
    BY <1>1, <1>10, <1>14 DEF JobsOK
  <2> QED BY <2>1, <2>2 DEF JobsOK, Sequence
<1>16. PICK rows : rows = RowsOfJob(z)
  OBVIOUS
<1>17. PICK nrl : nrl = rollups'
  OBVIOUS
<1>18. nrl = Inserted(rows)
  BY <1>3, <1>5, <1>16, <1>17 DEF RunJob
<1>19. z.known \in Nat
  BY <1>7 DEF FrontierOK
<1>20. RowSet(rows)
  BY <1>1, <1>7, <1>16, <1>19, RowsOfJobAre
<1>21. \A row \in rows : /\ row.bucket \in z.buckets /\ row.known \in Nat
                         /\ row.through = z.through /\ row.event = z.event
  BY <1>1, <1>7, <1>16, <1>19, RowsOfJobAre
<1>22. \A r \in revisions : r.id <= z.through /\ Bucket(r.slot) \in z.buckets =>
           \E row \in rows : row.bucket = Bucket(r.slot)
  BY <1>1, <1>7, <1>16, <1>19, RowsOfJobAre
<1>23. Written(nrl, rollups, rows)
  BY <1>1, <1>18, <1>20, InsertedRows DEF RowsOK, Sequence
<1>24. RowsOK(nrl, revisions, events)
  <2>1. \A row \in rows : FrontierOK(row, revisions, events)
    BY <1>7, <1>21 DEF FrontierOK
  <2> QED BY <1>1, <1>23, <2>1, RowsWritten
<1>25. ASSUME NEW r \in revisions PROVE Topped(njs, nrl, revisions, events, Bucket(r.slot))
  <2>1. PICK b : b = Bucket(r.slot)
    OBVIOUS
  <2>2. Topped(jobs, rollups, revisions, events, b)
    BY <1>1, <2>1 DEF AllTopped
  <2>3. ASSUME NEW t \in Nat, NEW e \in Nat, IsClaim(jobs, rollups, b, t, e),
               Covers(t, e, revisions, events, b)
        PROVE  IsClaim(njs, nrl, b, t, e)
    <3>1. CASE \E i \in DOMAIN rollups : rollups[i].bucket = b /\ rollups[i].through = t
                                         /\ rollups[i].event = e
      BY <1>23, <3>1 DEF Written, IsClaim
    <3>2. CASE \E i \in DOMAIN jobs : /\ jobs[i].status # "succeeded" /\ b \in jobs[i].buckets
                                      /\ jobs[i].through = t /\ jobs[i].event = e
      <4>1. PICK i \in DOMAIN jobs : /\ jobs[i].status # "succeeded" /\ b \in jobs[i].buckets
                                     /\ jobs[i].through = t /\ jobs[i].event = e
        BY <3>2
      <4>2. CASE i # j
        BY <1>14, <4>1, <4>2 DEF IsClaim
      <4>3. CASE i = j
        <5>1. b \in z.buckets /\ z.through = t /\ z.event = e
          BY <1>5, <4>1, <4>3
        <5>2. r.id <= t
          BY <2>1, <2>3 DEF Covers
        <5>3. PICK row \in rows : row.bucket = b
          BY <1>22, <2>1, <5>1, <5>2
        <5>4. row.through = t /\ row.event = e
          BY <1>21, <5>1
        <5>5. \E i1 \in DOMAIN nrl : nrl[i1].bucket = b /\ nrl[i1].through = t /\ nrl[i1].event = e
          BY <1>23, <5>3, <5>4 DEF Written
        <5> QED BY <5>5 DEF IsClaim
      <4> QED BY <4>2, <4>3
    <3> QED BY <2>3, <3>1, <3>2 DEF IsClaim
  <2>4. ASSUME NEW u \in Nat, NEW f \in Nat, IsClaim(njs, nrl, b, u, f)
        PROVE  IsClaim(jobs, rollups, b, u, f)
    <3>1. CASE \E i \in DOMAIN nrl : nrl[i].bucket = b /\ nrl[i].through = u /\ nrl[i].event = f
      <4>1. PICK i \in DOMAIN nrl : nrl[i].bucket = b /\ nrl[i].through = u /\ nrl[i].event = f
        BY <3>1
      <4>2. CASE i \in DOMAIN rollups
        BY <1>23, <4>1, <4>2 DEF Written, IsClaim
      <4>3. CASE i \notin DOMAIN rollups
        <5>1. nrl[i] \in rows
          BY <1>23, <4>3 DEF Written
        <5>2. b \in z.buckets /\ z.through = u /\ z.event = f /\ z.status # "succeeded"
          BY <1>6, <1>21, <4>1, <5>1
        <5> QED BY <1>4, <1>5, <5>2 DEF IsClaim
      <4> QED BY <4>2, <4>3
    <3>2. CASE \E i \in DOMAIN njs : /\ njs[i].status # "succeeded" /\ b \in njs[i].buckets
                                     /\ njs[i].through = u /\ njs[i].event = f
      BY <1>9, <1>14, <3>2 DEF IsClaim
    <3> QED BY <2>4, <3>1, <3>2 DEF IsClaim
  <2>5. Topped(njs, nrl, revisions, events, b)
    BY <1>1, <2>2, <2>3, <2>4, StillTopped
  <2> QED BY <2>1, <2>5
<1>26. PICK nag : nag = aggregator'
  OBVIOUS
<1>27. AggregatorsOK(nag, njs, revisions)
  <2>1. PICK r : r = IdleWorker
    OBVIOUS
  <2>2. nag = [aggregator EXCEPT ![w] = r]
    BY <1>26, <2>1 DEF RunJob
  <2>3. AggregatorOK(r, njs, revisions)
    BY <2>1, IdleAggregator
  <2> QED BY <1>1, <1>14, <2>2, <2>3, AggregatorsMove
<1>28. AllTopped(njs, nrl, revisions, events)
  BY <1>25 DEF AllTopped
<1> QED BY <1>2, <1>11, <1>15, <1>17, <1>24, <1>26, <1>27, <1>28 DEF FrontierInv

LEMMA MaterializeKeeps ==
    ASSUME FrontierInv, NEW w \in Aggregators, Materialize(w)
    PROVE  FrontierInv'
<1>1. /\ JobsOK(jobs, revisions, events) /\ AggregatorsOK(aggregator, jobs, revisions)
      /\ RowsOK(rollups, revisions, events) /\ AllTopped(jobs, rollups, revisions, events)
      /\ RevisionsOK(revisions) /\ EventsOK(events)
  BY DEF FrontierInv
<1>2. /\ clock' = clock /\ tx' = tx /\ candles' = candles /\ revisions' = revisions
      /\ nextRev' = nextRev /\ coverage' = coverage /\ events' = events /\ jobs' = jobs
  BY DEF Materialize, source
<1>3. PICK read, cov : read = aggregator[w].read /\ cov = aggregator[w].cov
  OBVIOUS
<1>4. ReadOK(read, revisions)
  BY <1>1, <1>3 DEF Materialize, AggregatorsOK, AggregatorOK
<1>5. PICK rows : rows = RowsOfRead(read, cov)
  OBVIOUS
<1>6. RowSet(rows)
  BY <1>1, <1>4, <1>5, RowsOfReadAre
<1>7. \A row \in rows : /\ row.event = QualityCeiling(events, SlotsOf(row.bucket))
                        /\ FrontierOK(row, revisions, events)
                        /\ \E r \in revisions : Bucket(r.slot) = row.bucket /\ row.through = r.id
  BY <1>1, <1>4, <1>5, RowsOfReadAre
<1>8. PICK nrl : nrl = rollups'
  OBVIOUS
<1>9. Written(nrl, rollups, rows)
  <2>1. nrl = Inserted(rows)
    BY <1>3, <1>5, <1>8 DEF Materialize
  <2> QED BY <1>1, <1>6, <2>1, InsertedRows DEF RowsOK, Sequence
<1>10. RowsOK(nrl, revisions, events)
  BY <1>1, <1>7, <1>9, RowsWritten
<1>11. ASSUME NEW row \in rows PROVE Behind(row.through, row.event, revisions, events, row.bucket)
  <2>1. PICK r \in revisions : Bucket(r.slot) = row.bucket /\ row.through = r.id
    BY <1>7
  <2>2. r.id \in Nat
    BY <1>1 DEF RevisionsOK
  <2>3. PICK f, slots : f = row.event /\ slots = SlotsOf(row.bucket)
    OBVIOUS
  <2>4. f = QualityCeiling(events, slots)
    BY <1>7, <2>3
  <2>5. f = 0 \/ (f \in DOMAIN events /\ events[f].slots \cap slots # {})
    BY <1>1, <2>4, CeilingIsNewest
  <2> QED BY <2>1, <2>2, <2>3, <2>5 DEF Behind
<1>12. ASSUME NEW p \in revisions PROVE Topped(jobs, nrl, revisions, events, Bucket(p.slot))
  <2>1. PICK b : b = Bucket(p.slot)
    OBVIOUS
  <2>2. Topped(jobs, rollups, revisions, events, b)
    BY <1>1, <2>1 DEF AllTopped
  <2>3. ASSUME NEW t \in Nat, NEW e \in Nat, IsClaim(jobs, rollups, b, t, e)
        PROVE  IsClaim(jobs, nrl, b, t, e)
    BY <1>9, <2>3 DEF Written, IsClaim
  <2>4. ASSUME NEW u \in Nat, NEW f \in Nat, IsClaim(jobs, nrl, b, u, f)
        PROVE  IsClaim(jobs, rollups, b, u, f) \/ Behind(u, f, revisions, events, b)
    <3>1. CASE \E i \in DOMAIN nrl : nrl[i].bucket = b /\ nrl[i].through = u /\ nrl[i].event = f
      <4>1. PICK i \in DOMAIN nrl : nrl[i].bucket = b /\ nrl[i].through = u /\ nrl[i].event = f
        BY <3>1
      <4>2. CASE i \in DOMAIN rollups
        BY <1>9, <4>1, <4>2 DEF Written, IsClaim
      <4>3. CASE i \notin DOMAIN rollups
        <5>1. nrl[i] \in rows
          BY <1>9, <4>3 DEF Written
        <5> QED BY <1>11, <4>1, <5>1
      <4> QED BY <4>2, <4>3
    <3> QED BY <2>4, <3>1 DEF IsClaim
  <2>5. Topped(jobs, nrl, revisions, events, b)
    BY <1>1, <2>2, <2>3, <2>4, StillTopped
  <2> QED BY <2>1, <2>5
<1>13. PICK nag : nag = aggregator'
  OBVIOUS
<1>14. AggregatorsOK(nag, jobs, revisions)
  <2>1. PICK r : r = IdleWorker
    OBVIOUS
  <2>2. nag = [aggregator EXCEPT ![w] = r]
    BY <1>13, <2>1 DEF Materialize
  <2>3. AggregatorOK(r, jobs, revisions)
    BY <2>1, IdleAggregator
  <2> QED BY <1>1, <2>2, <2>3, AggregatorsMove
<1>15. AllTopped(jobs, nrl, revisions, events)
  BY <1>12 DEF AllTopped
<1> QED BY <1>2, <1>8, <1>10, <1>13, <1>14, <1>15 DEF FrontierInv

----------------------------------------------------------------------------
(* Collectors *)

LEMMA CollectorsMove ==
    ASSUME NEW xs, NEW rv, TransactionsOK(xs, rv), NEW c \in Collectors, NEW nrv, rv \subseteq nrv,
           NEW x, TxOK(x, nrv), NEW nxs, nxs = [xs EXCEPT ![c] = x]
    PROVE  TransactionsOK(nxs, nrv)
<1>1. nxs = [d \in Collectors |-> nxs[d]] /\ nxs[c] = x
      /\ \A d \in Collectors : d # c => nxs[d] = xs[d]
  BY DEF TransactionsOK
<1>2. \A d \in Collectors : TxOK(xs[d], nrv)
  BY DEF TransactionsOK, TxOK, SlotsIn
<1> QED BY <1>1, <1>2 DEF TransactionsOK

(* A step on one collector's transaction alone. *)
LEMMA TransactionStep ==
    ASSUME FrontierInv, clock' \in Nat, nextRev' \in Nat,
           UNCHANGED <<candles, revisions, coverage, events, jobs, rollups, aggregator>>,
           NEW c \in Collectors, NEW x, TxOK(x, revisions), tx' = [tx EXCEPT ![c] = x]
    PROVE  FrontierInv'
<1>1. /\ candles' = candles /\ revisions' = revisions /\ coverage' = coverage /\ events' = events
      /\ jobs' = jobs /\ rollups' = rollups /\ aggregator' = aggregator
  OBVIOUS
<1>2. PICK nxs : nxs = tx'
  OBVIOUS
<1>3. TransactionsOK(nxs, revisions)
  BY <1>2, CollectorsMove DEF FrontierInv
<1> QED BY <1>1, <1>2, <1>3 DEF FrontierInv

LEMMA FetchKeeps ==
    ASSUME FrontierInv, NEW c \in Collectors, Fetch(c)
    PROVE  FrontierInv'
<1>1. clock \in Nat /\ nextRev \in Nat
  BY DEF FrontierInv
<1>2. PICK page \in Pages : \E values \in [page -> Contents] :
           tx' = [tx EXCEPT ![c] = [pc |-> "fetched", page |-> values,
                                    asOf |-> clock + 1, created |-> {}]]
  BY DEF Fetch
<1>3. PICK values \in [page -> Contents] :
           tx' = [tx EXCEPT ![c] = [pc |-> "fetched", page |-> values,
                                    asOf |-> clock + 1, created |-> {}]]
  BY <1>2
<1>4. PICK x : x = [pc |-> "fetched", page |-> values, asOf |-> clock + 1, created |-> {}]
  OBVIOUS
<1>5. DOMAIN values \subseteq Minutes
  BY RollupAssumption
<1>6. RevisionsOK({})
  BY FS_EmptySet DEF RevisionsOK
<1>7. TxOK(x, revisions)
  BY <1>1, <1>4, <1>5, <1>6 DEF TxOK, TxShape
<1>8. tx' = [tx EXCEPT ![c] = x]
  BY <1>3, <1>4
<1>9. /\ clock' \in Nat /\ nextRev' \in Nat
      /\ UNCHANGED <<candles, revisions, coverage, events, jobs, rollups, aggregator>>
  BY <1>1 DEF Fetch, source
<1> QED BY <1>7, <1>8, <1>9, TransactionStep

LEMMA RollbackKeeps ==
    ASSUME FrontierInv, NEW c \in Collectors, Rollback(c)
    PROVE  FrontierInv'
<1>1. PICK x : x = IdleTx
  OBVIOUS
<1>2. TxOK(x, revisions) /\ tx' = [tx EXCEPT ![c] = x]
  BY <1>1, IdleCollector DEF Rollback
<1>3. /\ clock' \in Nat /\ nextRev' \in Nat
      /\ UNCHANGED <<candles, revisions, coverage, events, jobs, rollups, aggregator>>
  BY DEF Rollback, source, FrontierInv
<1> QED BY <1>2, <1>3, TransactionStep

\* What is appended for some slots.
Numbers(f) == \A s \in DOMAIN f : f[s].id \in Nat /\ f[s].slot = s /\ f[s].asOf \in Nat /\ f[s].number \in Nat

LEMMA RevisionsMade ==
    ASSUME NEW T, T \subseteq Minutes, NEW f, DOMAIN f = T, Numbers(f)
    PROVE  RevisionsOK(Values(f, T)) /\ SlotsIn(Values(f, T)) = T
<1>1. IsFiniteSet(T)
  BY FS_Subset, MinutesAndBuckets
<1>2. IsFiniteSet(Values(f, T))
  BY <1>1, ValuesFinite
<1> QED BY <1>2 DEF RevisionsOK, Values, Numbers, SlotsIn

LEMMA UpsertCandlesKeeps ==
    ASSUME FrontierInv, NEW c \in Collectors, UpsertCandles(c)
    PROVE  FrontierInv'
<1> DEFINE page == DOMAIN tx[c].page
           due == {s \in page : RevisionDue(c, s)}
           Revision(s) ==
               [id |-> nextRev + Cardinality({d \in due : d < s}),
                slot |-> s, content |-> tx[c].page[s], asOf |-> tx[c].asOf,
                number |-> Cardinality({r \in revisions : r.slot = s}) + 1]
<1>1. PICK z : z = tx[c]
  OBVIOUS
<1>2. TxOK(z, revisions) /\ z.pc = "fetched" /\ tx = [d \in Collectors |-> tx[d]]
  BY <1>1 DEF FrontierInv, TransactionsOK, UpsertCandles
<1>3. page \subseteq Minutes /\ z.asOf \in Nat /\ TxShape(z)
  BY <1>1, <1>2 DEF TxOK
<1>4. IsFiniteSet(due) /\ due \subseteq Minutes
  BY <1>3, FS_Subset, MinutesAndBuckets
<1>5. nextRev \in Nat /\ clock \in Nat /\ RevisionsOK(revisions)
  BY DEF FrontierInv
<1>6. PICK f : f = [s \in due |-> Revision(s)]
  OBVIOUS
<1>7. Numbers(f)
  <2> SUFFICES ASSUME NEW s \in due
               PROVE  f[s].id \in Nat /\ f[s].slot = s /\ f[s].asOf \in Nat /\ f[s].number \in Nat
    BY <1>6 DEF Numbers
  <2>1. PICK D, R : D = {d \in due : d < s} /\ R = {r \in revisions : r.slot = s}
    OBVIOUS
  <2>2. IsFiniteSet(D) /\ IsFiniteSet(R)
    BY <1>4, <1>5, <2>1, FS_Subset DEF RevisionsOK
  <2>3. Cardinality(D) \in Nat /\ Cardinality(R) \in Nat
    BY <2>2, FS_CardinalityType
  <2>4. f[s] = [id |-> nextRev + Cardinality(D), slot |-> s, content |-> tx[c].page[s],
                asOf |-> z.asOf, number |-> Cardinality(R) + 1]
    BY <1>1, <1>6, <2>1
  <2> HIDE DEF due, Revision
  <2> QED BY <1>3, <1>5, <2>3, <2>4
<1>8. PICK T : T = due
  OBVIOUS
<1>9. PICK cr : cr = Values(f, T)
  OBVIOUS
<1>10. RevisionsOK(cr) /\ SlotsIn(cr) = T
  BY <1>4, <1>6, <1>7, <1>8, <1>9, RevisionsMade
<1>11. cr = {Revision(s) : s \in due}
  BY <1>6, <1>8, <1>9 DEF Values
<1>12. page \subseteq SlotsIn(revisions) \cup SlotsIn(cr)
  BY <1>8, <1>10 DEF RevisionDue, SlotsIn
<1>13. PICK x : x = [z EXCEPT !.pc = "written", !.created = cr]
  OBVIOUS
<1>14. /\ x.pc = "written" /\ x.created = cr /\ x.page = z.page /\ x.asOf = z.asOf /\ TxShape(x)
  BY <1>3, <1>13 DEF TxShape
<1>15. TxOK(x, revisions)
  BY <1>1, <1>3, <1>8, <1>10, <1>12, <1>14 DEF TxOK
<1>16. tx' = [tx EXCEPT ![c] = x]
  <2>1. tx' = [tx EXCEPT ![c].pc = "written", ![c].created = {Revision(s) : s \in due}]
    BY DEF UpsertCandles
  <2> HIDE DEF due, Revision
  <2> QED BY <1>1, <1>2, <1>3, <1>11, <1>13, <2>1 DEF TxShape
<1>17. nextRev' \in Nat
  <2>1. nextRev' = nextRev + Cardinality(due)
    BY DEF UpsertCandles
  <2> HIDE DEF due
  <2> QED BY <1>4, <1>5, <2>1, FS_CardinalityType
<1>18. clock' \in Nat /\ UNCHANGED <<candles, revisions, coverage, events, jobs, rollups, aggregator>>
  BY <1>5 DEF UpsertCandles
<1> QED BY <1>15, <1>16, <1>17, <1>18, TransactionStep

----------------------------------------------------------------------------
(* Changes *)

\* A change of coverage is an event, the newest.
EventsGrow(ev, nev, changed) ==
    /\ EventsOK(nev)
    /\ \/ changed = {} /\ nev = ev
       \/ /\ Len(nev) = Len(ev) + 1 /\ nev[Len(nev)].slots = changed
          /\ \A i \in DOMAIN ev : nev[i] = ev[i]
    /\ changed # {} => Len(nev) # 0

LEMMA ChangeIsEvent ==
    ASSUME EventsOK(events), clock \in Nat, NEW changed
    PROVE  EventsGrow(events, EventsAfter(changed), changed)
<1>1. CASE changed = {}
  BY <1>1 DEF EventsAfter, EventsGrow
<1>2. CASE changed # {}
  <2>1. PICK x : x = [slots |-> changed, at |-> clock]
    OBVIOUS
  <2>2. PICK S : S = {events[i] : i \in DOMAIN events} \cup {x}
    OBVIOUS
  <2>3. /\ Len(events) \in Nat /\ DOMAIN events = 1..Len(events)
        /\ events = [i \in 1..Len(events) |-> events[i]]
    BY DEF EventsOK
  <2>4. events \in Seq(S)
    <3>1. Fills(events, Len(events), S)
      BY <2>2, <2>3 DEF Fills
    <3>2. PICK n \in Nat : n = Len(events)
      BY <2>3
    <3> QED BY <3>1, <3>2, SequenceOf
  <2>5. PICK nev : nev = Append(events, x)
    OBVIOUS
  <2>6. nev \in Seq(S) /\ Len(nev) = Len(events) + 1 /\ nev[Len(events) + 1] = x
        /\ \A i \in 1..Len(events) : nev[i] = events[i]
    BY <2>2, <2>4, <2>5
  <2>7. DOMAIN nev = 1..Len(nev) /\ nev = [i \in 1..Len(nev) |-> nev[i]] /\ Len(nev) \in Nat
    BY <2>6
  <2>8. Sequence(nev)
    <3>1. PICK U, n : U = {nev[i] : i \in DOMAIN nev} /\ n = Len(nev)
      OBVIOUS
    <3>2. Fills(nev, n, U) /\ n \in Nat
      BY <2>7, <3>1 DEF Fills
    <3>3. nev \in Seq(U)
      BY <3>2, SequenceOf
    <3> QED BY <3>1, <3>3 DEF Sequence
  <2>9. \A i \in DOMAIN nev : nev[i].at \in Nat
    <3> TAKE i \in DOMAIN nev
    <3>1. i \in DOMAIN events \/ i = Len(events) + 1
      BY <2>3, <2>6, <2>7
    <3> QED BY <2>1, <2>3, <2>6, <3>1 DEF EventsOK
  <2>10. EventsOK(nev)
    BY <2>8, <2>9 DEF EventsOK, Sequence
  <2>11. nev[Len(nev)].slots = changed /\ Len(nev) # 0
    BY <2>1, <2>3, <2>6
  <2>12. EventsGrow(events, nev, changed)
    BY <2>3, <2>6, <2>10, <2>11 DEF EventsGrow
  <2> QED BY <1>2, <2>1, <2>5, <2>12 DEF EventsAfter
<1> QED BY <1>1, <1>2

(* An empty list of jobs. *)
LEMMA NoJobs ==
    /\ Sequence(<<>>)
    /\ \A changed, rv, ev : changed = {} \/ rv = {} => QualityQueued(<<>>, changed, rv, ev)
    /\ \A rv, ev : SourceQueued(<<>>, {}, rv, ev)
<1>1. PICK e : e = <<>>
  OBVIOUS
<1>2. DOMAIN e = {}
  BY <1>1
<1>3. \A S : e \in Seq(S)
  BY <1>1
<1>4. Sequence(e)
  BY <1>3 DEF Sequence
<1>5. \A rv, ev, bs : Queued(e, rv, ev, bs)
  BY <1>2, <1>3 DEF Queued
<1>6. \A changed, rv, ev : changed = {} \/ rv = {} => QualityQueued(e, changed, rv, ev)
  BY <1>2, <1>5 DEF QualityQueued
<1>7. \A rv, ev : SourceQueued(e, {}, rv, ev)
  BY <1>2, <1>5 DEF SourceQueued
<1> QED BY <1>1, <1>4, <1>6, <1>7

LEMMA AddedQuality ==
    ASSUME NEW js, Sequence(js), NEW q, Sequence(q)
    PROVE  Added(js \o q, js, q, <<>>)
<1>1. PICK u : u = js \o q
  OBVIOUS
<1>2. Joined(u, js, q)
  BY <1>1, Concatenated
<1>3. \A i \in DOMAIN js : i \in DOMAIN u /\ u[i] = js[i]
  BY <1>2 DEF Joined
<1>4. \A n \in DOMAIN q : \E i \in DOMAIN u : u[i] = q[n]
  <2> TAKE n \in DOMAIN q
  <2>1. Len(js) + n \in DOMAIN u /\ u[Len(js) + n] = q[n]
    BY <1>2 DEF Joined
  <2> QED BY <2>1
<1>5. \A i \in DOMAIN u : i \in DOMAIN js \/ \E n \in DOMAIN q : u[i] = q[n]
  BY <1>2 DEF Joined
<1>6. PICK e : e = <<>>
  OBVIOUS
<1>7. DOMAIN e = {}
  BY <1>6
<1>8. Sequence(u)
  BY <1>2 DEF Joined
<1>9. Added(u, js, q, e)
  BY <1>3, <1>4, <1>5, <1>7, <1>8 DEF Added
<1> QED BY <1>1, <1>6, <1>9

LEMMA ChangeStep ==
    ASSUME FrontierInv, NEW created, RevisionsOK(created), NEW changed, changed \subseteq Minutes,
           NEW nrv, nrv = revisions \cup created, NEW nev, EventsGrow(events, nev, changed),
           NEW q, QualityQueued(q, changed, nrv, nev), NEW s, SourceQueued(s, created, nrv, nev),
           NEW njs, Added(njs, jobs, q, s),
           \A r \in created : r.slot \in changed \cup SlotsIn(revisions)
    PROVE  /\ RevisionsOK(nrv) /\ EventsOK(nev)
           /\ JobsOK(njs, nrv, nev) /\ RowsOK(rollups, nrv, nev)
           /\ AllTopped(njs, rollups, nrv, nev) /\ AggregatorsOK(aggregator, njs, nrv)
<1>1. /\ JobsOK(jobs, revisions, events) /\ AggregatorsOK(aggregator, jobs, revisions)
      /\ RowsOK(rollups, revisions, events) /\ AllTopped(jobs, rollups, revisions, events)
      /\ RevisionsOK(revisions) /\ EventsOK(events)
  BY DEF FrontierInv
<1>2. Changes(revisions, events, created, changed, nrv, nev)
  BY <1>1 DEF Changes, EventsGrow
<1>3. JobsOK(njs, nrv, nev) /\ RowsOK(rollups, nrv, nev)
  BY <1>1, <1>2, ChangeKeepsFrontiers
<1>4. AllTopped(njs, rollups, nrv, nev)
  BY <1>1, <1>2, ChangeTopped
<1>5. AggregatorsOK(aggregator, njs, nrv)
  <2>1. DOMAIN jobs \subseteq DOMAIN njs /\ revisions \subseteq nrv
    BY DEF Added
  <2> QED BY <1>1, <2>1, AggregatorsStay
<1>6. RevisionsOK(nrv)
  BY <1>1, UnionOK
<1> QED BY <1>3, <1>4, <1>5, <1>6 DEF EventsGrow

\* Jobs freeze a coverage over their buckets.
Frozen(js, cov) == \A n \in DOMAIN js : \A b \in js[n].buckets : \A s \in SlotsOf(b) : js[n].cov[s] = cov[s]

LEMMA JobFreezes ==
    ASSUME NEW bs, NEW through, NEW event, NEW cov, NEW known
    PROVE  /\ Job(bs, through, event, cov, known).buckets = bs
           /\ \A b \in bs : \A s \in SlotsOf(b) : Job(bs, through, event, cov, known).cov[s] = cov[s]
<1>1. \A b \in bs : \A s \in SlotsOf(b) : s \in Covering(bs)
  BY DEF SlotsOf, Covering
<1>2. PICK f : f = Restrict(cov, Covering(bs))
  OBVIOUS
<1>3. \A s \in Covering(bs) : f[s] = cov[s]
  BY <1>2 DEF Restrict
<1>4. PICK j : j = Job(bs, through, event, cov, known)
  OBVIOUS
<1>5. j.buckets = bs /\ j.cov = f
  BY <1>2, <1>4 DEF Job
<1> QED BY <1>1, <1>3, <1>4, <1>5

LEMMA QualityJobsFreeze ==
    ASSUME NEW changed, NEW rv, NEW ev, NEW cov
    PROVE  Frozen(QualityJobs(changed, rv, ev, cov), cov)
<1> DEFINE ranges == InOrder({r \in AffectedRanges(changed) : Covering(r) \cap SlotsIn(rv) # {}})
           newest == Max({q.id : q \in rv})
<1>1. PICK js : js = QualityJobs(changed, rv, ev, cov)
  OBVIOUS
<1>2. js = [n \in DOMAIN ranges |-> Job(ranges[n], newest, Len(ev), cov, ev[Len(ev)].at)]
  BY <1>1 DEF QualityJobs
<1>3. \A n \in DOMAIN js : js[n] = Job(ranges[n], newest, Len(ev), cov, ev[Len(ev)].at)
  <2> HIDE DEF ranges, newest
  <2> QED BY <1>2
<1>4. \A n \in DOMAIN js : \A b \in js[n].buckets : \A s \in SlotsOf(b) : js[n].cov[s] = cov[s]
  <2> HIDE DEF ranges, newest
  <2> QED BY <1>3, JobFreezes
<1> QED BY <1>1, <1>4 DEF Frozen

LEMMA SourceJobsFreeze ==
    ASSUME NEW created, NEW ev, NEW cov
    PROVE  Frozen(SourceJobs(created, ev, cov), cov)
<1> DEFINE ranges == InOrder(AffectedRanges(SlotsIn(created)))
           newest == Max({q.id : q \in created})
           ceiling(r) == QualityCeiling(ev, Covering(r))
           knowledge(r) == Max({q.asOf : q \in created}
                               \cup {IF ceiling(r) = 0 THEN 0 ELSE ev[ceiling(r)].at})
<1>1. PICK js : js = SourceJobs(created, ev, cov)
  OBVIOUS
<1>2. js = [n \in DOMAIN ranges |->
               Job(ranges[n], newest, ceiling(ranges[n]), cov, knowledge(ranges[n]))]
  BY <1>1 DEF SourceJobs
<1>3. \A n \in DOMAIN js : js[n] = Job(ranges[n], newest, ceiling(ranges[n]), cov, knowledge(ranges[n]))
  <2> HIDE DEF ranges, newest, ceiling, knowledge
  <2> QED BY <1>2
<1>4. \A n \in DOMAIN js : \A b \in js[n].buckets : \A s \in SlotsOf(b) : js[n].cov[s] = cov[s]
  <2> HIDE DEF ranges, newest, ceiling, knowledge
  <2> QED BY <1>3, JobFreezes
<1> QED BY <1>1, <1>4 DEF Frozen

LEMMA NothingFrozen == \A cov : Frozen(<<>>, cov)
<1>1. PICK e : e = <<>>
  OBVIOUS
<1>2. DOMAIN e = {}
  BY <1>1
<1> QED BY <1>1, <1>2 DEF Frozen

\* What a collector's transaction is about to commit.
Commits(c, changed, created, nrv, nev, cov) ==
    /\ changed = Changed(DOMAIN tx[c].page, "available") /\ created = tx[c].created
    /\ nrv = revisions \cup created /\ nev = EventsAfter(changed)
    /\ cov = Reclassified(DOMAIN tx[c].page, "available")

(* A commit queues its quality jobs and its source jobs, all under the new
   coverage. *)
LEMMA CommitQueues ==
    ASSUME FrontierInv, NEW c \in Collectors, Propagate(c),
           NEW changed, NEW created, NEW nrv, NEW nev, NEW cov, Commits(c, changed, created, nrv, nev, cov)
    PROVE  \E q, s : /\ QualityQueued(q, changed, nrv, nev) /\ Frozen(q, cov)
                     /\ SourceQueued(s, created, nrv, nev) /\ Frozen(s, cov)
                     /\ Added(jobs', jobs, q, s)
<1>1. PICK z : z = tx[c]
  OBVIOUS
<1>2. /\ RevisionsOK(revisions) /\ EventsOK(events) /\ TransactionsOK(tx, revisions)
      /\ JobsOK(jobs, revisions, events) /\ clock \in Nat
  BY DEF FrontierInv
<1>3. TxOK(z, revisions) /\ z.pc = "written"
  BY <1>1, <1>2 DEF TransactionsOK, Propagate
<1>4. PICK page : page = DOMAIN z.page
  OBVIOUS
<1>5. /\ page \subseteq Minutes /\ RevisionsOK(created)
      /\ page \subseteq SlotsIn(revisions) \cup SlotsIn(created)
  BY <1>1, <1>3, <1>4 DEF TxOK, Commits
<1>6. changed \subseteq page /\ changed \subseteq Minutes
  BY <1>1, <1>4, <1>5 DEF Changed, Commits
<1>7. EventsGrow(events, nev, changed)
  BY <1>2, ChangeIsEvent DEF Commits
<1>8. RevisionsOK(nrv) /\ SlotsIn(nrv) = SlotsIn(revisions) \cup SlotsIn(created)
  BY <1>2, <1>5, UnionOK DEF SlotsIn, Commits
<1>9. PICK q : q = IF changed = {} THEN <<>> ELSE QualityJobs(changed, nrv, nev, cov)
  OBVIOUS
<1>10. QualityQueued(q, changed, nrv, nev)
  <2>1. CASE changed = {}
    BY <1>9, <2>1, NoJobs
  <2>2. CASE changed # {}
    <3>1. nrv # {}
      BY <1>5, <1>6, <1>8, <2>2 DEF SlotsIn
    <3>2. EventsOK(nev) /\ Len(nev) # 0
      BY <1>7, <2>2 DEF EventsGrow
    <3>3. QualityQueued(QualityJobs(changed, nrv, nev, cov), changed, nrv, nev)
      BY <1>6, <1>8, <3>1, <3>2, QualityJobsQueued
    <3> QED BY <1>9, <2>2, <3>3
  <2> QED BY <2>1, <2>2
<1>11. PICK s : s = IF created = {} THEN <<>> ELSE SourceJobs(created, nev, cov)
  OBVIOUS
<1>12. SourceQueued(s, created, nrv, nev)
  <2>1. CASE created = {}
    BY <1>11, <2>1, NoJobs
  <2>2. CASE created # {}
    <3>1. EventsOK(nev) /\ created \subseteq nrv
      BY <1>7 DEF EventsGrow, Commits
    <3>2. SourceQueued(SourceJobs(created, nev, cov), created, nrv, nev)
      BY <1>5, <2>2, <3>1, SourceJobsQueued
    <3> QED BY <1>11, <2>2, <3>2
  <2> QED BY <2>1, <2>2
<1>13. PICK njs : njs = jobs'
  OBVIOUS
<1>14. njs = (jobs \o q) \o s
  BY <1>9, <1>11, <1>13 DEF Propagate, Commits
<1>15. Added(njs, jobs, q, s)
  <2>1. Sequence(jobs)
    BY <1>2 DEF JobsOK, Sequence
  <2>2. Sequence(q)
    BY <1>10 DEF QualityQueued, Queued, Sequence
  <2>3. Sequence(s)
    BY <1>12 DEF SourceQueued, Queued, Sequence
  <2> QED BY <1>14, <2>1, <2>2, <2>3, AddedJobs
<1>16. Frozen(q, cov) /\ Frozen(s, cov)
  BY <1>9, <1>11, QualityJobsFreeze, SourceJobsFreeze, NothingFrozen
<1> QED BY <1>10, <1>12, <1>13, <1>15, <1>16

LEMMA PropagateKeeps ==
    ASSUME FrontierInv, NEW c \in Collectors, Propagate(c)
    PROVE  FrontierInv'
<1>1. PICK z : z = tx[c]
  OBVIOUS
<1>2. /\ RevisionsOK(revisions) /\ EventsOK(events) /\ TransactionsOK(tx, revisions)
      /\ StoreOK(candles, coverage, revisions) /\ JobsOK(jobs, revisions, events)
      /\ clock \in Nat /\ nextRev \in Nat
  BY DEF FrontierInv
<1>3. TxOK(z, revisions) /\ z.pc = "written"
  BY <1>1, <1>2 DEF TransactionsOK, Propagate
<1>4. PICK changed, created, nrv, nev, cov : Commits(c, changed, created, nrv, nev, cov)
  BY DEF Commits
<1>5. PICK page : page = DOMAIN z.page
  OBVIOUS
<1>6. /\ page \subseteq Minutes /\ RevisionsOK(created) /\ SlotsIn(created) \subseteq page
      /\ page \subseteq SlotsIn(revisions) \cup SlotsIn(created)
  BY <1>1, <1>3, <1>4, <1>5 DEF TxOK, Commits
<1>7. changed \subseteq page /\ changed \subseteq Minutes
      /\ \A s \in page : s \in changed \/ coverage[s] = "available"
  BY <1>1, <1>4, <1>5, <1>6 DEF Changed, Commits
<1>8. EventsGrow(events, nev, changed)
  BY <1>2, <1>4, ChangeIsEvent DEF Commits
<1>9. RevisionsOK(nrv) /\ SlotsIn(nrv) = SlotsIn(revisions) \cup SlotsIn(created)
      /\ nrv = revisions \cup created
  BY <1>2, <1>4, <1>6, UnionOK DEF SlotsIn, Commits
<1>10. PICK njs : njs = jobs'
  OBVIOUS
<1>11. PICK q, s : /\ QualityQueued(q, changed, nrv, nev) /\ SourceQueued(s, created, nrv, nev)
                   /\ Added(njs, jobs, q, s)
  BY <1>4, <1>10, CommitQueues
<1>12. \A r \in created : r.slot \in changed \cup SlotsIn(revisions)
  <2> TAKE r \in created
  <2>1. r.slot \in page /\ r.slot \in Minutes
    BY <1>6 DEF SlotsIn
  <2> QED BY <1>2, <1>7, <2>1 DEF StoreOK
<1>13. /\ EventsOK(nev) /\ JobsOK(njs, nrv, nev) /\ RowsOK(rollups, nrv, nev)
       /\ AllTopped(njs, rollups, nrv, nev) /\ AggregatorsOK(aggregator, njs, nrv)
  BY <1>6, <1>7, <1>8, <1>9, <1>11, <1>12, ChangeStep
<1>14. PICK ncd : ncd = candles'
  OBVIOUS
<1>15. StoreOK(ncd, cov, nrv)
  <2>1. ncd = [m \in Minutes |->
               IF m \in page /\ (candles[m] = Nothing \/ tx[c].asOf >= candles[m].asOf)
               THEN [content |-> tx[c].page[m], asOf |-> tx[c].asOf]
               ELSE candles[m]]
    BY <1>1, <1>5, <1>14 DEF Propagate
  <2>2. ncd = [m \in Minutes |-> ncd[m]]
        /\ \A m \in Minutes : ncd[m] # Nothing => m \in page \/ candles[m] # Nothing
    BY <2>1
  <2>3. cov = [m \in Minutes |-> cov[m]]
        /\ \A m \in Minutes : cov[m] = "available" => m \in page \/ coverage[m] = "available"
    BY <1>1, <1>4, <1>5 DEF Reclassified, Commits
  <2>4. \A m \in Minutes : candles[m] # Nothing \/ coverage[m] = "available" => m \in SlotsIn(revisions)
    BY <1>2 DEF StoreOK
  <2>5. \A m \in Minutes : ncd[m] # Nothing \/ cov[m] = "available" => m \in SlotsIn(nrv)
    BY <1>6, <1>9, <2>2, <2>3, <2>4
  <2> QED BY <2>2, <2>3, <2>5 DEF StoreOK
<1>16. PICK nxs : nxs = tx'
  OBVIOUS
<1>17. TransactionsOK(nxs, nrv)
  <2>1. PICK x : x = IdleTx
    OBVIOUS
  <2>2. TxOK(x, nrv)
    BY <2>1, IdleCollector
  <2>3. nxs = [tx EXCEPT ![c] = x]
    BY <1>16, <2>1 DEF Propagate
  <2>4. revisions \subseteq nrv
    BY <1>9
  <2> QED BY <1>2, <2>2, <2>3, <2>4, CollectorsMove
<1>18. /\ clock' = clock /\ nextRev' = nextRev /\ rollups' = rollups /\ aggregator' = aggregator
       /\ revisions' = nrv /\ coverage' = cov /\ events' = nev
  BY <1>4 DEF Propagate, Commits
<1> QED BY <1>2, <1>9, <1>10, <1>13, <1>14, <1>15, <1>16, <1>17, <1>18 DEF FrontierInv

LEMMA ClassifyKeeps ==
    ASSUME FrontierInv, NEW span \in Spans, NEW status \in Verdicts, Classify(span, status)
    PROVE  FrontierInv'
<1>1. /\ RevisionsOK(revisions) /\ EventsOK(events) /\ TransactionsOK(tx, revisions)
      /\ StoreOK(candles, coverage, revisions) /\ JobsOK(jobs, revisions, events)
      /\ clock \in Nat /\ nextRev \in Nat
  BY DEF FrontierInv
<1>2. PICK changed : changed = Changed(span, status)
  OBVIOUS
<1>3. changed # {} /\ changed \subseteq Minutes /\ status # "available"
  BY <1>2, RollupAssumption DEF Classify, Changed
<1>4. PICK nev : nev = EventsAfter(changed)
  OBVIOUS
<1>5. EventsGrow(events, nev, changed)
  BY <1>1, <1>4, ChangeIsEvent
<1>6. PICK cov : cov = Reclassified(span, status)
  OBVIOUS
<1>7. PICK q : q = IF revisions = {} THEN <<>> ELSE QualityJobs(changed, revisions, nev, cov)
  OBVIOUS
<1>8. QualityQueued(q, changed, revisions, nev)
  <2>1. CASE revisions = {}
    BY <1>7, <2>1, NoJobs
  <2>2. CASE revisions # {}
    <3>1. EventsOK(nev) /\ Len(nev) # 0
      BY <1>3, <1>5 DEF EventsGrow
    <3>2. QualityQueued(QualityJobs(changed, revisions, nev, cov), changed, revisions, nev)
      BY <1>1, <1>3, <2>2, <3>1, QualityJobsQueued
    <3> QED BY <1>7, <2>2, <3>2
  <2> QED BY <2>1, <2>2
<1>9. PICK njs : njs = jobs'
  OBVIOUS
<1>10. njs = jobs \o q
  BY <1>2, <1>4, <1>6, <1>7, <1>9 DEF Classify
<1>11. PICK s : s = <<>>
  OBVIOUS
<1>12. PICK created : created = {}
  OBVIOUS
<1>13. SourceQueued(s, created, revisions, nev)
  BY <1>11, <1>12, NoJobs
<1>14. Added(njs, jobs, q, s)
  <2>1. Sequence(jobs)
    BY <1>1 DEF JobsOK, Sequence
  <2>2. Sequence(q)
    BY <1>8 DEF QualityQueued, Queued, Sequence
  <2> QED BY <1>10, <1>11, <2>1, <2>2, AddedQuality
<1>15. RevisionsOK(created)
  BY <1>12, FS_EmptySet DEF RevisionsOK
<1>16. revisions = revisions \cup created /\ \A r \in created : r.slot \in changed \cup SlotsIn(revisions)
  BY <1>12
<1>17. /\ EventsOK(nev) /\ JobsOK(njs, revisions, nev) /\ RowsOK(rollups, revisions, nev)
       /\ AllTopped(njs, rollups, revisions, nev) /\ AggregatorsOK(aggregator, njs, revisions)
  BY <1>3, <1>5, <1>8, <1>13, <1>14, <1>15, <1>16, ChangeStep
<1>18. StoreOK(candles, cov, revisions)
  <2>1. cov = [m \in Minutes |-> cov[m]]
        /\ \A m \in Minutes : cov[m] = "available" => coverage[m] = "available"
    BY <1>3, <1>6 DEF Reclassified
  <2> QED BY <1>1, <2>1 DEF StoreOK
<1>19. /\ clock' = clock /\ nextRev' = nextRev /\ rollups' = rollups /\ aggregator' = aggregator
       /\ tx' = tx /\ candles' = candles /\ revisions' = revisions
  BY DEF Classify
<1>20. coverage' = cov /\ events' = nev
  BY <1>2, <1>4, <1>6 DEF Classify
<1> QED BY <1>1, <1>9, <1>17, <1>18, <1>19, <1>20 DEF FrontierInv

LEMMA NextFrontierInv == FrontierInv /\ [RollupNext]_rollupVars => FrontierInv'
<1> SUFFICES ASSUME FrontierInv, [RollupNext]_rollupVars PROVE FrontierInv'
  OBVIOUS
<1>1. CASE UNCHANGED rollupVars
  BY <1>1 DEF rollupVars, source, FrontierInv
<1>2. ASSUME NEW c \in Collectors, CollectorStep(c) PROVE FrontierInv'
  BY <1>2, FetchKeeps, UpsertCandlesKeeps, PropagateKeeps, RollbackKeeps DEF CollectorStep
<1>3. ASSUME NEW span \in Spans, NEW status \in Verdicts, Classify(span, status) PROVE FrontierInv'
  BY <1>3, ClassifyKeeps
<1>4. ASSUME NEW w \in Aggregators, WorkerStep(w) PROVE FrontierInv'
  BY <1>4, ClaimNextJobKeeps, ClaimJobKeeps, RunJobKeeps, FailJobKeeps, ScheduleKeeps,
     ClaimAggregationKeeps, MaterializeKeeps, MaterializeFailsKeeps DEF WorkerStep
<1>5. ASSUME NEW j \in DOMAIN jobs, Elapse(j) \/ SafeRestart(j) PROVE FrontierInv'
  BY <1>5, ElapseKeeps, SafeRestartKeeps
<1> QED BY <1>1, <1>2, <1>3, <1>4, <1>5 DEF RollupNext

----------------------------------------------------------------------------
(* What a reader is served *)

LEMMA ServedIsGreatest ==
    ASSUME RowsOK(rollups, revisions, events), NEW b, RowsOf(b) # {}
    PROVE  \E k \in RowsOf(b) : Served(b) = rollups[k] /\ \A q \in RowsOf(b) : Before(q, k)
<1> DEFINE S == RowsOf(b)
           R == {rq \in S \X S : Before(rq[2], rq[1])}
<1>1. IsFiniteSet(S) /\ S # {} /\ S \subseteq DOMAIN rollups /\ S \subseteq Nat
  <2>1. DOMAIN rollups = 1..Len(rollups) /\ Len(rollups) \in Nat
    BY DEF RowsOK, Sequence
  <2>2. IsFiniteSet(1..Len(rollups))
    BY <2>1, FS_Interval
  <2> QED BY <2>1, <2>2, FS_Subset DEF RowsOf
<1>2. \A r \in S : rollups[r].through \in Nat /\ rollups[r].event \in Nat /\ rollups[r].known \in Nat
  BY <1>1 DEF RowsOK, FrontierOK
<1>3. \A x, y \in S : <<x, y>> \in R <=> Before(y, x)
  OBVIOUS
<1>4. ASSUME NEW x \in S, NEW y \in S PROVE Before(x, y) \/ Before(y, x)
  <2>1. PICK a, b1, k, l, m, n \in Nat : /\ a = rollups[x].through /\ b1 = rollups[y].through
                                         /\ k = rollups[x].event /\ l = rollups[y].event
                                         /\ m = rollups[x].known /\ n = rollups[y].known
    BY <1>2
  <2>2. x \in Nat /\ y \in Nat
    BY <1>1
  <2> QED BY <2>1, <2>2 DEF Before
<1>5. ASSUME NEW x \in S, NEW y \in S, NEW z \in S, Before(y, x), Before(z, y) PROVE Before(z, x)
  <2>1. PICK a1, a2, a3, k1, k2, k3, m1, m2, m3 \in Nat :
            /\ a1 = rollups[x].through /\ a2 = rollups[y].through /\ a3 = rollups[z].through
            /\ k1 = rollups[x].event /\ k2 = rollups[y].event /\ k3 = rollups[z].event
            /\ m1 = rollups[x].known /\ m2 = rollups[y].known /\ m3 = rollups[z].known
    BY <1>2
  <2>2. x \in Nat /\ y \in Nat /\ z \in Nat
    BY <1>1
  <2>3. a2 < a1 \/ (a2 = a1 /\ (k2 < k1 \/ (k2 = k1 /\ (m2 < m1 \/ (m2 = m1 /\ y <= x)))))
    BY <1>5, <2>1 DEF Before
  <2>4. a3 < a2 \/ (a3 = a2 /\ (k3 < k2 \/ (k3 = k2 /\ (m3 < m2 \/ (m3 = m2 /\ z <= y)))))
    BY <1>5, <2>1 DEF Before
  <2>5. a3 < a1 \/ (a3 = a1 /\ (k3 < k1 \/ (k3 = k1 /\ (m3 < m1 \/ (m3 = m1 /\ z <= x)))))
    BY <2>2, <2>3, <2>4
  <2> QED BY <2>1, <2>5 DEF Before
<1> HIDE DEF R
<1>6. \A x, y \in S : <<x, y>> \in R \/ <<y, x>> \in R
  BY <1>3, <1>4
<1>7. \A x, y, z \in S : <<x, y>> \in R /\ <<y, z>> \in R => <<x, z>> \in R
  BY <1>3, <1>5
<1>8. \E x \in S : \A y \in S : <<x, y>> \in R
  <2> HIDE DEF S
  <2> QED BY <1>1, <1>6, <1>7, FirstElement
<1>9. \E k \in RowsOf(b) : \A q \in RowsOf(b) : Before(q, k)
  BY <1>3, <1>8
<1>10. PICK k : k = CHOOSE r \in RowsOf(b) : \A q \in RowsOf(b) : Before(q, r)
  OBVIOUS
<1>11. k \in RowsOf(b) /\ \A q \in RowsOf(b) : Before(q, k)
  BY <1>9, <1>10
<1>12. Served(b) = rollups[k]
  BY <1>10 DEF Served
<1> QED BY <1>11, <1>12

(* Once drained, what is served of a bucket covers it. *)
LEMMA ServedCovers ==
    ASSUME FrontierInv, Drained, NEW r \in revisions, NEW b, b = Bucket(r.slot)
    PROVE  \E k \in RowsOf(b) : /\ Served(b) = rollups[k]
                                /\ rollups[k].through \in Nat /\ rollups[k].event \in Nat
                                /\ Covers(rollups[k].through, rollups[k].event, revisions, events, b)
<1>1. RowsOK(rollups, revisions, events) /\ Topped(jobs, rollups, revisions, events, b)
  BY DEF FrontierInv, AllTopped
<1>2. PICK t, e : Tops(t, e, jobs, rollups, revisions, events, b)
  BY <1>1 DEF Topped
<1>3. PICK i \in DOMAIN rollups : rollups[i].bucket = b /\ rollups[i].through = t /\ rollups[i].event = e
  BY <1>2 DEF Tops, IsClaim, Drained
<1>4. i \in RowsOf(b)
  BY <1>3 DEF RowsOf
<1>5. PICK k \in RowsOf(b) : Served(b) = rollups[k] /\ \A q \in RowsOf(b) : Before(q, k)
  BY <1>1, <1>4, ServedIsGreatest
<1>6. PICK u, f : u = rollups[k].through /\ f = rollups[k].event
  OBVIOUS
<1>7. u \in Nat /\ f \in Nat /\ t \in Nat /\ e \in Nat
  BY <1>1, <1>2, <1>5, <1>6 DEF RowsOf, RowsOK, FrontierOK, Tops
<1>8. IsClaim(jobs, rollups, b, u, f)
  BY <1>5, <1>6 DEF RowsOf, IsClaim
<1>9. AtMost(u, f, t, e)
  BY <1>2, <1>7, <1>8 DEF Tops
<1>10. Before(i, k)
  BY <1>4, <1>5
<1>11. t < u \/ (t = u /\ e <= f)
  BY <1>3, <1>6, <1>7, <1>10 DEF Before
<1>12. u = t /\ f = e
  BY <1>7, <1>9, <1>11 DEF AtMost
<1>13. Covers(u, f, revisions, events, b)
  BY <1>2, <1>12 DEF Tops
<1> QED BY <1>5, <1>6, <1>7, <1>13

LEMMA FrontierInvSettles == FrontierInv => SettledFrontier
<1> SUFFICES ASSUME FrontierInv, Drained, NEW r \in revisions, NEW b, b = Bucket(r.slot)
             PROVE  /\ RowsOf(b) # {}
                    /\ Served(b).through >= r.id
                    /\ Served(b).event >= QualityCeiling(events, SlotsOf(b))
  BY DEF SettledFrontier
<1>1. RevisionsOK(revisions) /\ EventsOK(events)
  BY DEF FrontierInv
<1>2. PICK k \in RowsOf(b) :
          /\ Served(b) = rollups[k] /\ rollups[k].through \in Nat /\ rollups[k].event \in Nat
          /\ Covers(rollups[k].through, rollups[k].event, revisions, events, b)
  BY ServedCovers
<1>3. PICK t, e \in Nat : t = rollups[k].through /\ e = rollups[k].event
  BY <1>2
<1>4. r.id <= t /\ r.id \in Nat
  BY <1>1, <1>2, <1>3 DEF Covers, RevisionsOK
<1>5. PICK c, slots : c = QualityCeiling(events, slots) /\ slots = SlotsOf(b)
  OBVIOUS
<1>6. c = 0 \/ (c \in DOMAIN events /\ events[c].slots \cap slots # {})
  BY <1>1, <1>5, CeilingIsNewest
<1>7. c <= e /\ c \in Nat
  BY <1>1, <1>2, <1>3, <1>5, <1>6, CeilingIsNewest DEF Covers
<1> QED BY <1>2, <1>3, <1>4, <1>5, <1>7

(* SettledFrontier, for any number of collectors and aggregation workers, any
   minutes, bucket and page sizes, and however many responses, verdicts,
   lost workers and restarts: once the queue of recompute jobs is drained, the
   row a reader is served of a bucket names a frontier as new as every
   revision and every quality event of the bucket.  The advisory lock of
   _upsert_candles and the order in which it queues quality and source jobs
   are what makes it so. *)
THEOREM FrontiersSettle == RollupSpec => []SettledFrontier
<1>1. RollupInit => FrontierInv
  BY InitFrontierInv
<1>2. FrontierInv /\ [RollupNext]_rollupVars => FrontierInv'
  BY NextFrontierInv
<1>3. FrontierInv => SettledFrontier
  BY FrontierInvSettles
<1> QED BY <1>1, <1>2, <1>3, PTL DEF RollupSpec

----------------------------------------------------------------------------
(* The value of a settled rollup *)

\* The one revision of its slot that is numbered highest and as new as any.
Newest(r, rv) ==
    /\ r \in rv
    /\ \A q \in rv : q.slot = r.slot /\ q # r => q.number < r.number /\ q.asOf <= r.asOf

LEMMA NewestIsLatest ==
    ASSUME NEW rv, RevisionsOK(rv), NEW r, Newest(r, rv), NEW part, part \subseteq rv, r \in part
    PROVE  Latest(part, r.slot) = r
<1> DEFINE Best(x) == \A q \in part : q.slot = r.slot => Newer(x, q)
<1>1. \A q \in rv : q.asOf \in Nat /\ q.number \in Nat
  BY DEF RevisionsOK
<1>2. Best(r)
  BY <1>1 DEF Newest, Newer
<1>3. ASSUME NEW x \in part, x.slot = r.slot, Best(x) PROVE x = r
  <2> SUFFICES ASSUME x # r PROVE FALSE
    OBVIOUS
  <2>1. Newer(x, r) /\ x.number < r.number /\ x.asOf <= r.asOf
    BY <1>3 DEF Newest
  <2> QED BY <1>1, <2>1 DEF Newer
<1>4. PICK y : y = Latest(part, r.slot)
  OBVIOUS
<1>5. y \in part /\ y.slot = r.slot /\ Best(y)
  BY <1>2, <1>4 DEF Latest
<1> QED BY <1>3, <1>4, <1>5

(* The revision that a write compares with is the newest one. *)
LEMMA NewestIsHighest ==
    ASSUME NEW rv, RevisionsOK(rv), NEW r, Newest(r, rv), NEW known, known = {q \in rv : q.slot = r.slot}
    PROVE  (CHOOSE x \in known : \A q \in known : x.number >= q.number) = r
<1>1. \A q \in rv : q.number \in Nat
  BY DEF RevisionsOK
<1>2. r \in known /\ \A q \in known : r.number >= q.number
  BY <1>1 DEF Newest
<1>3. ASSUME NEW x \in known, \A q \in known : x.number >= q.number PROVE x = r
  <2> SUFFICES ASSUME x # r PROVE FALSE
    OBVIOUS
  <2>1. x.number >= r.number /\ x.number < r.number
    BY <1>2, <1>3 DEF Newest
  <2> QED BY <1>1, <1>2, <2>1
<1> QED BY <1>2, <1>3

(* What is aggregated depends on the coverage of the bucket alone. *)
LEMMA AggregateOfBucket ==
    ASSUME NEW b, NEW inputs, NEW cv, NEW dv, \A s \in SlotsOf(b) : cv[s] = dv[s]
    PROVE  Aggregate(b, inputs, cv) = Aggregate(b, inputs, dv)
<1>1. PICK missing : missing = SlotsOf(b) \ DOMAIN inputs
  OBVIOUS
<1>2. \A s \in missing : cv[s] = dv[s]
  BY <1>1
<1>3. WorstQuality(cv, missing) = WorstQuality(dv, missing)
  BY <1>2 DEF WorstQuality
<1>4. (\A s \in missing : cv[s] = "no_trade") <=> \A s \in missing : dv[s] = "no_trade"
  BY <1>2
<1> QED BY <1>1, <1>3, <1>4 DEF Aggregate

\* What candles give a bucket, and its aggregate.
InputsOf(b, cd) ==
    [s \in {t \in SlotsOf(b) : cd[t] # Nothing} |-> <<cd[s].content, cd[s].content>>]
Current(b, cd, cv) == Aggregate(b, InputsOf(b, cd), cv)

LEMMA CurrentHere == \A b : CurrentAggregate(b) = Current(b, candles, coverage)
BY DEF CurrentAggregate, Current, InputsOf

\* To a bucket two stores are the same.
SameStore(b, cd, cv, nd, nv) ==
    \A s \in SlotsOf(b) : /\ cv[s] = nv[s]
                          /\ cd[s] # Nothing <=> nd[s] # Nothing
                          /\ cd[s] # Nothing => cd[s].content = nd[s].content

LEMMA SameCurrent ==
    ASSUME NEW b, NEW cd, NEW cv, NEW nd, NEW nv, SameStore(b, cd, cv, nd, nv)
    PROVE  Current(b, cd, cv) = Current(b, nd, nv)
<1>1. InputsOf(b, cd) = InputsOf(b, nd)
  BY DEF SameStore, InputsOf
<1>2. \A s \in SlotsOf(b) : cv[s] = nv[s]
  BY DEF SameStore
<1>3. PICK inputs : inputs = InputsOf(b, nd)
  OBVIOUS
<1>4. Aggregate(b, inputs, cv) = Aggregate(b, inputs, nv)
  BY <1>2, AggregateOfBucket
<1> QED BY <1>1, <1>3, <1>4 DEF Current

OneWriter(xs) ==
    \A c, d \in Collectors : xs[c].pc = "written" /\ xs[d].pc = "written" => c = d

\* A revision's number is at most how many its slot has.
NumberedIn(rv) == \A r \in rv : r.number <= Cardinality({q \in rv : q.slot = r.slot})

\* A slot has a candle when it has a revision, with the content of the newest.
Holding(cd, rv) ==
    /\ \A r \in rv : cd[r.slot] # Nothing
    /\ \A s \in Minutes : cd[s] # Nothing =>
           /\ cd[s].asOf \in Nat
           /\ \E r \in rv : /\ r.slot = s /\ Newest(r, rv)
                            /\ r.content = cd[s].content /\ r.asOf <= cd[s].asOf

\* The next revision of its slot, in the hands of a writer.
NewRevision(q, x, rv) ==
    /\ q.content = x.page[q.slot] /\ q.asOf = x.asOf
    /\ q.number = Cardinality({r \in rv : r.slot = q.slot}) + 1
    /\ \A r \in rv : r.id < q.id

\* What a collector knows of the store once it has written: no candle is newer
\* than its response, and a slot it made no revision for has that content.
Writing(x, cd, rv, next) ==
    /\ x.pc \in {"fetched", "written"} => \A s \in DOMAIN x.page : x.page[s] \in Contents
    /\ x.pc = "written" =>
           /\ \A s \in DOMAIN x.page : cd[s] # Nothing => cd[s].asOf <= x.asOf
           /\ \A s \in DOMAIN x.page : s \in SlotsIn(x.created) \/
                  \E r \in rv : r.slot = s /\ Newest(r, rv) /\ r.content = x.page[s]
           /\ \A q \in x.created : NewRevision(q, x, rv) /\ q.id < next
           /\ \A q, p \in x.created : q.slot = p.slot => q = p

\* What a full aggregation has read is what there is.
ReadsNow(x, cd, cv) ==
    x.pc = "materializing" =>
        /\ x.cov = cv
        /\ DOMAIN x.read = {s \in Minutes : cd[s] # Nothing}
        /\ \A s \in DOMAIN x.read : /\ x.read[s].content = cd[s].content
                                    /\ x.read[s].revision.content = cd[s].content

\* The frozen coverage of a job, over the buckets its frontier covers.
JobCurrent(j, rv, ev, cv) ==
    j.status # "succeeded" => \A b \in j.buckets : Covers(j.through, j.event, rv, ev, b) =>
        \A s \in SlotsOf(b) : j.cov[s] = cv[s]
JobsCurrent(js, rv, ev, cv) == \A j \in DOMAIN js : JobCurrent(js[j], rv, ev, cv)

\* A row whose frontier covers its bucket has the value of the store.
RowCurrent(r, rv, ev, cd, cv) ==
    Covers(r.through, r.event, rv, ev, r.bucket) => r.result = Current(r.bucket, cd, cv)
RowsCurrent(rl, rv, ev, cd, cv) == \A i \in DOMAIN rl : RowCurrent(rl[i], rv, ev, cd, cv)

ReadersNow(ag, cd, cv) == \A w \in Aggregators : ReadsNow(ag[w], cd, cv)
WritersKnow(xs, cd, rv, next) ==
    OneWriter(xs) /\ \A c \in Collectors : Writing(xs[c], cd, rv, next)

StoreNow(cd, rv, next) ==
    /\ NumberedIn(rv) /\ \A r \in rv : r.id < next
    /\ Holding(cd, rv)

ValuesHold ==
    /\ StoreNow(candles, revisions, nextRev)
    /\ WritersKnow(tx, candles, revisions, nextRev)
    /\ ReadersNow(aggregator, candles, coverage)
    /\ JobsCurrent(jobs, revisions, events, coverage)
    /\ RowsCurrent(rollups, revisions, events, candles, coverage)
ValueInv == raced \in BOOLEAN /\ (~raced => ValuesHold)

(* The rows of a job whose frontier covers a bucket have its value. *)
LEMMA JobRowsCurrent ==
    ASSUME RevisionsOK(revisions), Holding(candles, revisions),
           NEW job, JobCurrent(job, revisions, events, coverage), job.status # "succeeded",
           StoreOK(candles, coverage, revisions),
           NEW row \in RowsOfJob(job), row.through = job.through, row.event = job.event
    PROVE  RowCurrent(row, revisions, events, candles, coverage)
<1> DEFINE revs == {r \in revisions : r.id <= job.through}
           inputs(b) == [s \in SlotsOf(b) \cap SlotsIn(revs) |->
                            <<Latest(revs, s).content, Latest(revs, s).content>>]
           known(b) == Max({job.known} \cup {Latest(revs, s).asOf : s \in DOMAIN inputs(b)})
           bs == {a \in job.buckets : SlotsOf(a) \cap SlotsIn(revs) # {}}
           made(b) == [bucket |-> b, covered |-> job.cov, through |-> job.through,
                       event |-> job.event, known |-> known(b),
                       result |-> Aggregate(b, inputs(b), job.cov)]
<1>1. PICK b : b = row.bucket
  OBVIOUS
<1>2. b \in job.buckets /\ row.result = Aggregate(b, inputs(b), job.cov)
  <2>1. RowsOfJob(job) = {made(a) : a \in bs}
    BY DEF RowsOfJob
  <2>2. PICK a \in bs : row = made(a)
    BY <2>1
  <2>3. made(a).bucket = a /\ made(a).result = Aggregate(a, inputs(a), job.cov)
    OBVIOUS
  <2>4. a \in job.buckets
    OBVIOUS
  <2> HIDE DEF made, inputs, bs
  <2> QED BY <1>1, <2>2, <2>3, <2>4
<1>3. SUFFICES ASSUME Covers(job.through, job.event, revisions, events, b)
               PROVE  row.result = Current(b, candles, coverage)
  BY <1>1 DEF RowCurrent
<1>4. \A s \in SlotsOf(b) : job.cov[s] = coverage[s]
  BY <1>2, <1>3 DEF JobCurrent
<1>5. PICK part : part = revs
  OBVIOUS
<1>6. part \subseteq revisions
      /\ \A r \in revisions : r.slot \in SlotsOf(b) => r \in part
  BY <1>3, <1>5 DEF Covers, SlotsOf
<1>7. ASSUME NEW s \in SlotsOf(b), candles[s] # Nothing
      PROVE  s \in SlotsIn(part) /\ Latest(part, s).content = candles[s].content
  <2>1. PICK r \in revisions : r.slot = s /\ Newest(r, revisions) /\ r.content = candles[s].content
    BY <1>7 DEF Holding, SlotsOf
  <2>2. r \in part
    BY <1>6, <2>1
  <2>3. Latest(part, r.slot) = r
    BY <1>6, <2>1, <2>2, NewestIsLatest
  <2> QED BY <2>1, <2>2, <2>3 DEF SlotsIn
<1>8. \A s \in SlotsOf(b) : s \in SlotsIn(part) => candles[s] # Nothing
  BY <1>6 DEF SlotsIn, Holding
<1>9. inputs(b) = InputsOf(b, candles)
  <2>1. {t \in SlotsOf(b) : candles[t] # Nothing} = SlotsOf(b) \cap SlotsIn(part)
    BY <1>7, <1>8
  <2>2. \A s \in SlotsOf(b) \cap SlotsIn(part) : Latest(part, s).content = candles[s].content
    BY <1>7, <1>8
  <2>3. InputsOf(b, candles) = [s \in SlotsOf(b) \cap SlotsIn(part) |->
                                   <<Latest(part, s).content, Latest(part, s).content>>]
    BY <2>1, <2>2 DEF InputsOf
  <2> QED BY <1>5, <2>3
<1>10. PICK ins : ins = inputs(b)
  OBVIOUS
<1>11. Aggregate(b, ins, job.cov) = Aggregate(b, ins, coverage)
  <2>1. PICK jc : jc = job.cov
    OBVIOUS
  <2>2. \A s \in SlotsOf(b) : jc[s] = coverage[s]
    BY <1>4, <2>1
  <2> QED BY <2>1, <2>2, AggregateOfBucket
<1> HIDE DEF inputs
<1> QED BY <1>2, <1>9, <1>10, <1>11 DEF Current

(* So have those of a full aggregation whose reading is what there is. *)
LEMMA ReadRowsCurrent ==
    ASSUME NEW x, x.pc = "materializing", ReadsNow(x, candles, coverage),
           NEW row \in RowsOfRead(x.read, x.cov)
    PROVE  row.result = Current(row.bucket, candles, coverage)
<1> DEFINE inputs(b) == [s \in SlotsOf(b) \cap DOMAIN x.read |->
                            <<x.read[s].content, x.read[s].revision.content>>]
           through(b) == Max({x.read[s].revision.id : s \in DOMAIN inputs(b)})
           ceiling(b) == QualityCeiling(events, SlotsOf(b))
           known(b) == Max({x.read[s].revision.asOf : s \in DOMAIN inputs(b)}
                           \cup {IF ceiling(b) = 0 THEN 0 ELSE events[ceiling(b)].at})
           bs == {Bucket(s) : s \in DOMAIN x.read}
           made(b) == [bucket |-> b, covered |-> Restrict(coverage, SlotsOf(b)),
                       through |-> through(b), event |-> ceiling(b), known |-> known(b),
                       result |-> Aggregate(b, inputs(b), x.cov)]
<1>1. PICK b : b = row.bucket
  OBVIOUS
<1>2. row.result = Aggregate(b, inputs(b), x.cov)
  <2>1. RowsOfRead(x.read, x.cov) = {made(a) : a \in bs}
    BY DEF RowsOfRead
  <2>2. PICK a \in bs : row = made(a)
    BY <2>1
  <2>3. made(a).bucket = a /\ made(a).result = Aggregate(a, inputs(a), x.cov)
    OBVIOUS
  <2> HIDE DEF made, inputs, bs
  <2> QED BY <1>1, <2>2, <2>3
<1>3. inputs(b) = InputsOf(b, candles)
  <2>1. {t \in SlotsOf(b) : candles[t] # Nothing} = SlotsOf(b) \cap DOMAIN x.read
    BY DEF ReadsNow, SlotsOf
  <2>2. \A s \in SlotsOf(b) \cap DOMAIN x.read :
            x.read[s].content = candles[s].content /\ x.read[s].revision.content = candles[s].content
    BY DEF ReadsNow
  <2> QED BY <2>1, <2>2 DEF InputsOf
<1>4. x.cov = coverage
  BY DEF ReadsNow
<1> HIDE DEF inputs
<1> QED BY <1>1, <1>2, <1>3, <1>4 DEF Current

(* Steps of the queue and of the aggregators that write no row. *)
LEMMA ReadersMove ==
    ASSUME NEW ag, ag = [v \in Aggregators |-> ag[v]], NEW cd, NEW cv, ReadersNow(ag, cd, cv),
           NEW w, NEW r, ReadsNow(r, cd, cv), NEW nag, nag = [ag EXCEPT ![w] = r]
    PROVE  ReadersNow(nag, cd, cv)
<1>1. \A v \in Aggregators : nag[v] = r \/ nag[v] = ag[v]
  OBVIOUS
<1> QED BY <1>1 DEF ReadersNow

\* An aggregator's next place, its reading that of the store.
Places(nag, ag, cd, cv) ==
    nag = ag \/ \E w, r : nag = [ag EXCEPT ![w] = r] /\ ReadsNow(r, cd, cv)

LEMMA QuietStep ==
    ASSUME FrontierInv, ValueInv, raced' = raced, UNCHANGED <<tx, source, rollups>>,
           JobsTouched(jobs', jobs), ~raced => Places(aggregator', aggregator, candles, coverage)
    PROVE  ValueInv'
<1>1. /\ candles' = candles /\ revisions' = revisions /\ nextRev' = nextRev
      /\ coverage' = coverage /\ events' = events /\ rollups' = rollups /\ tx' = tx
  BY DEF source
<1>2. raced' \in BOOLEAN
  BY DEF ValueInv
<1>3. SUFFICES ASSUME ~raced PROVE ValuesHold'
  BY <1>2 DEF ValueInv
<1>4. ValuesHold
  BY <1>3 DEF ValueInv
<1>5. PICK njs, nag : njs = jobs' /\ nag = aggregator'
  OBVIOUS
<1>6. JobsCurrent(njs, revisions, events, coverage)
  <2> SUFFICES ASSUME NEW j \in DOMAIN njs PROVE JobCurrent(njs[j], revisions, events, coverage)
    BY DEF JobsCurrent
  <2>1. j \in DOMAIN jobs /\ JobCurrent(jobs[j], revisions, events, coverage)
    BY <1>4, <1>5 DEF JobsTouched, ValuesHold, JobsCurrent
  <2>2. njs[j] = jobs[j] \/ SameJob(jobs[j], njs[j])
    BY <1>5, <2>1 DEF JobsTouched
  <2> QED BY <2>1, <2>2 DEF JobCurrent, SameJob
<1>7. ReadersNow(nag, candles, coverage)
  <2>1. aggregator = [v \in Aggregators |-> aggregator[v]]
    BY DEF FrontierInv, AggregatorsOK
  <2>2. ReadersNow(aggregator, candles, coverage)
    BY <1>4 DEF ValuesHold
  <2> QED BY <1>3, <1>5, <2>1, <2>2, ReadersMove DEF Places
<1> QED BY <1>1, <1>4, <1>5, <1>6, <1>7 DEF ValuesHold

LEMMA RestReadsNothing ==
    ASSUME NEW r, r.pc # "materializing", NEW cd, NEW cv
    PROVE  ReadsNow(r, cd, cv)
BY DEF ReadsNow

LEMMA IdleReadsNothing == \A cd, cv : ReadsNow(IdleWorker, cd, cv)
BY DEF IdleWorker, ReadsNow

LEMMA JobReadsNothing ==
    ASSUME NEW j, NEW cd, NEW cv
    PROVE  ReadsNow([IdleWorker EXCEPT !.pc = "job", !.job = j], cd, cv)
<1>1. PICK e : e = <<>>
  OBVIOUS
<1>2. PICK x : x = [IdleWorker EXCEPT !.pc = "job", !.job = j]
  OBVIOUS
<1>3. x = [pc |-> "job", job |-> j, read |-> e, cov |-> e]
  BY <1>1, <1>2 DEF IdleWorker
<1> QED BY <1>2, <1>3 DEF ReadsNow

LEMMA QueueStepsValue ==
    ASSUME FrontierInv, ValueInv, NEW w \in Aggregators,
           \/ ClaimNextJob(w)
           \/ \E j \in DOMAIN jobs : ClaimJob(w, j)
           \/ FailJob(w)
    PROVE  ValueInv'
<1>1. JobsTouched(jobs', jobs)
  BY ClaimNextJobKeeps, ClaimJobKeeps, FailJobKeeps
<1>2. raced' = raced /\ UNCHANGED <<tx, source, rollups>>
  BY DEF ClaimNextJob, ClaimJob, FailJob
<1>3. PICK nag : nag = aggregator'
  OBVIOUS
<1>4. Places(nag, aggregator, candles, coverage)
  <2>1. \/ nag = aggregator
        \/ nag = [aggregator EXCEPT ![w] = IdleWorker]
        \/ \E j \in DOMAIN jobs : nag = [aggregator EXCEPT ![w] = [IdleWorker EXCEPT !.pc = "job", !.job = j]]
    BY <1>3 DEF ClaimNextJob, ClaimJob, FailJob
  <2>2. CASE nag = [aggregator EXCEPT ![w] = IdleWorker]
    BY <2>2, IdleReadsNothing DEF Places
  <2>3. ASSUME NEW j \in DOMAIN jobs, nag = [aggregator EXCEPT ![w] = [IdleWorker EXCEPT !.pc = "job", !.job = j]]
        PROVE  Places(nag, aggregator, candles, coverage)
    <3>1. PICK r : r = [IdleWorker EXCEPT !.pc = "job", !.job = j]
      OBVIOUS
    <3>2. ReadsNow(r, candles, coverage)
      BY <3>1, JobReadsNothing
    <3> QED BY <2>3, <3>1, <3>2 DEF Places
  <2> QED BY <2>1, <2>2, <2>3 DEF Places
<1> QED BY <1>1, <1>2, <1>3, <1>4, QuietStep

LEMMA JobStepsValue ==
    ASSUME FrontierInv, ValueInv, NEW j \in DOMAIN jobs, Elapse(j) \/ SafeRestart(j)
    PROVE  ValueInv'
<1>1. JobsTouched(jobs', jobs)
  BY ElapseKeeps, SafeRestartKeeps
<1>2. raced' = raced /\ UNCHANGED <<tx, source, rollups>> /\ aggregator' = aggregator
  BY DEF Elapse, SafeRestart
<1>3. PICK nag : nag = aggregator'
  OBVIOUS
<1>4. Places(nag, aggregator, candles, coverage)
  BY <1>2, <1>3 DEF Places
<1> QED BY <1>1, <1>2, <1>3, <1>4, QuietStep

LEMMA AggregatorStepsValue ==
    ASSUME FrontierInv, ValueInv, NEW w \in Aggregators,
           Schedule(w) \/ MaterializeFails(w) \/ LoseWorker(w)
    PROVE  ValueInv'
<1>1. JobsTouched(jobs, jobs)
  BY DEF JobsTouched, FrontierInv, JobsOK, Sequence
<1>2. raced' = raced /\ jobs' = jobs /\ UNCHANGED <<tx, source, rollups>>
  BY DEF Schedule, MaterializeFails, LoseWorker
<1>3. PICK nag : nag = aggregator'
  OBVIOUS
<1>4. Places(nag, aggregator, candles, coverage)
  <2>1. CASE nag = [aggregator EXCEPT ![w] = IdleWorker]
    BY <2>1, IdleReadsNothing DEF Places
  <2>2. CASE Schedule(w)
    <3>1. PICK z : z = aggregator[w]
      OBVIOUS
    <3>2. AggregatorShape(z) /\ aggregator = [v \in Aggregators |-> aggregator[v]]
      BY <3>1 DEF FrontierInv, AggregatorsOK, AggregatorOK
    <3>3. PICK r : r = [z EXCEPT !.pc = "scheduled"]
      OBVIOUS
    <3>4. r.pc = "scheduled"
      BY <3>2, <3>3 DEF AggregatorShape
    <3>5. nag = [aggregator EXCEPT ![w] = r]
      BY <1>3, <2>2, <3>1, <3>2, <3>3 DEF Schedule
    <3>6. ReadsNow(r, candles, coverage)
      BY <3>4, RestReadsNothing
    <3> QED BY <3>5, <3>6 DEF Places
  <2> QED BY <1>3, <2>1, <2>2 DEF MaterializeFails, LoseWorker
<1> QED BY <1>1, <1>2, <1>3, <1>4, QuietStep

LEMMA ClaimAggregationValue ==
    ASSUME FrontierInv, ValueInv, NEW w \in Aggregators, ClaimAggregation(w)
    PROVE  ValueInv'
<1>1. JobsTouched(jobs, jobs)
  BY DEF JobsTouched, FrontierInv, JobsOK, Sequence
<1>2. raced' = raced /\ jobs' = jobs /\ UNCHANGED <<tx, source, rollups>>
  BY DEF ClaimAggregation
<1>3. PICK nag : nag = aggregator'
  OBVIOUS
<1>4. ASSUME ~raced PROVE Places(nag, aggregator, candles, coverage)
  <2>1. CASE nag = [aggregator EXCEPT ![w] = IdleWorker]
    BY <2>1, IdleReadsNothing DEF Places
  <2>2. CASE ~(nag = [aggregator EXCEPT ![w] = IdleWorker])
    <3>1. PICK a \in DOMAIN agg : aggregator' = [aggregator EXCEPT ![w] =
                   [pc |-> "materializing", job |-> a, cov |-> coverage,
                    read |-> [s \in {t \in Minutes : candles[t] # Nothing} |->
                                 [content |-> candles[s].content,
                                  revision |-> Latest(revisions, s)]]]]
      BY <1>3, <2>2 DEF ClaimAggregation
    <3>2. PICK read : read = [s \in {t \in Minutes : candles[t] # Nothing} |->
                                 [content |-> candles[s].content,
                                  revision |-> Latest(revisions, s)]]
      OBVIOUS
    <3>3. /\ DOMAIN read = {t \in Minutes : candles[t] # Nothing}
          /\ \A s \in DOMAIN read : /\ read[s].content = candles[s].content
                                    /\ read[s].revision = Latest(revisions, s)
      BY <3>2
    <3>4. RevisionsOK(revisions) /\ Holding(candles, revisions)
      BY <1>4 DEF FrontierInv, ValueInv, ValuesHold, StoreNow
    <3>5. ASSUME NEW s \in DOMAIN read PROVE read[s].revision.content = candles[s].content
      <4>1. PICK r \in revisions : r.slot = s /\ Newest(r, revisions) /\ r.content = candles[s].content
        BY <3>3, <3>4 DEF Holding
      <4>2. Latest(revisions, r.slot) = r
        BY <3>4, <4>1, NewestIsLatest
      <4> QED BY <3>3, <4>1, <4>2
    <3>6. PICK r : r = [pc |-> "materializing", job |-> a, cov |-> coverage, read |-> read]
      OBVIOUS
    <3>7. ReadsNow(r, candles, coverage)
      BY <3>3, <3>5, <3>6 DEF ReadsNow
    <3>8. nag = [aggregator EXCEPT ![w] = r]
      BY <1>3, <3>1, <3>2, <3>6
    <3> QED BY <3>7, <3>8 DEF Places
  <2> QED BY <2>1, <2>2
<1> QED BY <1>1, <1>2, <1>3, <1>4, QuietStep

(* Steps that write rows. *)
LEMMA RowsStay ==
    ASSUME NEW rl, NEW rv, NEW ev, NEW cd, NEW cv, RowsCurrent(rl, rv, ev, cd, cv),
           NEW rows, \A row \in rows : RowCurrent(row, rv, ev, cd, cv),
           NEW nrl, Written(nrl, rl, rows)
    PROVE  RowsCurrent(nrl, rv, ev, cd, cv)
BY DEF RowsCurrent, Written

LEMMA RunJobValue ==
    ASSUME FrontierInv, ValueInv, NEW w \in Aggregators, RunJob(w)
    PROVE  ValueInv'
<1>1. /\ candles' = candles /\ revisions' = revisions /\ nextRev' = nextRev /\ tx' = tx
      /\ coverage' = coverage /\ events' = events /\ raced' = raced
  BY DEF RunJob, source
<1>2. SUFFICES ASSUME ~raced PROVE ValuesHold'
  BY <1>1 DEF ValueInv
<1>3. /\ ValuesHold /\ RevisionsOK(revisions) /\ JobsOK(jobs, revisions, events)
      /\ AggregatorsOK(aggregator, jobs, revisions) /\ RowsOK(rollups, revisions, events)
      /\ StoreOK(candles, coverage, revisions)
  BY <1>2 DEF ValueInv, FrontierInv
<1>4. PICK j : j = aggregator[w].job
  OBVIOUS
<1>5. j \in DOMAIN jobs
  BY <1>3, <1>4 DEF RunJob, AggregatorsOK, AggregatorOK
<1>6. PICK z : z = jobs[j]
  OBVIOUS
<1>7. /\ JobShape(z) /\ z.buckets \subseteq Buckets /\ z.known \in Nat /\ z.status # "succeeded"
      /\ JobCurrent(z, revisions, events, coverage)
  BY <1>3, <1>4, <1>5, <1>6 DEF JobsOK, JobOK, FrontierOK, RunJob, Holds, ValuesHold, JobsCurrent
<1>8. PICK rows : rows = RowsOfJob(z)
  OBVIOUS
<1>9. RowSet(rows) /\ \A row \in rows : row.through = z.through /\ row.event = z.event
  BY <1>3, <1>7, <1>8, RowsOfJobAre
<1>10. Holding(candles, revisions)
  BY <1>3 DEF ValuesHold, StoreNow
<1>11. \A row \in rows : RowCurrent(row, revisions, events, candles, coverage)
  BY <1>3, <1>7, <1>8, <1>9, <1>10, JobRowsCurrent
<1>12. PICK nrl : nrl = rollups'
  OBVIOUS
<1>13. Written(nrl, rollups, rows)
  <2>1. nrl = Inserted(rows)
    BY <1>4, <1>6, <1>8, <1>12 DEF RunJob
  <2> QED BY <1>3, <1>9, <2>1, InsertedRows DEF RowsOK, Sequence
<1>14. RowsCurrent(nrl, revisions, events, candles, coverage)
  BY <1>3, <1>11, <1>13, RowsStay DEF ValuesHold
<1>15. PICK x : x = [z EXCEPT !.status = "succeeded", !.owner = Nothing]
  OBVIOUS
<1>16. x.status = "succeeded"
  BY <1>7, <1>15 DEF JobShape
<1>17. PICK njs : njs = jobs'
  OBVIOUS
<1>18. njs = [jobs EXCEPT ![j] = x]
  <2>1. jobs' = [jobs EXCEPT ![j].status = "succeeded", ![j].owner = Nothing]
    BY <1>4 DEF RunJob
  <2>2. jobs = [i \in DOMAIN jobs |-> jobs[i]]
    BY <1>3 DEF JobsOK
  <2> QED BY <1>5, <1>6, <1>7, <1>15, <1>17, <2>1, <2>2 DEF JobShape
<1>19. JobsCurrent(njs, revisions, events, coverage)
  BY <1>3, <1>16, <1>18 DEF JobsCurrent, JobCurrent, ValuesHold
<1>20. PICK nag : nag = aggregator'
  OBVIOUS
<1>21. ReadersNow(nag, candles, coverage)
  <2>1. PICK r : r = IdleWorker
    OBVIOUS
  <2>2. nag = [aggregator EXCEPT ![w] = r] /\ ReadsNow(r, candles, coverage)
    BY <1>20, <2>1, IdleReadsNothing DEF RunJob
  <2>3. aggregator = [v \in Aggregators |-> aggregator[v]] /\ ReadersNow(aggregator, candles, coverage)
    BY <1>3 DEF AggregatorsOK, ValuesHold
  <2> QED BY <2>2, <2>3, ReadersMove
<1> QED BY <1>1, <1>3, <1>12, <1>14, <1>17, <1>19, <1>20, <1>21 DEF ValuesHold

LEMMA MaterializeValue ==
    ASSUME FrontierInv, ValueInv, NEW w \in Aggregators, Materialize(w)
    PROVE  ValueInv'
<1>1. /\ candles' = candles /\ revisions' = revisions /\ nextRev' = nextRev /\ tx' = tx
      /\ coverage' = coverage /\ events' = events /\ raced' = raced /\ jobs' = jobs
  BY DEF Materialize, source
<1>2. SUFFICES ASSUME ~raced PROVE ValuesHold'
  BY <1>1 DEF ValueInv
<1>3. /\ ValuesHold /\ RevisionsOK(revisions) /\ EventsOK(events)
      /\ AggregatorsOK(aggregator, jobs, revisions) /\ RowsOK(rollups, revisions, events)
  BY <1>2 DEF ValueInv, FrontierInv
<1>4. PICK x : x = aggregator[w]
  OBVIOUS
<1>5. x.pc = "materializing" /\ ReadOK(x.read, revisions) /\ ReadsNow(x, candles, coverage)
  BY <1>3, <1>4 DEF Materialize, AggregatorsOK, AggregatorOK, ValuesHold, ReadersNow
<1>6. PICK read, cov : read = x.read /\ cov = x.cov
  OBVIOUS
<1>7. PICK rows : rows = RowsOfRead(read, cov)
  OBVIOUS
<1>8. RowSet(rows)
  BY <1>3, <1>5, <1>6, <1>7, RowsOfReadAre
<1>9. \A row \in rows : RowCurrent(row, revisions, events, candles, coverage)
  BY <1>5, <1>6, <1>7, ReadRowsCurrent DEF RowCurrent
<1>10. PICK nrl : nrl = rollups'
  OBVIOUS
<1>11. Written(nrl, rollups, rows)
  <2>1. nrl = Inserted(rows)
    BY <1>4, <1>6, <1>7, <1>10 DEF Materialize
  <2> QED BY <1>3, <1>8, <2>1, InsertedRows DEF RowsOK, Sequence
<1>12. RowsCurrent(nrl, revisions, events, candles, coverage)
  BY <1>3, <1>9, <1>11, RowsStay DEF ValuesHold
<1>13. PICK nag : nag = aggregator'
  OBVIOUS
<1>14. ReadersNow(nag, candles, coverage)
  <2>1. PICK r : r = IdleWorker
    OBVIOUS
  <2>2. nag = [aggregator EXCEPT ![w] = r] /\ ReadsNow(r, candles, coverage)
    BY <1>13, <2>1, IdleReadsNothing DEF Materialize
  <2>3. aggregator = [v \in Aggregators |-> aggregator[v]] /\ ReadersNow(aggregator, candles, coverage)
    BY <1>3 DEF AggregatorsOK, ValuesHold
  <2> QED BY <2>2, <2>3, ReadersMove
<1> QED BY <1>1, <1>3, <1>10, <1>12, <1>13, <1>14 DEF ValuesHold

(* Collectors before they commit. *)
LEMMA WritersMove ==
    ASSUME NEW xs, xs = [c \in Collectors |-> xs[c]], NEW cd, NEW rv, NEW nr, WritersKnow(xs, cd, rv, nr),
           NEW c \in Collectors, NEW x, NEW next,
           Writing(x, cd, rv, next), \A d \in Collectors \ {c} : Writing(xs[d], cd, rv, next),
           x.pc = "written" => \A d \in Collectors \ {c} : xs[d].pc # "written",
           NEW nxs, nxs = [xs EXCEPT ![c] = x]
    PROVE  WritersKnow(nxs, cd, rv, next)
<1>1. nxs[c] = x /\ \A d \in Collectors : d # c => nxs[d] = xs[d]
  OBVIOUS
<1>2. OneWriter(nxs)
  BY <1>1 DEF OneWriter, WritersKnow
<1>3. \A d \in Collectors : Writing(nxs[d], cd, rv, next)
  BY <1>1
<1> QED BY <1>2, <1>3 DEF WritersKnow

LEMMA FetchValue ==
    ASSUME FrontierInv, ValueInv, NEW c \in Collectors, Fetch(c) \/ Rollback(c)
    PROVE  ValueInv'
<1>1. /\ candles' = candles /\ revisions' = revisions /\ nextRev' = nextRev /\ jobs' = jobs
      /\ coverage' = coverage /\ events' = events /\ raced' = raced /\ rollups' = rollups
      /\ aggregator' = aggregator
  BY DEF Fetch, Rollback, source
<1>2. SUFFICES ASSUME ~raced PROVE ValuesHold'
  BY <1>1 DEF ValueInv
<1>3. ValuesHold /\ tx = [d \in Collectors |-> tx[d]]
  BY <1>2 DEF ValueInv, FrontierInv, TransactionsOK
<1>4. PICK x : /\ tx' = [tx EXCEPT ![c] = x] /\ x.pc # "written"
               /\ Writing(x, candles, revisions, nextRev)
  <2>1. CASE Rollback(c)
    <3>1. PICK x : x = IdleTx
      OBVIOUS
    <3>2. x.pc = "idle"
      BY <3>1 DEF IdleTx
    <3>3. Writing(x, candles, revisions, nextRev)
      BY <3>2 DEF Writing
    <3> QED BY <2>1, <3>1, <3>2, <3>3 DEF Rollback
  <2>2. CASE Fetch(c)
    <3>1. PICK page \in Pages : \E values \in [page -> Contents] :
             tx' = [tx EXCEPT ![c] = [pc |-> "fetched", page |-> values,
                                      asOf |-> clock + 1, created |-> {}]]
      BY <2>2 DEF Fetch
    <3>2. PICK values \in [page -> Contents] :
             tx' = [tx EXCEPT ![c] = [pc |-> "fetched", page |-> values,
                                      asOf |-> clock + 1, created |-> {}]]
      BY <3>1
    <3>3. PICK x : x = [pc |-> "fetched", page |-> values, asOf |-> clock + 1, created |-> {}]
      OBVIOUS
    <3>4. Writing(x, candles, revisions, nextRev)
      BY <3>3 DEF Writing
    <3>5. x.pc # "written" /\ tx' = [tx EXCEPT ![c] = x]
      BY <3>2, <3>3
    <3> QED BY <3>4, <3>5
  <2> QED BY <2>1, <2>2
<1>5. PICK nxs : nxs = tx'
  OBVIOUS
<1>6. WritersKnow(nxs, candles, revisions, nextRev)
  BY <1>3, <1>4, <1>5, WritersMove DEF ValuesHold, WritersKnow
<1> QED BY <1>1, <1>3, <1>5, <1>6 DEF ValuesHold

(* Fewer stand before one of them than there are. *)
LEMMA FewerBefore ==
    ASSUME NEW T, T \subseteq Nat, IsFiniteSet(T), NEW s \in T
    PROVE  Cardinality({d \in T : d < s}) \in Nat /\ Cardinality({d \in T : d < s}) < Cardinality(T)
<1>1. PICK D : D = {d \in T : d < s}
  OBVIOUS
<1>2. IsFiniteSet(D) /\ Cardinality(D) <= Cardinality(T) /\ (Cardinality(T) = Cardinality(D) => T = D)
  BY <1>1, FS_Subset
<1>3. s \notin D
  BY <1>1
<1>4. Cardinality(D) \in Nat /\ Cardinality(T) \in Nat
  BY <1>2, FS_CardinalityType
<1> QED BY <1>1, <1>2, <1>3, <1>4

LEMMA UpsertCandlesValue ==
    ASSUME FrontierInv, ValueInv, NEW c \in Collectors, UpsertCandles(c)
    PROVE  ValueInv'
<1> DEFINE page == DOMAIN tx[c].page
           due == {s \in page : RevisionDue(c, s)}
           Revision(s) ==
               [id |-> nextRev + Cardinality({d \in due : d < s}),
                slot |-> s, content |-> tx[c].page[s], asOf |-> tx[c].asOf,
                number |-> Cardinality({r \in revisions : r.slot = s}) + 1]
           met == \/ \E d \in Collectors \ {c} : tx[d].pc = "written"
                  \/ \E s \in page : candles[s] # Nothing /\ candles[s].asOf > tx[c].asOf
<1>1. /\ candles' = candles /\ revisions' = revisions /\ jobs' = jobs
      /\ coverage' = coverage /\ events' = events /\ rollups' = rollups
      /\ aggregator' = aggregator
  BY DEF UpsertCandles
<1>2. raced' = (raced \/ met) /\ raced \in BOOLEAN
  BY DEF UpsertCandles, ValueInv
<1>3. raced' \in BOOLEAN
  <2> HIDE DEF met
  <2> QED BY <1>2
<1>4. SUFFICES ASSUME ~raced' PROVE ValuesHold'
  BY <1>3 DEF ValueInv
<1>5. ~raced /\ ~met
  <2> HIDE DEF met
  <2> QED BY <1>2, <1>4
<1>6. ValuesHold /\ RevisionsOK(revisions) /\ nextRev \in Nat /\ TransactionsOK(tx, revisions)
  BY <1>5 DEF ValueInv, FrontierInv
<1>7. PICK z : z = tx[c]
  OBVIOUS
<1>8. /\ TxOK(z, revisions) /\ z.pc = "fetched" /\ tx = [d \in Collectors |-> tx[d]]
      /\ Writing(z, candles, revisions, nextRev)
  BY <1>6, <1>7 DEF TransactionsOK, UpsertCandles, ValuesHold, WritersKnow
<1>9. page \subseteq Minutes /\ z.asOf \in Nat /\ TxShape(z)
  BY <1>7, <1>8 DEF TxOK
<1>10. PICK T : T = due
  OBVIOUS
<1>11. IsFiniteSet(T) /\ T \subseteq Minutes /\ T \subseteq Nat /\ T \subseteq page
  <2>1. T \subseteq Minutes /\ T \subseteq page
    BY <1>9, <1>10
  <2>2. IsFiniteSet(T)
    BY <2>1, FS_Subset, MinutesAndBuckets
  <2> QED BY <2>1, <2>2 DEF Minutes
<1>12. nextRev' = nextRev + Cardinality(T)
  BY <1>10 DEF UpsertCandles
<1>13. PICK next : next = nextRev'
  OBVIOUS
<1>14. next \in Nat /\ next >= nextRev
  BY <1>6, <1>11, <1>12, <1>13, FS_CardinalityType
<1>15. PICK cr : cr = {Revision(s) : s \in T}
  OBVIOUS
<1>16. PICK x : x = [z EXCEPT !.pc = "written", !.created = cr]
  OBVIOUS
<1>17. x.pc = "written" /\ x.created = cr /\ x.page = z.page /\ x.asOf = z.asOf
  BY <1>9, <1>16 DEF TxShape
<1>18. tx' = [tx EXCEPT ![c] = x]
  <2>1. tx' = [tx EXCEPT ![c].pc = "written", ![c].created = {Revision(s) : s \in due}]
    BY DEF UpsertCandles
  <2> HIDE DEF due, Revision
  <2> QED BY <1>7, <1>8, <1>9, <1>10, <1>15, <1>16, <2>1 DEF TxShape
<1>19. \A r \in revisions : r.id \in Nat /\ r.id < nextRev
  BY <1>6 DEF ValuesHold, StoreNow, RevisionsOK
<1>20. ASSUME NEW q \in cr PROVE NewRevision(q, x, revisions) /\ q.id < next /\ q = Revision(q.slot) /\ q.slot \in T
  <2>1. PICK s \in T : q = Revision(s)
    BY <1>15
  <2>2. PICK k : k = Cardinality({d \in T : d < s})
    OBVIOUS
  <2>3. k \in Nat /\ k < Cardinality(T) /\ Cardinality(T) \in Nat
    BY <1>11, <2>2, FewerBefore, FS_CardinalityType
  <2>4. q = [id |-> nextRev + k, slot |-> s, content |-> z.page[s], asOf |-> z.asOf,
             number |-> Cardinality({r \in revisions : r.slot = s}) + 1]
    BY <1>7, <1>10, <2>1, <2>2
  <2>5. q.slot = s /\ q.id = nextRev + k /\ q.content = z.page[s] /\ q.asOf = z.asOf
        /\ q.number = Cardinality({r \in revisions : r.slot = q.slot}) + 1
    BY <2>4
  <2>6. q.id < next /\ \A r \in revisions : r.id < q.id
    <3> HIDE DEF due, Revision
    <3> QED BY <1>6, <1>12, <1>13, <1>19, <2>3, <2>5
  <2> HIDE DEF Revision, due
  <2> QED BY <1>17, <2>1, <2>5, <2>6 DEF NewRevision
<1>21. \A s \in page : candles[s] # Nothing => candles[s].asOf <= x.asOf
  BY <1>5, <1>6, <1>7, <1>9, <1>17 DEF ValuesHold, StoreNow, Holding
<1>22. SlotsIn(cr) = T
  <2>1. \A s \in T : Revision(s).slot = s /\ Revision(s) \in cr
    BY <1>15
  <2> HIDE DEF Revision, due
  <2> QED BY <1>15, <1>20, <2>1 DEF SlotsIn
<1>23. ASSUME NEW s \in page, s \notin T
       PROVE  \E r \in revisions : r.slot = s /\ Newest(r, revisions) /\ r.content = x.page[s]
  <2>1. ~RevisionDue(c, s)
    BY <1>10, <1>23
  <2>2. PICK known : known = {r \in revisions : r.slot = s}
    OBVIOUS
  <2>3. known # {} /\ (CHOOSE r \in known : \A q \in known : r.number >= q.number).content = tx[c].page[s]
    BY <2>1, <2>2 DEF RevisionDue
  <2>4. candles[s] # Nothing
    BY <1>6, <2>2, <2>3 DEF ValuesHold, StoreNow, Holding
  <2>5. PICK r \in revisions : r.slot = s /\ Newest(r, revisions)
    BY <1>6, <1>9, <2>4 DEF ValuesHold, StoreNow, Holding
  <2>6. (CHOOSE y \in known : \A q \in known : y.number >= q.number) = r
    BY <1>6, <2>2, <2>5, NewestIsHighest
  <2>7. r.content = tx[c].page[s]
    BY <2>3, <2>6
  <2> QED BY <1>7, <1>17, <2>5, <2>7
<1>24. Writing(x, candles, revisions, next)
  <2>1. DOMAIN x.page = page
    BY <1>7, <1>17
  <2>2. \A s \in page : x.page[s] \in Contents
    BY <1>7, <1>8, <1>17 DEF Writing
  <2>3. \A q, p \in cr : q.slot = p.slot => q = p
    <3>1. \A q, p \in cr : q = Revision(q.slot) /\ p = Revision(p.slot)
      BY <1>20
    <3> HIDE DEF Revision, due
    <3> QED BY <3>1
  <2>4. \A s \in page : s \in SlotsIn(cr) \/
            \E r \in revisions : r.slot = s /\ Newest(r, revisions) /\ r.content = x.page[s]
    BY <1>22, <1>23
  <2> HIDE DEF Revision, due, page
  <2> QED BY <1>17, <1>20, <1>21, <2>1, <2>2, <2>3, <2>4 DEF Writing
<1>25. \A d \in Collectors \ {c} : tx[d].pc # "written"
  BY <1>5
<1>26. \A d \in Collectors \ {c} : Writing(tx[d], candles, revisions, next)
  BY <1>6, <1>25 DEF ValuesHold, WritersKnow, Writing
<1>27. PICK nxs : nxs = tx'
  OBVIOUS
<1>28. WritersKnow(nxs, candles, revisions, next)
  <2>1. nxs = [tx EXCEPT ![c] = x] /\ WritersKnow(tx, candles, revisions, nextRev)
    BY <1>6, <1>18, <1>27 DEF ValuesHold
  <2> HIDE DEF Revision, due, page, met
  <2> QED BY <1>8, <1>24, <1>25, <1>26, <2>1, WritersMove
<1>29. StoreNow(candles, revisions, next)
  <2>1. \A r \in revisions : r.id < next
    BY <1>6, <1>14, <1>19
  <2> QED BY <1>6, <2>1 DEF ValuesHold, StoreNow
<1> HIDE DEF Revision, due, page, met
<1> QED BY <1>1, <1>6, <1>13, <1>27, <1>28, <1>29 DEF ValuesHold

----------------------------------------------------------------------------
(* Changes and values *)

\* Where a change leaves the store as it was.
Spared(b, created, changed) ==
    changed \cap SlotsOf(b) = {} /\ \A r \in created : Bucket(r.slot) # b

(* A claim that still covers its bucket after a change was spared by it. *)
LEMMA CoversSpared ==
    ASSUME NEW rv, NEW ev, NEW created, NEW changed, NEW nrv, NEW nev,
           Changes(rv, ev, created, changed, nrv, nev),
           \A r \in rv, p \in created : r.id < p.id,
           NEW x, FrontierOK(x, rv, ev), NEW b, Covers(x.through, x.event, nrv, nev, b)
    PROVE  Covers(x.through, x.event, rv, ev, b) /\ Spared(b, created, changed)
<1>1. /\ Len(ev) \in Nat /\ Len(nev) \in Nat /\ DOMAIN ev = 1..Len(ev) /\ DOMAIN nev = 1..Len(nev)
      /\ x.event \in Nat /\ x.event <= Len(ev) /\ x.through \in Nat
  BY DEF Changes, EventsOK, FrontierOK
<1>2. changed \cap SlotsOf(b) = {}
  <2>1. CASE changed = {}
    BY <2>1
  <2>2. CASE Len(nev) = Len(ev) + 1 /\ nev[Len(nev)].slots = changed
    <3>1. Len(nev) \in DOMAIN nev /\ ~(Len(nev) <= x.event)
      BY <1>1, <2>2
    <3> QED BY <2>2, <3>1 DEF Covers
  <2> QED BY <2>1, <2>2 DEF Changes
<1>3. ASSUME NEW p \in created PROVE Bucket(p.slot) # b
  <2>1. PICK r \in rv : x.through <= r.id
    BY DEF FrontierOK
  <2>2. r.id < p.id /\ r.id \in Nat /\ p.id \in Nat /\ p \in nrv
    BY <2>1 DEF Changes, RevisionsOK
  <2>3. ~(p.id <= x.through)
    BY <1>1, <2>1, <2>2
  <2> QED BY <2>2, <2>3 DEF Covers
<1>4. Covers(x.through, x.event, rv, ev, b)
  <2>1. \A i \in DOMAIN ev : i \in DOMAIN nev /\ nev[i] = ev[i]
    <3>1. CASE nev = ev
      BY <3>1
    <3>2. CASE Len(nev) = Len(ev) + 1 /\ \A i \in DOMAIN ev : nev[i] = ev[i]
      BY <1>1, <3>2
    <3> QED BY <3>1, <3>2 DEF Changes
  <2> QED BY <2>1 DEF Covers, Changes
<1> QED BY <1>2, <1>3, <1>4 DEF Spared

LEMMA ChangeKeepsCurrent ==
    ASSUME NEW rv, NEW ev, NEW created, NEW changed, NEW nrv, NEW nev,
           Changes(rv, ev, created, changed, nrv, nev),
           \A r \in rv, p \in created : r.id < p.id,
           NEW js, JobsOK(js, rv, ev), NEW rl, RowsOK(rl, rv, ev),
           NEW cd, NEW cv, NEW nd, NEW nv,
           JobsCurrent(js, rv, ev, cv), RowsCurrent(rl, rv, ev, cd, cv),
           NEW q, Frozen(q, nv), NEW s, Frozen(s, nv), NEW njs, Added(njs, js, q, s),
           \A b : Spared(b, created, changed) => SameStore(b, cd, cv, nd, nv)
    PROVE  JobsCurrent(njs, nrv, nev, nv) /\ RowsCurrent(rl, nrv, nev, nd, nv)
<1>1. ASSUME NEW i \in DOMAIN js PROVE JobCurrent(js[i], nrv, nev, nv)
  <2>1. PICK x : x = js[i]
    OBVIOUS
  <2>2. FrontierOK(x, rv, ev) /\ JobCurrent(x, rv, ev, cv)
    BY <2>1 DEF JobsOK, JobOK, JobsCurrent
  <2>3. ASSUME x.status # "succeeded", NEW b \in x.buckets, Covers(x.through, x.event, nrv, nev, b),
               NEW m \in SlotsOf(b)
        PROVE  x.cov[m] = nv[m]
    <3>1. Covers(x.through, x.event, rv, ev, b) /\ Spared(b, created, changed)
      BY <2>2, <2>3, CoversSpared
    <3>2. x.cov[m] = cv[m]
      BY <2>2, <2>3, <3>1 DEF JobCurrent
    <3>3. cv[m] = nv[m]
      BY <3>1 DEF SameStore
    <3> QED BY <3>2, <3>3
  <2>4. JobCurrent(x, nrv, nev, nv)
    BY <2>3 DEF JobCurrent
  <2> QED BY <2>1, <2>4
<1>2. \A n \in DOMAIN q : JobCurrent(q[n], nrv, nev, nv)
  BY DEF Frozen, JobCurrent
<1>3. \A n \in DOMAIN s : JobCurrent(s[n], nrv, nev, nv)
  BY DEF Frozen, JobCurrent
<1>4. JobsCurrent(njs, nrv, nev, nv)
  BY <1>1, <1>2, <1>3 DEF Added, JobsCurrent
<1>5. ASSUME NEW i \in DOMAIN rl PROVE RowCurrent(rl[i], nrv, nev, nd, nv)
  <2>1. PICK x : x = rl[i]
    OBVIOUS
  <2>2. FrontierOK(x, rv, ev) /\ RowCurrent(x, rv, ev, cd, cv)
    BY <2>1 DEF RowsOK, RowsCurrent
  <2>3. PICK b : b = x.bucket
    OBVIOUS
  <2>4. ASSUME Covers(x.through, x.event, nrv, nev, b) PROVE x.result = Current(b, nd, nv)
    <3>1. Covers(x.through, x.event, rv, ev, b) /\ Spared(b, created, changed)
      BY <2>2, <2>4, CoversSpared
    <3>2. x.result = Current(b, cd, cv)
      BY <2>2, <2>3, <3>1 DEF RowCurrent
    <3>3. SameStore(b, cd, cv, nd, nv)
      BY <3>1
    <3>4. Current(b, cd, cv) = Current(b, nd, nv)
      BY <3>3, SameCurrent
    <3> QED BY <3>2, <3>4
  <2> QED BY <2>1, <2>3, <2>4 DEF RowCurrent
<1> QED BY <1>4, <1>5 DEF RowsCurrent

\* After a change, while no full aggregation is reading.
ChangedTo(njs, nrv, nev, ncd, nv) ==
    /\ JobsCurrent(njs, nrv, nev, nv) /\ RowsCurrent(rollups, nrv, nev, ncd, nv)
    /\ ReadersNow(aggregator, ncd, nv)

(* Both changes go through these facts. *)
LEMMA ChangeValue ==
    ASSUME FrontierInv, ValuesHold, ~Reading, NEW created, RevisionsOK(created),
           \A r \in revisions, p \in created : r.id < p.id,
           NEW changed, NEW nrv, nrv = revisions \cup created,
           NEW nev, EventsGrow(events, nev, changed),
           NEW q, NEW s, NEW njs, Added(njs, jobs, q, s), NEW ncd, NEW nv,
           Frozen(q, nv), Frozen(s, nv),
           \A b : Spared(b, created, changed) => SameStore(b, candles, coverage, ncd, nv)
    PROVE  ChangedTo(njs, nrv, nev, ncd, nv)
<1>1. /\ RevisionsOK(revisions) /\ EventsOK(events) /\ JobsOK(jobs, revisions, events)
      /\ RowsOK(rollups, revisions, events)
  BY DEF FrontierInv
<1>2. Changes(revisions, events, created, changed, nrv, nev)
  BY <1>1 DEF Changes, EventsGrow
<1>3. JobsCurrent(jobs, revisions, events, coverage) /\ RowsCurrent(rollups, revisions, events, candles, coverage)
  BY DEF ValuesHold
<1>4. JobsCurrent(njs, nrv, nev, nv) /\ RowsCurrent(rollups, nrv, nev, ncd, nv)
  BY <1>1, <1>2, <1>3, ChangeKeepsCurrent
<1>5. ReadersNow(aggregator, ncd, nv)
  BY DEF Reading, ReadersNow, ReadsNow
<1> QED BY <1>4, <1>5 DEF ChangedTo

LEMMA RaceCounts ==
    ASSUME raced \in BOOLEAN, raced' = (raced \/ Reading)
    PROVE  raced' \in BOOLEAN /\ (~raced' => ~raced /\ ~Reading)
<1>1. PICK p : p = Reading
  OBVIOUS
<1>2. Reading \in BOOLEAN
  BY DEF Reading
<1> QED BY <1>1, <1>2

LEMMA ClassifyValue ==
    ASSUME FrontierInv, ValueInv, NEW span \in Spans, NEW status \in Verdicts, Classify(span, status)
    PROVE  ValueInv'
<1>1. raced' = (raced \/ Reading) /\ raced \in BOOLEAN
  BY DEF Classify, ValueInv
<1>2. raced' \in BOOLEAN /\ (~raced' => ~raced /\ ~Reading)
  BY <1>1, RaceCounts
<1>3. SUFFICES ASSUME ~raced' PROVE ValuesHold'
  BY <1>2 DEF ValueInv
<1>4. ~Reading /\ ValuesHold
  BY <1>2, <1>3 DEF ValueInv
<1>5. RevisionsOK(revisions) /\ EventsOK(events) /\ JobsOK(jobs, revisions, events) /\ clock \in Nat
  BY DEF FrontierInv
<1>6. PICK changed : changed = Changed(span, status)
  OBVIOUS
<1>7. PICK nev : nev = EventsAfter(changed)
  OBVIOUS
<1>8. EventsGrow(events, nev, changed)
  BY <1>5, <1>7, ChangeIsEvent
<1>9. PICK cov : cov = Reclassified(span, status)
  OBVIOUS
<1>10. PICK s, created : s = <<>> /\ created = {}
  OBVIOUS
<1>11. PICK q : q = IF revisions = {} THEN <<>> ELSE QualityJobs(changed, revisions, nev, cov)
  OBVIOUS
<1>12. Frozen(q, cov) /\ Frozen(s, cov)
  BY <1>10, <1>11, QualityJobsFreeze, NothingFrozen
<1>13. PICK njs : njs = jobs'
  OBVIOUS
<1>14. Added(njs, jobs, q, s)
  <2>1. Sequence(jobs)
    BY <1>5 DEF JobsOK, Sequence
  <2>2. Sequence(q)
    <3>1. CASE revisions = {}
      BY <1>11, <3>1, NoJobs
    <3>2. CASE revisions # {}
      <4>1. changed # {} /\ changed \subseteq Minutes
        BY <1>6, RollupAssumption DEF Classify, Changed
      <4>2. EventsOK(nev) /\ Len(nev) # 0
        BY <1>8, <4>1 DEF EventsGrow
      <4>3. QualityQueued(QualityJobs(changed, revisions, nev, cov), changed, revisions, nev)
        BY <1>5, <3>2, <4>1, <4>2, QualityJobsQueued
      <4> QED BY <1>11, <3>2, <4>3 DEF QualityQueued, Queued, Sequence
    <3> QED BY <3>1, <3>2
  <2>3. njs = jobs \o q
    BY <1>6, <1>7, <1>9, <1>11, <1>13 DEF Classify
  <2> QED BY <1>10, <2>1, <2>2, <2>3, AddedQuality
<1>15. RevisionsOK(created) /\ revisions = revisions \cup created
       /\ \A r \in revisions, p \in created : r.id < p.id
  BY <1>10, FS_EmptySet DEF RevisionsOK
<1>16. ASSUME NEW b, Spared(b, created, changed)
       PROVE  SameStore(b, candles, coverage, candles, cov)
  <2>1. \A m \in SlotsOf(b) : m \in Minutes /\ m \notin changed
    BY <1>16 DEF Spared, SlotsOf
  <2>2. \A m \in SlotsOf(b) : coverage[m] = cov[m]
    BY <1>6, <1>9, <2>1 DEF Changed, Reclassified
  <2> QED BY <2>2 DEF SameStore
<1>17. ChangedTo(njs, revisions, nev, candles, cov)
  BY <1>4, <1>8, <1>12, <1>14, <1>15, <1>16, ChangeValue
<1>18. /\ nextRev' = nextRev /\ rollups' = rollups /\ aggregator' = aggregator
       /\ tx' = tx /\ candles' = candles /\ revisions' = revisions
       /\ coverage' = cov /\ events' = nev
  BY <1>6, <1>7, <1>9 DEF Classify
<1> QED BY <1>4, <1>13, <1>17, <1>18 DEF ValuesHold, ChangedTo

\* A page is in the candles, under its response.
Stored(nd, cd, x) ==
    /\ \A m \in DOMAIN x.page : nd[m] # Nothing /\ nd[m].content = x.page[m] /\ nd[m].asOf = x.asOf
    /\ \A m \in Minutes : m \in DOMAIN x.page \/ nd[m] = cd[m]

\* A writer about to commit, and the store it knows.
Committing(x, cd, rv, next) ==
    /\ x.pc = "written" /\ TxOK(x, rv) /\ Writing(x, cd, rv, next)
    /\ RevisionsOK(rv) /\ StoreNow(cd, rv, next)

LEMMA PageIsStored ==
    ASSUME NEW x, NEW cd, NEW rv, NEW next, Committing(x, cd, rv, next), NEW nd,
           nd = [m \in Minutes |->
                    IF m \in DOMAIN x.page /\ (cd[m] = Nothing \/ x.asOf >= cd[m].asOf)
                    THEN [content |-> x.page[m], asOf |-> x.asOf] ELSE cd[m]]
    PROVE  Stored(nd, cd, x)
<1>1. x.asOf \in Nat /\ DOMAIN x.page \subseteq Minutes
  BY DEF Committing, TxOK
<1>2. ASSUME NEW m \in DOMAIN x.page
      PROVE  nd[m] # Nothing /\ nd[m].content = x.page[m] /\ nd[m].asOf = x.asOf
  <2>1. cd[m] = Nothing \/ x.asOf >= cd[m].asOf
    BY <1>1 DEF Committing, Writing, StoreNow, Holding
  <2>2. PICK v : v = [content |-> x.page[m], asOf |-> x.asOf]
    OBVIOUS
  <2>3. nd[m] = v
    BY <1>1, <2>1, <2>2
  <2>4. x.page[m] \in Contents
    BY DEF Committing, Writing
  <2>5. v \in [content : Contents, asOf : Nat]
    BY <1>1, <2>2, <2>4
  <2>6. v # Nothing
    BY <2>5, RollupAssumption
  <2> QED BY <2>2, <2>3, <2>6
<1>3. \A m \in Minutes : m \in DOMAIN x.page \/ nd[m] = cd[m]
  OBVIOUS
<1> QED BY <1>2, <1>3 DEF Stored

LEMMA NewestStays ==
    ASSUME NEW rv, NEW created, NEW r, Newest(r, rv), \A q \in created : q.slot # r.slot
    PROVE  Newest(r, rv \cup created)
BY DEF Newest

LEMMA NewestIsOne ==
    ASSUME NEW rv, RevisionsOK(rv), NEW r, Newest(r, rv), NEW q, Newest(q, rv), r.slot = q.slot
    PROVE  r = q
BY DEF RevisionsOK, Newest

(* A slot the writer made no revision for holds the content of its page. *)
LEMMA KnownContent ==
    ASSUME NEW x, NEW cd, NEW rv, NEW next, Committing(x, cd, rv, next),
           NEW s \in DOMAIN x.page, s \notin SlotsIn(x.created)
    PROVE  /\ cd[s] # Nothing /\ cd[s].content = x.page[s]
           /\ \E r \in rv : r.slot = s /\ Newest(r, rv) /\ r.content = x.page[s] /\ r.asOf <= x.asOf
<1>1. PICK r \in rv : r.slot = s /\ Newest(r, rv) /\ r.content = x.page[s]
  BY DEF Committing, Writing
<1>2. cd[s] # Nothing /\ s \in Minutes /\ x.asOf \in Nat
  BY <1>1 DEF Committing, StoreNow, Holding, TxOK
<1>3. PICK q \in rv : q.slot = s /\ Newest(q, rv) /\ q.content = cd[s].content /\ q.asOf <= cd[s].asOf
  BY <1>2 DEF Committing, StoreNow, Holding
<1>4. r = q
  BY <1>1, <1>3, NewestIsOne DEF Committing
<1>5. cd[s].asOf \in Nat /\ cd[s].asOf <= x.asOf
  BY <1>2 DEF Committing, StoreNow, Holding, Writing
<1>6. r.asOf \in Nat
  BY <1>1 DEF Committing, RevisionsOK
<1> QED BY <1>1, <1>2, <1>3, <1>4, <1>5, <1>6

(* A slot the writer made a revision for: that one is the newest. *)
LEMMA CreatedIsNewest ==
    ASSUME NEW x, NEW cd, NEW rv, NEW next, Committing(x, cd, rv, next), NEW p \in x.created
    PROVE  Newest(p, rv \cup x.created)
<1> SUFFICES ASSUME NEW q \in rv, q.slot = p.slot PROVE q.number < p.number /\ q.asOf <= p.asOf
  <2>1. \A q \in x.created : q.slot = p.slot => q = p
    BY DEF Committing, Writing
  <2> QED BY <2>1 DEF Newest
<1>1. NewRevision(p, x, rv) /\ p.slot \in DOMAIN x.page /\ p.slot \in Minutes
  BY DEF Committing, Writing, TxOK, SlotsIn
<1>2. PICK n : n = Cardinality({r \in rv : r.slot = q.slot})
  OBVIOUS
<1>3. n \in Nat
  <2>1. IsFiniteSet({r \in rv : r.slot = q.slot})
    BY FS_Subset DEF Committing, RevisionsOK
  <2> QED BY <1>2, <2>1, FS_CardinalityType
<1>4. q.number <= n /\ q.number \in Nat /\ q.asOf \in Nat
  BY <1>2 DEF Committing, StoreNow, NumberedIn, RevisionsOK
<1>5. p.number = n + 1 /\ p.asOf = x.asOf /\ x.asOf \in Nat
  BY <1>1, <1>2 DEF NewRevision, Committing, TxOK
<1>6. PICK s : s = p.slot
  OBVIOUS
<1>7. cd[s] # Nothing
  BY <1>6 DEF Committing, StoreNow, Holding
<1>8. PICK r \in rv : r.slot = s /\ Newest(r, rv) /\ r.asOf <= cd[s].asOf
  BY <1>1, <1>6, <1>7 DEF Committing, StoreNow, Holding
<1>9. cd[s].asOf \in Nat /\ cd[s].asOf <= x.asOf /\ r.asOf \in Nat
  BY <1>1, <1>6, <1>7, <1>8 DEF Committing, StoreNow, Holding, Writing, RevisionsOK
<1>10. q.asOf <= r.asOf
  BY <1>4, <1>6, <1>8 DEF Newest
<1> QED BY <1>3, <1>4, <1>5, <1>8, <1>9, <1>10

LEMMA CommittedStore ==
    ASSUME NEW x, NEW cd, NEW rv, NEW next, Committing(x, cd, rv, next), NEW nd, Stored(nd, cd, x),
           NEW nrv, nrv = rv \cup x.created
    PROVE  StoreNow(nd, nrv, next)
<1>1. RevisionsOK(rv) /\ RevisionsOK(x.created) /\ x.asOf \in Nat /\ RevisionsOK(nrv)
      /\ NumberedIn(rv) /\ Holding(cd, rv)
  BY UnionOK DEF Committing, TxOK, StoreNow
<1>2. ASSUME NEW r \in nrv PROVE r.number <= Cardinality({q \in nrv : q.slot = r.slot})
  <2>1. PICK old, new : old = {q \in rv : q.slot = r.slot} /\ new = {q \in nrv : q.slot = r.slot}
    OBVIOUS
  <2>2. IsFiniteSet(rv) /\ IsFiniteSet(nrv)
    BY <1>1 DEF RevisionsOK
  <2>3. IsFiniteSet(old) /\ IsFiniteSet(new) /\ old \subseteq new
    BY <2>1, <2>2, FS_Subset
  <2>4. Cardinality(old) \in Nat /\ Cardinality(new) \in Nat /\ Cardinality(old) <= Cardinality(new)
    BY <2>3, FS_Subset, FS_CardinalityType
  <2>5. CASE r \in rv
    <3>1. r.number <= Cardinality(old) /\ r.number \in Nat
      BY <1>1, <2>1, <2>5 DEF NumberedIn, RevisionsOK
    <3> QED BY <2>1, <2>4, <3>1
  <2>6. CASE r \in x.created
    <3>1. r.number = Cardinality(old) + 1 /\ \A q \in rv : q.id < r.id
      BY <2>1, <2>6 DEF Committing, Writing, NewRevision
    <3>2. r \notin old
      BY <1>1, <2>1, <2>6, <3>1 DEF RevisionsOK
    <3>3. PICK more : more = old \cup {r}
      OBVIOUS
    <3>4. more \subseteq new
      BY <2>1, <2>3, <3>3
    <3>5. IsFiniteSet(more) /\ Cardinality(more) = Cardinality(old) + 1
      BY <2>3, <3>2, <3>3, FS_AddElement
    <3>6. Cardinality(more) <= Cardinality(new)
      BY <2>3, <3>4, FS_Subset
    <3> QED BY <2>1, <3>1, <3>5, <3>6
  <2> QED BY <2>5, <2>6
<1>3. \A r \in nrv : r.id < next
  BY DEF Committing, StoreNow, Writing
<1>4. ASSUME NEW r \in nrv PROVE nd[r.slot] # Nothing
  <2>1. r.slot \in Minutes
    BY <1>1 DEF RevisionsOK
  <2>2. r \in x.created => r.slot \in DOMAIN x.page
    BY DEF Committing, TxOK, SlotsIn
  <2>3. r \in rv => cd[r.slot] # Nothing
    BY <1>1 DEF Holding
  <2> QED BY <2>1, <2>2, <2>3 DEF Stored
<1>5. ASSUME NEW s \in Minutes, nd[s] # Nothing
      PROVE  /\ nd[s].asOf \in Nat
             /\ \E r \in nrv : /\ r.slot = s /\ Newest(r, nrv)
                               /\ r.content = nd[s].content /\ r.asOf <= nd[s].asOf
  <2>1. CASE s \in SlotsIn(x.created)
    <3>1. PICK p \in x.created : p.slot = s
      BY <2>1 DEF SlotsIn
    <3>2. Newest(p, nrv) /\ p \in nrv
      BY <3>1, CreatedIsNewest
    <3>3. p.content = x.page[s] /\ p.asOf = x.asOf /\ s \in DOMAIN x.page
      BY <3>1 DEF Committing, Writing, NewRevision, TxOK, SlotsIn
    <3>4. nd[s].content = x.page[s] /\ nd[s].asOf = x.asOf
      BY <3>3 DEF Stored
    <3>5. p.asOf <= nd[s].asOf
      BY <1>1, <3>3, <3>4
    <3> QED BY <1>1, <3>1, <3>2, <3>3, <3>4, <3>5
  <2>2. CASE s \in DOMAIN x.page /\ s \notin SlotsIn(x.created)
    <3>1. PICK r \in rv : r.slot = s /\ Newest(r, rv) /\ r.content = x.page[s] /\ r.asOf <= x.asOf
      BY <2>2, KnownContent
    <3>2. Newest(r, nrv)
      BY <2>2, <3>1, NewestStays DEF SlotsIn
    <3> QED BY <1>1, <2>2, <3>1, <3>2 DEF Stored
  <2>3. CASE s \notin DOMAIN x.page
    <3>1. nd[s] = cd[s] /\ s \notin SlotsIn(x.created)
      BY <2>3 DEF Stored, Committing, TxOK
    <3>2. PICK r \in rv : r.slot = s /\ Newest(r, rv) /\ r.content = cd[s].content /\ r.asOf <= cd[s].asOf
      BY <1>1, <1>5, <3>1 DEF Holding
    <3>3. Newest(r, nrv)
      BY <3>1, <3>2, NewestStays DEF SlotsIn
    <3> QED BY <1>1, <1>5, <3>1, <3>2, <3>3 DEF Holding
  <2> QED BY <2>1, <2>2, <2>3
<1>6. Holding(nd, nrv)
  BY <1>4, <1>5 DEF Holding
<1> QED BY <1>2, <1>3, <1>6 DEF StoreNow, NumberedIn

(* What a commit changes nothing of holds what it held. *)
LEMMA SparedStore ==
    ASSUME NEW x, NEW cd, NEW rv, NEW next, Committing(x, cd, rv, next), NEW nd, Stored(nd, cd, x),
           NEW cv, NEW nv, NEW changed,
           \A m \in DOMAIN x.page : m \in changed \/ cv[m] = nv[m],
           \A m \in Minutes : m \in DOMAIN x.page \/ cv[m] = nv[m],
           NEW b, Spared(b, x.created, changed)
    PROVE  SameStore(b, cd, cv, nd, nv)
<1> SUFFICES ASSUME NEW m \in SlotsOf(b)
             PROVE  /\ cv[m] = nv[m]
                    /\ cd[m] # Nothing <=> nd[m] # Nothing
                    /\ cd[m] # Nothing => cd[m].content = nd[m].content
  BY DEF SameStore
<1>1. m \in Minutes /\ Bucket(m) = b /\ m \notin changed
  BY DEF SlotsOf, Spared
<1>2. m \notin SlotsIn(x.created)
  BY <1>1 DEF Spared, SlotsIn
<1>3. CASE m \in DOMAIN x.page
  <2>1. cd[m] # Nothing /\ cd[m].content = x.page[m]
    BY <1>2, <1>3, KnownContent
  <2>2. nd[m] # Nothing /\ nd[m].content = x.page[m]
    BY <1>3 DEF Stored
  <2> QED BY <1>1, <1>3, <2>1, <2>2
<1>4. CASE m \notin DOMAIN x.page
  BY <1>1, <1>4 DEF Stored
<1> QED BY <1>3, <1>4

LEMMA PropagateValue ==
    ASSUME FrontierInv, ValueInv, NEW c \in Collectors, Propagate(c)
    PROVE  ValueInv'
<1>1. raced' = (raced \/ Reading) /\ raced \in BOOLEAN
  BY DEF Propagate, ValueInv
<1>2. raced' \in BOOLEAN /\ (~raced' => ~raced /\ ~Reading)
  BY <1>1, RaceCounts
<1>3. SUFFICES ASSUME ~raced' PROVE ValuesHold'
  BY <1>2 DEF ValueInv
<1>4. ~Reading /\ ValuesHold
  BY <1>2, <1>3 DEF ValueInv
<1>5. PICK z : z = tx[c]
  OBVIOUS
<1>6. /\ RevisionsOK(revisions) /\ EventsOK(events) /\ TransactionsOK(tx, revisions) /\ clock \in Nat
      /\ StoreNow(candles, revisions, nextRev) /\ WritersKnow(tx, candles, revisions, nextRev)
  BY <1>4 DEF FrontierInv, ValuesHold
<1>7. Committing(z, candles, revisions, nextRev)
  BY <1>5, <1>6 DEF Committing, TransactionsOK, WritersKnow, Propagate
<1>8. PICK changed, created, nrv, nev, cov : Commits(c, changed, created, nrv, nev, cov)
  BY DEF Commits
<1>9. created = z.created /\ nrv = revisions \cup created
  BY <1>5, <1>8 DEF Commits
<1>10. EventsGrow(events, nev, changed)
  BY <1>6, <1>8, ChangeIsEvent DEF Commits
<1>11. PICK njs : njs = jobs'
  OBVIOUS
<1>12. PICK q, s : Added(njs, jobs, q, s) /\ Frozen(q, cov) /\ Frozen(s, cov)
  BY <1>8, <1>11, CommitQueues
<1>13. PICK ncd : ncd = candles'
  OBVIOUS
<1>14. Stored(ncd, candles, z)
  <2>1. ncd = [m \in Minutes |->
                  IF m \in DOMAIN z.page /\ (candles[m] = Nothing \/ z.asOf >= candles[m].asOf)
                  THEN [content |-> z.page[m], asOf |-> z.asOf] ELSE candles[m]]
    BY <1>5, <1>13 DEF Propagate
  <2> QED BY <1>7, <2>1, PageIsStored
<1>15. StoreNow(ncd, nrv, nextRev)
  BY <1>7, <1>9, <1>14, CommittedStore
<1>16. RevisionsOK(created) /\ \A r \in revisions, p \in created : r.id < p.id
  BY <1>7, <1>9 DEF Committing, TxOK, Writing, NewRevision
<1>17. /\ \A m \in DOMAIN z.page : m \in changed \/ coverage[m] = cov[m]
       /\ \A m \in Minutes : m \in DOMAIN z.page \/ coverage[m] = cov[m]
  <2>1. DOMAIN z.page \subseteq Minutes
    BY <1>7 DEF Committing, TxOK
  <2> QED BY <1>5, <1>8, <2>1 DEF Commits, Changed, Reclassified
<1>18. ASSUME NEW b, Spared(b, created, changed)
       PROVE  SameStore(b, candles, coverage, ncd, cov)
  BY <1>7, <1>9, <1>14, <1>17, <1>18, SparedStore
<1>19. ChangedTo(njs, nrv, nev, ncd, cov)
  BY <1>4, <1>9, <1>10, <1>12, <1>16, <1>18, ChangeValue
<1>20. PICK nxs : nxs = tx'
  OBVIOUS
<1>21. WritersKnow(nxs, ncd, nrv, nextRev)
  <2>1. PICK x : x = IdleTx
    OBVIOUS
  <2>2. x.pc = "idle"
    BY <2>1 DEF IdleTx
  <2>3. nxs = [tx EXCEPT ![c] = x] /\ tx = [d \in Collectors |-> tx[d]]
    BY <1>6, <1>20, <2>1 DEF Propagate, TransactionsOK
  <2>4. nxs[c] = x /\ \A d \in Collectors : d # c => nxs[d] = tx[d]
    BY <2>3
  <2>5. \A d \in Collectors : d # c => tx[d].pc # "written"
    BY <1>5, <1>6, <1>7 DEF WritersKnow, OneWriter, Committing
  <2>6. \A d \in Collectors : nxs[d].pc # "written"
    BY <2>2, <2>4, <2>5
  <2>7. ASSUME NEW d \in Collectors PROVE Writing(nxs[d], ncd, nrv, nextRev)
    BY <1>6, <2>2, <2>4, <2>6 DEF WritersKnow, Writing
  <2> QED BY <2>6, <2>7 DEF WritersKnow, OneWriter
<1>22. /\ nextRev' = nextRev /\ rollups' = rollups /\ aggregator' = aggregator
       /\ revisions' = nrv /\ coverage' = cov /\ events' = nev
  BY <1>8 DEF Propagate, Commits
<1> QED BY <1>11, <1>13, <1>15, <1>19, <1>20, <1>21, <1>22 DEF ValuesHold, ChangedTo

LEMMA InitValueInv == RollupInit => ValueInv
<1> SUFFICES ASSUME RollupInit PROVE ValueInv
  OBVIOUS
<1>1. raced = FALSE
  BY DEF RollupInit
<1>2. StoreNow(candles, revisions, nextRev)
  BY DEF RollupInit, StoreNow, NumberedIn, Holding
<1>3. PICK x : x = IdleTx
  OBVIOUS
<1>4. x.pc = "idle" /\ \A c \in Collectors : tx[c] = x
  BY <1>3 DEF RollupInit, IdleTx
<1>5. WritersKnow(tx, candles, revisions, nextRev)
  BY <1>4 DEF WritersKnow, OneWriter, Writing
<1>6. ReadersNow(aggregator, candles, coverage)
  BY IdleReadsNothing DEF RollupInit, ReadersNow
<1>7. PICK e : e = <<>>
  OBVIOUS
<1>8. DOMAIN e = {} /\ jobs = e /\ rollups = e
  BY <1>7 DEF RollupInit
<1>9. JobsCurrent(jobs, revisions, events, coverage) /\ RowsCurrent(rollups, revisions, events, candles, coverage)
  BY <1>8 DEF JobsCurrent, RowsCurrent
<1> QED BY <1>1, <1>2, <1>5, <1>6, <1>9 DEF ValueInv, ValuesHold

LEMMA NextValueInv == FrontierInv /\ ValueInv /\ [RollupNext]_rollupVars => ValueInv'
<1> SUFFICES ASSUME FrontierInv, ValueInv, [RollupNext]_rollupVars PROVE ValueInv'
  OBVIOUS
<1>1. CASE UNCHANGED rollupVars
  BY <1>1 DEF rollupVars, source, ValueInv, ValuesHold
<1>2. ASSUME NEW c \in Collectors, CollectorStep(c) PROVE ValueInv'
  BY <1>2, FetchValue, UpsertCandlesValue, PropagateValue DEF CollectorStep
<1>3. ASSUME NEW span \in Spans, NEW status \in Verdicts, Classify(span, status) PROVE ValueInv'
  BY <1>3, ClassifyValue
<1>4. ASSUME NEW w \in Aggregators, WorkerStep(w) PROVE ValueInv'
  BY <1>4, QueueStepsValue, AggregatorStepsValue, ClaimAggregationValue, RunJobValue,
     MaterializeValue DEF WorkerStep
<1>5. ASSUME NEW j \in DOMAIN jobs, Elapse(j) \/ SafeRestart(j) PROVE ValueInv'
  BY <1>5, JobStepsValue
<1> QED BY <1>1, <1>2, <1>3, <1>4, <1>5 DEF RollupNext

LEMMA ValueInvSettles == FrontierInv /\ ValueInv => SettledRollupIsCurrent
<1> SUFFICES ASSUME FrontierInv, ValueInv, Drained, ~raced,
                    NEW s \in Minutes, candles[s] # Nothing, NEW b, b = Bucket(s)
             PROVE  ServedIsCurrent(b)
  BY DEF SettledRollupIsCurrent
<1>1. PICK r \in revisions : r.slot = s
  BY DEF FrontierInv, StoreOK, SlotsIn
<1>2. PICK k \in RowsOf(b) :
          /\ Served(b) = rollups[k]
          /\ Covers(rollups[k].through, rollups[k].event, revisions, events, b)
  BY <1>1, ServedCovers
<1>3. rollups[k].bucket = b /\ k \in DOMAIN rollups
  BY DEF RowsOf
<1>4. RowCurrent(rollups[k], revisions, events, candles, coverage)
  BY <1>3 DEF ValueInv, ValuesHold, RowsCurrent
<1>5. rollups[k].result = Current(b, candles, coverage)
  BY <1>2, <1>3, <1>4 DEF RowCurrent
<1> QED BY <1>2, <1>5, CurrentHere DEF ServedIsCurrent

(* SettledRollupIsCurrent, for any number of collectors and aggregation
   workers, any minutes, candles, bucket and page sizes, and however many
   responses, verdicts, failures, lost workers and restarts: once the queue is
   drained and nothing raced, the row a reader is served of a bucket that has
   a candle is the aggregate of the candles and the coverage the store holds.
   What makes it so is that _upsert_candles appends a revision exactly when
   the newest one has another content, that the invalidation freezes the
   coverage its frontier names and run_candle_rollup_recompute_job computes
   from the two, and that any later change of the bucket is a newer frontier,
   which the reader's order prefers. *)
THEOREM RollupsSettle == RollupSpec => []SettledRollupIsCurrent
<1>1. RollupInit => FrontierInv /\ ValueInv
  BY InitFrontierInv, InitValueInv
<1>2. FrontierInv /\ ValueInv /\ [RollupNext]_rollupVars => FrontierInv' /\ ValueInv'
  BY NextFrontierInv, NextValueInv
<1>3. FrontierInv /\ ValueInv => SettledRollupIsCurrent
  BY ValueInvSettles
<1> QED BY <1>1, <1>2, <1>3, PTL DEF RollupSpec
=============================================================================
