------------------------ MODULE DatasetBuildsProofs ------------------------
(***************************************************************************)
(* Proofs about the dataset builds, for any clients, workers, requests,    *)
(* rows and verdicts: what is published stays within what was frozen, the  *)
(* missing-data policy "fail" is honoured, keys, contents and listings are *)
(* unique and complete, and the builds implement the lease queue.          *)
(***************************************************************************)
EXTENDS DatasetBuilds, FiniteSums, TLAPS

-----------------------------------------------------------------------------
(* The inductive invariant.                                                *)

IsRow(r) ==
    /\ r.id \in Nat /\ r.known \in Nat /\ r.rank \in Nat \X Nat
    /\ r.table \in Tables
    /\ r.slot \in Starts(r.unit)

Store ==
    /\ nextRow \in Nat
    /\ IsFiniteSet(rows)
    /\ \A r \in open \cup rows : IsRow(r)
    /\ verdicts \in Seq(Verdicts)

\* The ranges cover every slot, and each knows its buckets.
CoverageOK(f) ==
    /\ \A s \in Slots : \E c \in f.coverage : c.from <= s /\ s < c.to
    /\ \A c \in f.coverage :
           /\ c.from \in Nat /\ c.to \in Nat
           /\ c.status \in Qualities
           /\ c.expected = Expected(f.request.unit, c.from, c.to)

BuildFields == {"request", "ceilings", "event", "statuses", "coverage", "accepted", "status",
                "owner", "gen", "live", "attempts", "version", "doneGen"}
Statuses == {"pending", "running", "retry_wait", "succeeded", "failed", "dead_letter"}

IsBuild(rs, vs, f) ==
    /\ DOMAIN f = BuildFields
    /\ f.event \in Nat /\ f.event <= Len(vs)
    /\ f.request \in Requests
    /\ f.accepted \subseteq rs
    /\ CoverageOK(f)
    /\ f.gen \in Nat /\ f.attempts \in Nat
    /\ f.status \in Statuses

Builds ==
    /\ builds \in Seq({builds[b] : b \in DOMAIN builds})
    /\ \A b \in DOMAIN builds : IsBuild(rows, verdicts, builds[b])

\* Every build was some client's, so there are no more builds than clients.
Client ==
    /\ client = [c \in Clients |-> client[c]]
    /\ \A c \in Clients :
           /\ client[c].pc = "creating" =>
                  /\ client[c].request \in Requests
                  /\ client[c].rows \subseteq rows
                  /\ client[c].verdicts \in Seq(Verdicts)
                  /\ Len(client[c].verdicts) <= Len(verdicts)
                  /\ client[c].builds \subseteq DOMAIN builds
           /\ client[c].pc = "answered" =>
                  /\ client[c].answer \in DOMAIN builds
                  /\ builds[client[c].answer].request = client[c].request
    /\ \A b \in DOMAIN builds : \E c \in Clients :
           client[c].pc = "answered" /\ client[c].answer = b
    /\ \A a, b \in DOMAIN builds : builds[a].request.key = builds[b].request.key => a = b

\* What may be published for a build.
Good(rs, vs, f, members) ==
    /\ \A m \in members : \E r \in Candidates(rs, f) :
           /\ m = Member(vs, r, f)
           /\ \A o \in Candidates(f.accepted, f) : o.slot = r.slot => Preferred(r, o)
    /\ \A o \in Candidates(f.accepted, f) : \E m \in members : m.slot = o.slot
    /\ f.request.policy = "fail" => ~Blocked(f, members)

WorkerFields == {"pc", "build", "gen", "members", "version"}

Worker ==
    /\ worker = [w \in Workers |-> worker[w]]
    /\ \A w \in Workers :
           /\ DOMAIN worker[w] = WorkerFields
           /\ worker[w].pc # "idle" => worker[w].build \in DOMAIN builds
           /\ worker[w].pc \in {"staged", "inserted"} =>
                  Good(rows, verdicts, builds[worker[w].build], worker[w].members)

\* An inserted version is the only one with its content, whoever seals it.
Version ==
    /\ nextVersion \in Nat
    /\ \A v \in versions : /\ v.id \in Nat /\ v.id < nextVersion
                           /\ v = [id |-> v.id, content |-> v.content]
    /\ OneVersionPerContent
    /\ \A w \in Workers : worker[w].pc = "inserted" =>
           /\ worker[w].version \in Nat /\ worker[w].version < nextVersion
           /\ \A v \in versions : v.id = worker[w].version <=> v.content = Content(w)
    /\ \A w, o \in Workers :
           (w # o /\ worker[w].pc = "inserted" /\ worker[o].pc = "inserted") =>
               worker[w].version # worker[o].version /\ Content(w) # Content(o)

Published ==
    \A b \in DOMAIN builds : builds[b].status = "succeeded" =>
        \E v \in versions : /\ v.id = builds[b].version
                            /\ v.content.coverage = builds[b].coverage
                            /\ Good(rows, verdicts, builds[b], v.content.members)

\* What a listing has yet to show is below the last id it has shown.
Reader ==
    /\ reader.first \subseteq Ids(versions)
    /\ reader.seen \in Seq(Nat)
    /\ \A i, j \in DOMAIN reader.seen : i < j => reader.seen[i] > reader.seen[j]
    /\ reader.pc \in {"paging", "listed"} =>
           /\ reader.ceiling \in Nat
           /\ \A i \in reader.first : i <= reader.ceiling
    /\ reader.pc = "paging" =>
           /\ reader.last \in Nat
           /\ \A i \in DOMAIN reader.seen : reader.seen[i] >= reader.last
           /\ \A i \in reader.first :
                  i < reader.last \/ \E n \in DOMAIN reader.seen : reader.seen[n] = i
    /\ reader.pc = "listed" =>
           \A i \in reader.first : \E n \in DOMAIN reader.seen : reader.seen[n] = i

IInv == Store /\ Builds /\ Client /\ Worker /\ Version /\ Published /\ Reader

-----------------------------------------------------------------------------
(* What is frozen with a build.                                            *)

\* MaxOr chooses an element, the greatest, of a bounded set of naturals.
LEMMA MaxOrIn ==
    ASSUME NEW S \in SUBSET Nat, NEW n \in Nat, \A x \in S : x <= n
    PROVE  IF S = {} THEN MaxOr(S, 0) = 0
           ELSE MaxOr(S, 0) \in S /\ \A x \in S : x <= MaxOr(S, 0)
<1>1. CASE S = {}
  BY <1>1 DEF MaxOr
<1>2. CASE S # {}
  <2>1. IsFiniteSet(S)
    BY FS_BoundedSetOfNaturals
  <2>2. S \in SUBSET Int
    OBVIOUS
  <2>3. \E x \in S : \A y \in S : x >= y
    BY <2>1, <2>2, <1>2, GreatestInt
  <2> QED  BY <1>2, <2>3 DEF MaxOr, Max
<1> QED  BY <1>1, <1>2

LEMMA MaxOrFinite ==
    ASSUME NEW S \in SUBSET Nat, IsFiniteSet(S), S # {}
    PROVE  MaxOr(S, 0) \in S
<1>1. \E x \in S : \A y \in S : x >= y
  <2>1. S \in SUBSET Int
    OBVIOUS
  <2> QED  BY <2>1, GreatestInt
<1> QED  BY <1>1 DEF MaxOr, Max

\* The newest of some verdicts is one of them.
LEMMA NewestIn ==
    ASSUME NEW vs \in Seq(Verdicts), NEW ns \in SUBSET DOMAIN vs, ns # {}
    PROVE  Newest(vs, ns) \in ns
<1> DEFINE ats == {vs[n].at : n \in ns}
           e == [n \in ns |-> vs[n].at]
<1>1. Len(vs) \in Nat /\ DOMAIN vs = 1..Len(vs)
  OBVIOUS
<1>2. IsFiniteSet(ns)
  BY <1>1, IndexSets
<1>3. \A n \in ns : vs[n].at \in Nat
  BY InputsAssumption
<1>4. ats = {e[n] : n \in ns}
  OBVIOUS
<1>5. IsFiniteSet(ats) /\ ats \in SUBSET Nat /\ ats # {}
  <2> HIDE DEF e
  <2>1. IsFiniteSet({e[n] : n \in ns})
    BY <1>2, ImageFinite
  <2> QED  BY <1>3, <1>4, <2>1
<1>6. PICK at : at = MaxOr(ats, 0)
  OBVIOUS
<1>7. at \in ats
  <2> HIDE DEF ats
  <2> QED  BY <1>5, <1>6, MaxOrFinite
<1>8. PICK top : top = {n \in ns : vs[n].at = at}
  OBVIOUS
<1>9. top # {} /\ top \subseteq ns /\ top \in SUBSET Nat /\ IsFiniteSet(top)
  BY <1>1, <1>2, <1>7, <1>8, FS_Subset
<1>10. MaxOr(top, 0) \in top
  BY <1>9, MaxOrFinite
<1> QED  BY <1>6, <1>8, <1>9, <1>10 DEF Newest

\* The verdict Latest finds is one of the source's.
LEMMA LatestIn ==
    ASSUME NEW vs \in Seq(Verdicts), NEW lo, NEW hi, NEW asOf,
           Latest(vs, lo, hi, asOf) # 0
    PROVE  /\ Latest(vs, lo, hi, asOf) \in DOMAIN vs
           /\ vs[Latest(vs, lo, hi, asOf)] \in Verdicts
           /\ vs[Latest(vs, lo, hi, asOf)].by = "source"
<1> DEFINE S == Over(vs, "source", lo, hi, asOf)
<1>1. /\ Latest(vs, lo, hi, asOf) = MaxOr(S, 0)
      /\ Len(vs) \in Nat /\ DOMAIN vs = 1..Len(vs)
      /\ S \in SUBSET Nat /\ \A x \in S : x <= Len(vs)
      /\ S \subseteq DOMAIN vs
      /\ \A n \in S : vs[n].by = "source" /\ vs[n] \in Verdicts
  BY DEF Latest, Over
<1> HIDE DEF S
<1>2. MaxOr(S, 0) \in S
  BY <1>1, MaxOrIn
<1> QED  BY <1>1, <1>2

\* The ranges cover the slots.
LEMMA RangesCover ==
    ASSUME NEW vs \in Seq(Verdicts), NEW asOf, NEW s \in Slots
    PROVE  \E r \in Ranges(vs, asOf) : r[1] <= s /\ s < r[2]
<1> DEFINE known == {vs[n] : n \in {k \in DOMAIN vs : vs[k].at <= asOf}}
           cuts == {0, NumSlots} \cup {v.from : v \in known} \cup {v.to : v \in known}
           below == {x \in cuts : x <= s}
           above == {x \in cuts : s < x}
<1>1. s \in Nat /\ s < NumSlots /\ NumSlots \in Nat
  BY BoundsAssumption DEF Slots
<1>2. known \subseteq Verdicts
  OBVIOUS
<1>3. \A v \in Verdicts : v.from \in Nat /\ v.to \in Nat
  BY InputsAssumption
<1>4. cuts \subseteq Nat
  BY <1>1, <1>2, <1>3
<1>5. 0 \in cuts /\ NumSlots \in cuts
  OBVIOUS
<1>6. Ranges(vs, asOf) =
          {r \in cuts \X cuts : r[1] < r[2] /\ \A x \in cuts : ~(r[1] < x /\ x < r[2])}
  BY DEF Ranges
<1> HIDE DEF cuts, known
<1>7. PICK lo \in below : \A x \in below : x <= lo
  <2>0. 0 <= s
    BY <1>1
  <2>1. /\ 0 \in below
        /\ below \in SUBSET Nat
        /\ \A x \in below : x <= s
    BY <1>4, <1>5, <2>0
  <2> HIDE DEF below
  <2>2. MaxOr(below, 0) \in below /\ \A x \in below : x <= MaxOr(below, 0)
    BY <1>1, <2>1, MaxOrIn
  <2> QED  BY <2>2
<1>8. PICK hi \in above : \A x \in above : hi <= x
  <2>1. NumSlots \in above /\ above \in SUBSET Nat
    BY <1>1, <1>4, <1>5
  <2> HIDE DEF above
  <2> QED  BY <2>1, LeastNat
<1>9. /\ lo \in cuts /\ hi \in cuts /\ lo \in Nat /\ hi \in Nat
      /\ lo <= s /\ s < hi /\ lo < hi
  BY <1>1, <1>4, <1>7, <1>8
<1>10. \A x \in cuts : ~(lo < x /\ x < hi)
  BY <1>1, <1>4, <1>7, <1>8, <1>9
<1>11. <<lo, hi>> \in Ranges(vs, asOf)
  BY <1>6, <1>9, <1>10
<1> QED  BY <1>9, <1>11

\* A new build is one.
LEMMA FrozenIsBuild ==
    ASSUME NEW b, NEW rs, rs \subseteq rows, NEW vs \in Seq(Verdicts), NEW req \in Requests,
           Len(vs) <= Len(verdicts), Len(verdicts) \in Nat
    PROVE  /\ IsBuild(rows, verdicts, Frozen(b, rs, vs, req))
           /\ Frozen(b, rs, vs, req).status = "pending"
           /\ Frozen(b, rs, vs, req).request = req
           /\ Frozen(b, rs, vs, req).gen = 0
           /\ Frozen(b, rs, vs, req).attempts = 0
           /\ Frozen(b, rs, vs, req).doneGen = 0
<1> DEFINE cov(r) == RangeCoverage(b, rs, vs, Ceilings(rs, req.asOf), req, r[1], r[2])
<1>1. PICK f : f = Frozen(b, rs, vs, req)
  OBVIOUS
<1>2. /\ DOMAIN f = BuildFields
      /\ f.request = req /\ f.accepted = rs /\ f.status = "pending"
      /\ f.gen = 0 /\ f.attempts = 0 /\ f.doneGen = 0
      /\ f.coverage = {cov(r) : r \in Ranges(vs, req.asOf)}
  BY <1>1 DEF Frozen, BuildFields
<1>3. \A r \in Ranges(vs, req.asOf) : r[1] \in Nat /\ r[2] \in Nat
  <2>1. \A v \in Verdicts : v.from \in Nat /\ v.to \in Nat
    BY InputsAssumption
  <2>2. NumSlots \in Nat
    BY BoundsAssumption
  <2> QED  BY <2>1, <2>2 DEF Ranges
<1>4. \A r : cov(r).from = r[1] /\ cov(r).to = r[2] /\ cov(r).expected = Expected(req.unit, r[1], r[2])
  BY DEF RangeCoverage
<1>5. \A r : cov(r).status \in Qualities
  <2> TAKE r
  <2>1. PICK event : event = Latest(vs, r[1], r[2], req.asOf)
    OBVIOUS
  <2>2. event # 0 => vs[event].status \in Qualities
    <3>1. event # 0 => vs[event] \in Verdicts /\ vs[event].by = "source"
      BY <2>1, LatestIn
    <3> QED  BY <3>1, InputsAssumption
  <2> QED  BY <2>1, <2>2 DEF RangeCoverage, Qualities
<1> HIDE DEF cov
<1>6. \A s \in Slots : \E c \in f.coverage : c.from <= s /\ s < c.to
  <2> TAKE s \in Slots
  <2>1. PICK r \in Ranges(vs, req.asOf) : r[1] <= s /\ s < r[2]
    BY RangesCover
  <2> QED  BY <1>2, <1>4, <2>1
<1>7. CoverageOK(f)
  BY <1>2, <1>3, <1>4, <1>5, <1>6 DEF CoverageOK
<1>8. f.event \in Nat /\ f.event <= Len(verdicts)
  <2> DEFINE S == {n \in DOMAIN vs : vs[n].by = "source" /\ vs[n].at <= req.asOf}
  <2>1. Len(vs) \in Nat /\ S \in SUBSET Nat /\ \A x \in S : x <= Len(vs)
    OBVIOUS
  <2>2. f.event = MaxOr(S, 0)
    BY <1>1 DEF Frozen
  <2> HIDE DEF S
  <2>3. MaxOr(S, 0) = 0 \/ MaxOr(S, 0) \in S
    BY <2>1, MaxOrIn
  <2>4. PICK e : e = MaxOr(S, 0)
    OBVIOUS
  <2>5. e = 0 \/ e \in S
    BY <2>3, <2>4
  <2>6. e \in Nat /\ e <= Len(vs)
    <3>1. CASE e = 0
      BY <2>1, <3>1
    <3>2. CASE e \in S
      BY <2>1, <3>2, Zenon
    <3> QED  BY <2>5, <3>1, <3>2
  <2> QED  BY <2>1, <2>2, <2>4, <2>6
<1> QED  BY <1>1, <1>2, <1>7, <1>8 DEF IsBuild, Statuses

-----------------------------------------------------------------------------
(* What is staged may be published.                                        *)

\* The keys rows are ordered by are four numbers.
LEMMA KeyType ==
    ASSUME NEW r, IsRow(r)
    PROVE  /\ SortKey(r)[1] \in Nat /\ SortKey(r)[2] \in Nat
           /\ SortKey(r)[3] \in Nat /\ SortKey(r)[4] \in Nat
           /\ SortKey(r) = <<SortKey(r)[1], SortKey(r)[2], SortKey(r)[3], SortKey(r)[4]>>
<1>1. /\ r.id \in Nat /\ r.known \in Nat
      /\ r.rank[1] \in Nat /\ r.rank[2] \in Nat
  BY DEF IsRow
<1>2. CASE r.unit = "1d"
  BY <1>1, <1>2 DEF SortKey
<1>3. CASE r.unit # "1d" /\ r.table = "source"
  BY <1>1, <1>3 DEF SortKey
<1>4. CASE r.unit # "1d" /\ r.table # "source"
  BY <1>1, <1>4 DEF SortKey
<1> QED  BY <1>2, <1>3, <1>4

\* The order unfolded: the first component in which two keys differ decides.
LEMMA PreferredIs ==
    ASSUME NEW r, NEW q, IsRow(r), IsRow(q)
    PROVE  LET a == SortKey(r)
               b == SortKey(q)
           IN  Preferred(r, q) <=>
                   \/ a[1] > b[1]
                   \/ a[1] = b[1] /\ a[2] > b[2]
                   \/ a[1] = b[1] /\ a[2] = b[2] /\ a[3] > b[3]
                   \/ a[1] = b[1] /\ a[2] = b[2] /\ a[3] = b[3] /\ a[4] >= b[4]
<1>1. PICK a : a = SortKey(r)
  OBVIOUS
<1>2. PICK b : b = SortKey(q)
  OBVIOUS
<1>3. /\ a[1] \in Nat /\ a[2] \in Nat /\ a[3] \in Nat /\ a[4] \in Nat
      /\ b[1] \in Nat /\ b[2] \in Nat /\ b[3] \in Nat /\ b[4] \in Nat
      /\ a = <<a[1], a[2], a[3], a[4]>> /\ b = <<b[1], b[2], b[3], b[4]>>
  BY <1>1, <1>2, KeyType
<1>4. Preferred(r, q) <=>
          a = b \/ \E n \in 1..4 : a[n] > b[n] /\ \A k \in 1..(n - 1) : a[k] = b[k]
  BY <1>1, <1>2 DEF Preferred
<1>5. 1..4 = {1, 2, 3, 4} /\ 1..(1 - 1) = {} /\ 1..(2 - 1) = {1} /\ 1..(3 - 1) = {1, 2}
      /\ 1..(4 - 1) = {1, 2, 3}
  OBVIOUS
<1>6. (\E n \in 1..4 : a[n] > b[n] /\ \A k \in 1..(n - 1) : a[k] = b[k]) <=>
          \/ a[1] > b[1]
          \/ a[1] = b[1] /\ a[2] > b[2]
          \/ a[1] = b[1] /\ a[2] = b[2] /\ a[3] > b[3]
          \/ a[1] = b[1] /\ a[2] = b[2] /\ a[3] = b[3] /\ a[4] > b[4]
  BY <1>5
<1>7. a = b <=> a[1] = b[1] /\ a[2] = b[2] /\ a[3] = b[3] /\ a[4] = b[4]
  BY <1>3
<1>8. Preferred(r, q) <=>
          \/ a[1] > b[1]
          \/ a[1] = b[1] /\ a[2] > b[2]
          \/ a[1] = b[1] /\ a[2] = b[2] /\ a[3] > b[3]
          \/ a[1] = b[1] /\ a[2] = b[2] /\ a[3] = b[3] /\ a[4] >= b[4]
  <2>1. a[4] >= b[4] <=> a[4] > b[4] \/ a[4] = b[4]
    BY <1>3
  <2> QED  BY <1>4, <1>6, <1>7, <2>1
<1> QED  BY <1>1, <1>2, <1>8

\* Of the candidates for a slot one is preferred to the others.
LEMMA PreferredExists ==
    ASSUME NEW C, IsFiniteSet(C), C # {}, \A r \in C : IsRow(r)
    PROVE  \E r \in C : \A q \in C : Preferred(r, q)
<1> DEFINE R == {p \in C \X C : Preferred(p[1], p[2])}
<1>1. \A x, y \in C : <<x, y>> \in R <=> Preferred(x, y)
  OBVIOUS
<1>2. \A x, y \in C : Preferred(x, y) \/ Preferred(y, x)
  <2> TAKE x, y \in C
  <2>1. IsRow(x) /\ IsRow(y)
    OBVIOUS
  <2> QED  BY <2>1, KeyType, PreferredIs
<1>3. \A x, y, z \in C : Preferred(x, y) /\ Preferred(y, z) => Preferred(x, z)
  <2> TAKE x, y, z \in C
  <2>1. IsRow(x) /\ IsRow(y) /\ IsRow(z)
    OBVIOUS
  <2> QED  BY <2>1, KeyType, PreferredIs
<1> HIDE DEF R
<1>4. \A x, y \in C : <<x, y>> \in R \/ <<y, x>> \in R
  BY <1>1, <1>2
<1>5. \A x, y, z \in C : <<x, y>> \in R /\ <<y, z>> \in R => <<x, z>> \in R
  BY <1>1, <1>3
<1>6. \E x \in C : \A y \in C : <<x, y>> \in R
  BY <1>4, <1>5, FirstElement
<1> QED  BY <1>1, <1>6

\* Staged members are within the frontier, and none of the accepted rows would
\* have been preferred to them or is missed.
LEMMA StagedIsGood ==
    ASSUME Store, NEW f, IsBuild(rows, verdicts, f),
           f.request.policy = "fail" => ~Blocked(f, Staged(rows, verdicts, f))
    PROVE  Good(rows, verdicts, f, Staged(rows, verdicts, f))
<1> DEFINE C == Candidates(rows, f)
           best == FirstOfEachSlot(C)
           A == Candidates(f.accepted, f)
<1>1. Staged(rows, verdicts, f) = {Member(verdicts, r, f) : r \in best}
  BY DEF Staged
<1>2. best = {r \in C : \A o \in C : o.slot = r.slot => Preferred(r, o)}
  BY DEF FirstOfEachSlot
<1>3. \A r \in C : r \in rows
  BY DEF Candidates
<1>4. \A r \in A : r \in C
  BY DEF Candidates, IsBuild
<1>5. ASSUME NEW r \in C PROVE \E q \in best : q.slot = r.slot
  <2> DEFINE D == {q \in C : q.slot = r.slot}
  <2>1. D \subseteq rows /\ D # {}
    BY <1>3
  <2>2. IsFiniteSet(D)
    BY <2>1, FS_Subset DEF Store
  <2>3. \A q \in D : IsRow(q)
    BY <2>1 DEF Store
  <2>4. PICK q \in D : \A o \in D : Preferred(q, o)
    <3> HIDE DEF D
    <3> QED  BY <2>1, <2>2, <2>3, PreferredExists
  <2> QED  BY <1>2, <2>4
<1>6. \A r : Member(verdicts, r, f).slot = r.slot
  BY DEF Member
<1> HIDE DEF C, A, best
<1>7. \A m \in Staged(rows, verdicts, f) : \E r \in C :
          /\ m = Member(verdicts, r, f)
          /\ \A o \in A : o.slot = r.slot => Preferred(r, o)
  BY <1>1, <1>2, <1>4
<1>8. \A o \in A : \E m \in Staged(rows, verdicts, f) : m.slot = o.slot
  <2> TAKE o \in A
  <2>1. PICK q \in best : q.slot = o.slot
    BY <1>4, <1>5
  <2>2. Member(verdicts, q, f) \in Staged(rows, verdicts, f) /\ Member(verdicts, q, f).slot = o.slot
    BY <1>1, <1>6, <2>1
  <2> QED  BY <2>2
<1> QED  BY <1>7, <1>8 DEF Good, C, A

\* The tables are only added to.
Extends(rs, vs, ts, us) ==
    /\ rs \subseteq ts
    /\ vs \in Seq(Verdicts) /\ us \in Seq(Verdicts)
    /\ Len(vs) <= Len(us)
    /\ \A n \in 1..Len(vs) : us[n] = vs[n]

\* What is published of a row does not depend on verdicts after the frozen one.
LEMMA MemberKept ==
    ASSUME NEW rs, NEW vs, NEW ts, NEW us, Extends(rs, vs, ts, us), NEW f, NEW g,
           f.event \in Nat, f.event <= Len(vs), g.event = f.event, g.request = f.request,
           NEW r
    PROVE  Member(us, r, g) = Member(vs, r, f)
<1>1. PICK S : S = {n \in DOMAIN vs :
                    /\ vs[n].by = "source" /\ n <= f.event
                    /\ vs[n].at <= f.request.asOf
                    /\ vs[n].from <= r.slot /\ r.slot < vs[n].to}
  OBVIOUS
<1>2. /\ DOMAIN vs = 1..Len(vs) /\ DOMAIN us = 1..Len(us) /\ Len(vs) \in Nat /\ Len(us) \in Nat
      /\ vs \in Seq(Verdicts) /\ Len(vs) <= Len(us)
      /\ \A n \in DOMAIN vs : us[n] = vs[n]
  BY DEF Extends
<1>3. S = {n \in DOMAIN us :
                    /\ us[n].by = "source" /\ n <= g.event
                    /\ us[n].at <= g.request.asOf
                    /\ us[n].from <= r.slot /\ r.slot < us[n].to}
  BY <1>1, <1>2
<1>4. S \in SUBSET DOMAIN vs /\ \A n \in S : us[n] = vs[n]
  BY <1>1, <1>2
<1>5. Newest(us, S) = Newest(vs, S)
  <2>1. {us[n].at : n \in S} = {vs[n].at : n \in S}
    BY <1>4
  <2>2. PICK at : at = MaxOr({vs[n].at : n \in S}, 0)
    OBVIOUS
  <2>3. {n \in S : us[n].at = at} = {n \in S : vs[n].at = at}
    BY <1>4
  <2>4. /\ Newest(us, S) = MaxOr({n \in S : us[n].at = at}, 0)
        /\ Newest(vs, S) = MaxOr({n \in S : vs[n].at = at}, 0)
    BY <2>1, <2>2 DEF Newest
  <2> QED  BY <2>3, <2>4
<1>6. S # {} => us[Newest(us, S)] = vs[Newest(vs, S)]
  BY <1>2, <1>4, <1>5, NewestIn
<1>7. /\ QualityOf(us, r, g) = IF r.table = "rollup" THEN r.quality
                              ELSE IF S = {} THEN "available" ELSE us[Newest(us, S)].status
      /\ QualityOf(vs, r, f) = IF r.table = "rollup" THEN r.quality
                              ELSE IF S = {} THEN "available" ELSE vs[Newest(vs, S)].status
  BY <1>1, <1>3 DEF QualityOf
<1>8. QualityOf(us, r, g) = QualityOf(vs, r, f)
  BY <1>6, <1>7
<1> QED  BY <1>8 DEF Member

\* Good members stay good: tables are only added to and what is frozen is kept.
LEMMA GoodStays ==
    ASSUME NEW rs, NEW vs, NEW ts, NEW us, Extends(rs, vs, ts, us), NEW f, NEW g, NEW members,
           Good(rs, vs, f, members), f.event \in Nat, f.event <= Len(vs),
           g.request = f.request, g.ceilings = f.ceilings, g.event = f.event,
           g.coverage = f.coverage, g.accepted = f.accepted
    PROVE  Good(ts, us, g, members)
<1>1. Candidates(g.accepted, g) = Candidates(f.accepted, f)
  BY DEF Candidates
<1>2. \A r \in Candidates(rs, f) : r \in Candidates(ts, g)
  BY DEF Candidates, Extends
<1>3. Blocked(g, members) <=> Blocked(f, members)
  BY DEF Blocked
<1>4. \A r : Member(us, r, g) = Member(vs, r, f)
  BY MemberKept
<1> QED  BY <1>1, <1>2, <1>3, <1>4 DEF Good

-----------------------------------------------------------------------------
(* What a step does to the builds.                                         *)

\* What was frozen is kept, and an ended build is left alone.
Kept(f, g) ==
    /\ g.request = f.request /\ g.ceilings = f.ceilings /\ g.event = f.event
    /\ g.statuses = f.statuses /\ g.coverage = f.coverage /\ g.accepted = f.accepted
    /\ f.status = "succeeded" => g.status = "succeeded" /\ g.version = f.version

\* A write to the life cycle of a build.
Moved(f, g) ==
    /\ DOMAIN g = BuildFields
    /\ Kept(f, g)
    /\ g.gen \in Nat /\ g.attempts \in Nat
    /\ g.status \in Statuses

\* The least of the builds that satisfy a condition is one of them.
LEMMA MinIn ==
    ASSUME NEW S \in SUBSET Nat, S # {}
    PROVE  Min(S) \in S
BY LeastNat DEF Min

LEMMA SweptKeeps ==
    ASSUME Builds
    PROVE  /\ DOMAIN Swept = DOMAIN builds
           /\ \A b \in DOMAIN builds : Moved(builds[b], Swept[b])
<1>1. \A b \in DOMAIN builds : IsBuild(rows, verdicts, builds[b])
  BY DEF Builds
<1> QED  BY <1>1 DEF Swept, Spent, DeadLettered, IsBuild, BuildFields, Moved, Kept, Statuses

\* The actions that write the tables.
Writing ==
    \/ \E w \in Writes : Insert(w)
    \/ \E r \in open : Commit(r)
    \/ \E v \in Verdicts : Judge(v)

LEMMA StoreStep ==
    ASSUME Store, [Next]_vars
    PROVE  Store' /\ Extends(rows, verdicts, rows', verdicts')
<1>0. verdicts \in Seq(Verdicts) /\ Len(verdicts) \in Nat
  BY DEF Store
<1>1. CASE UNCHANGED store
  BY <1>0, <1>1 DEF Store, store, IsRow, Extends
<1>2. ASSUME NEW w \in Writes, Insert(w) PROVE Store' /\ Extends(rows, verdicts, rows', verdicts')
  <2>1. /\ w.table \in Tables /\ w.known \in Nat /\ w.slot \in Starts(w.unit)
        /\ w.rank \in Nat \X Nat
    BY InputsAssumption
  <2>2. nextRow \in Nat => IsRow(RowOf(w, nextRow))
    BY <2>1 DEF RowOf, IsRow
  <2>3. /\ open' = open \cup {RowOf(w, nextRow)} /\ nextRow' = nextRow + 1
        /\ UNCHANGED <<rows, verdicts>>
    BY <1>2 DEF Insert
  <2> QED  BY <1>0, <2>2, <2>3 DEF Store, Extends
<1>3. ASSUME NEW r \in open, Commit(r) PROVE Store' /\ Extends(rows, verdicts, rows', verdicts')
  <2>1. IsFiniteSet(rows \cup {r})
    BY FS_AddElement DEF Store
  <2>2. Store' /\ rows \subseteq rows' /\ verdicts' = verdicts
    BY <1>3, <2>1 DEF Commit, Store, IsRow
  <2> QED  BY <1>0, <2>2 DEF Extends
<1>4. ASSUME NEW v \in Verdicts, Judge(v) PROVE Store' /\ Extends(rows, verdicts, rows', verdicts')
  <2>1. verdicts' = Append(verdicts, v) /\ UNCHANGED <<open, rows, nextRow>>
    BY <1>4 DEF Judge
  <2>2. /\ verdicts' \in Seq(Verdicts) /\ Len(verdicts') = Len(verdicts) + 1
        /\ \A n \in 1..Len(verdicts) : verdicts'[n] = verdicts[n]
    BY <1>0, <2>1
  <2> QED  BY <1>0, <2>1, <2>2 DEF Store, IsRow, Extends
<1>5. Writing \/ UNCHANGED store
  BY DEF Next, vars, Writing, BeginCreate, ReturnExisting, CreateBuild, CreateRaced,
         Publication, Claim, SweepOnly, Stage, InsertVersion, Publish, MarkFailed,
         ScheduleRetry, LeaseLost, Fault, Crash, Lapse, FirstPage, NextPage
<1> QED  BY <1>1, <1>2, <1>3, <1>4, <1>5 DEF Writing

\* The writes to a build that exists.
Moving ==
    \/ \E w \in Workers : Claim(w) \/ SweepOnly(w) \/ Publish(w) \/ MarkFailed(w)
                           \/ ScheduleRetry(w)
    \/ \E b \in DOMAIN builds : Lapse(b)

LEMMA BuildsOrNot ==
    ASSUME [Next]_vars
    PROVE  UNCHANGED builds \/ Moving \/ \E c \in Clients : CreateBuild(c)
BY DEF Next, vars, Moving, Insert, Commit, Judge, BeginCreate, ReturnExisting, CreateRaced,
       Publication, Stage, InsertVersion, LeaseLost, Fault, Crash, FirstPage, NextPage

LEMMA MovingMoves ==
    ASSUME Builds, Worker, Moving
    PROVE  /\ builds' = [b \in DOMAIN builds |-> builds'[b]]
           /\ \A b \in DOMAIN builds : Moved(builds[b], builds'[b])
<1>0. /\ \A b \in DOMAIN builds : IsBuild(rows, verdicts, builds[b])
      /\ DOMAIN builds \subseteq Nat
      /\ builds = [b \in DOMAIN builds |-> builds[b]]
  BY DEF Builds
<1>1. \A b \in DOMAIN builds : Moved(builds[b], builds[b])
  BY <1>0 DEF Moved, Kept, IsBuild
<1>2. /\ DOMAIN Swept = DOMAIN builds /\ Swept = [b \in DOMAIN builds |-> Swept[b]]
      /\ \A b \in DOMAIN builds : Moved(builds[b], Swept[b])
  BY SweptKeeps DEF Swept
<1>3. ASSUME NEW w \in Workers, Claim(w)
      PROVE  /\ builds' = [b \in DOMAIN builds |-> builds'[b]]
             /\ \A b \in DOMAIN builds : Moved(builds[b], builds'[b])
  <2>1. PICK b : b = Min({k \in DOMAIN builds : Claimable(k)})
    OBVIOUS
  <2>2. b \in DOMAIN builds /\ Claimable(b)
    <3> DEFINE S == {k \in DOMAIN builds : Claimable(k)}
    <3>1. S \in SUBSET Nat /\ S # {}
      BY <1>0, <1>3 DEF Claim
    <3> HIDE DEF S
    <3>2. Min(S) \in S
      BY <3>1, MinIn
    <3> QED  BY <2>1, <3>2 DEF S
  <2>3. builds' = [Swept EXCEPT ![b] =
            [builds[b] EXCEPT !.status = "running", !.owner = w, !.live = TRUE,
                              !.gen = builds[b].gen + 1, !.attempts = @ + 1]]
    BY <1>3, <2>1 DEF Claim
  <2>4. IsBuild(rows, verdicts, builds[b]) /\ builds[b].status # "succeeded"
    BY <1>0, <2>2 DEF Claimable
  <2>5. Moved(builds[b], builds'[b])
    <3>1. builds'[b] = [builds[b] EXCEPT !.status = "running", !.owner = w, !.live = TRUE,
                              !.gen = builds[b].gen + 1, !.attempts = @ + 1]
      BY <1>2, <2>2, <2>3
    <3> QED  BY <2>4, <3>1 DEF IsBuild, BuildFields, Moved, Kept, Statuses
  <2> QED  BY <1>2, <2>2, <2>3, <2>5
<1>4. ASSUME NEW w \in Workers, SweepOnly(w)
      PROVE  /\ builds' = [b \in DOMAIN builds |-> builds'[b]]
             /\ \A b \in DOMAIN builds : Moved(builds[b], builds'[b])
  BY <1>2, <1>4 DEF SweepOnly
<1>5. ASSUME NEW w \in Workers, Publish(w) \/ MarkFailed(w) \/ ScheduleRetry(w)
      PROVE  /\ builds' = [b \in DOMAIN builds |-> builds'[b]]
             /\ \A b \in DOMAIN builds : Moved(builds[b], builds'[b])
  <2>1. PICK b : b = worker[w].build
    OBVIOUS
  <2>2. b \in DOMAIN builds
    BY <1>5, <2>1 DEF Worker, Publish, MarkFailed, ScheduleRetry
  <2>3. Holds(w) => builds[b].status = "running"
    BY <2>1 DEF Holds
  <2>4. IsBuild(rows, verdicts, builds[b])
    BY <1>0, <2>2
  <2>5. CASE builds' = builds
    BY <1>0, <1>1, <2>5
  <2>6. CASE builds' # builds
    <3>1. PICK g : builds' = [builds EXCEPT ![b] = g] /\ Holds(w) /\
              \/ g = [builds[b] EXCEPT !.status = "succeeded", !.owner = None, !.live = FALSE,
                         !.version = worker[w].version, !.doneGen = worker[w].gen]
              \/ g = [builds[b] EXCEPT !.status = "failed", !.owner = None, !.live = FALSE,
                         !.doneGen = worker[w].gen]
              \/ g = [builds[b] EXCEPT !.status = "dead_letter", !.owner = None, !.live = FALSE]
              \/ g = [builds[b] EXCEPT !.status = "retry_wait", !.owner = None, !.live = FALSE]
      BY <1>5, <2>1, <2>6 DEF Publish, MarkFailed, ScheduleRetry, DeadLettered
    <3>2. Moved(builds[b], g)
      BY <2>3, <2>4, <3>1 DEF IsBuild, BuildFields, Moved, Kept, Statuses
    <3>3. \A k \in DOMAIN builds : builds'[k] = IF k = b THEN g ELSE builds[k]
      BY <3>1
    <3> QED  BY <1>0, <1>1, <3>1, <3>2, <3>3
  <2> QED  BY <2>5, <2>6
<1>6. ASSUME NEW b \in DOMAIN builds, Lapse(b)
      PROVE  /\ builds' = [k \in DOMAIN builds |-> builds'[k]]
             /\ \A k \in DOMAIN builds : Moved(builds[k], builds'[k])
  <2>1. PICK g : g = [builds[b] EXCEPT !.live = FALSE]
    OBVIOUS
  <2>2. builds' = [builds EXCEPT ![b] = g]
    BY <1>6, <2>1 DEF Lapse
  <2>3. Moved(builds[b], g)
    BY <1>0, <2>1 DEF IsBuild, BuildFields, Moved, Kept, Statuses
  <2>4. \A k \in DOMAIN builds : builds'[k] = IF k = b THEN g ELSE builds[k]
    BY <2>2
  <2> QED  BY <1>0, <1>1, <2>2, <2>3, <2>4
<1> QED  BY <1>3, <1>4, <1>5, <1>6 DEF Moving

\* Inserting a build: its key is new.
LEMMA Created ==
    ASSUME Store, Builds, Client, NEW c \in Clients, CreateBuild(c)
    PROVE  \E f : /\ builds' = Append(builds, f)
                  /\ IsBuild(rows, verdicts, f) /\ f.status = "pending"
                  /\ f.gen = 0 /\ f.attempts = 0 /\ f.doneGen = 0
                  /\ f.request = client[c].request
                  /\ \A b \in DOMAIN builds : builds[b].request.key # f.request.key
                  /\ UNCHANGED <<open, rows, nextRow, verdicts>>
<1>1. PICK f : f = Frozen(Len(builds) + 1, client[c].rows, client[c].verdicts, client[c].request)
  OBVIOUS
<1>2. /\ client[c].request \in Requests
      /\ client[c].rows \subseteq rows
      /\ client[c].verdicts \in Seq(Verdicts)
      /\ Len(client[c].verdicts) <= Len(verdicts) /\ Len(verdicts) \in Nat
  BY DEF CreateBuild, Client, Store
<1>3. /\ IsBuild(rows, verdicts, f) /\ f.status = "pending" /\ f.request = client[c].request
      /\ f.gen = 0 /\ f.attempts = 0 /\ f.doneGen = 0
  BY <1>1, <1>2, FrozenIsBuild
<1>4. builds' = Append(builds, f) /\ UNCHANGED <<open, rows, nextRow, verdicts>>
  BY <1>1 DEF CreateBuild, store
<1>5. \A b \in DOMAIN builds : builds[b].request.key # client[c].request.key
  BY DEF CreateBuild, BuildsOf
<1> QED  BY <1>3, <1>4, <1>5

\* Builds are only added, and each keeps what was frozen with it.
LEMMA BuildsStep ==
    ASSUME IInv, [Next]_vars
    PROVE  /\ Builds'
           /\ DOMAIN builds \subseteq DOMAIN builds'
           /\ \A b \in DOMAIN builds : Kept(builds[b], builds'[b])
<1> USE DEF IInv
<1>0. /\ rows \subseteq rows' /\ Len(verdicts) \in Nat /\ Len(verdicts') \in Nat
      /\ Len(verdicts) <= Len(verdicts')
  BY StoreStep DEF Extends
<1>1. CASE UNCHANGED builds
  <2>1. \A b \in DOMAIN builds : Kept(builds[b], builds'[b])
    BY <1>1 DEF Kept
  <2>2. \A b \in DOMAIN builds : IsBuild(rows', verdicts', builds[b])
    BY <1>0 DEF Builds, IsBuild
  <2> QED  BY <1>1, <2>1, <2>2 DEF Builds
<1>2. CASE Moving
  <2>1. /\ builds' = [b \in DOMAIN builds |-> builds'[b]]
        /\ \A b \in DOMAIN builds : Moved(builds[b], builds'[b])
    BY <1>2, MovingMoves
  <2>2. /\ builds' \in Seq({builds'[i] : i \in DOMAIN builds'})
        /\ DOMAIN builds' = DOMAIN builds
    <3>1. PICK f : f = builds'
      OBVIOUS
    <3>2. builds \in Seq({builds[b] : b \in DOMAIN builds}) /\ f = [b \in DOMAIN builds |-> f[b]]
      BY <2>1, <3>1 DEF Builds
    <3>3. f \in Seq({f[i] : i \in DOMAIN f}) /\ DOMAIN f = DOMAIN builds
      BY <3>2, SameDomain
    <3> QED  BY <3>1, <3>3
  <2>3. \A b \in DOMAIN builds : IsBuild(rows', verdicts', builds'[b])
    <3> TAKE b \in DOMAIN builds
    <3>1. IsBuild(rows, verdicts, builds[b]) /\ Moved(builds[b], builds'[b])
      BY <2>1 DEF Builds
    <3> QED  BY <1>0, <3>1 DEF IsBuild, Moved, Kept, CoverageOK
  <2> QED  BY <2>1, <2>2, <2>3 DEF Builds, Moved
<1>3. ASSUME NEW c \in Clients, CreateBuild(c)
      PROVE  /\ Builds'
             /\ DOMAIN builds \subseteq DOMAIN builds'
             /\ \A b \in DOMAIN builds : Kept(builds[b], builds'[b])
  <2>1. PICK f : /\ builds' = Append(builds, f) /\ IsBuild(rows, verdicts, f)
                 /\ rows' = rows /\ verdicts' = verdicts
    BY <1>3, Created
  <2>2. builds \in Seq({builds[b] : b \in DOMAIN builds})
    BY DEF Builds
  <2>3. /\ builds' \in Seq({builds'[i] : i \in DOMAIN builds'})
        /\ DOMAIN builds' = DOMAIN builds \cup {Len(builds) + 1}
        /\ \A i \in DOMAIN builds : builds'[i] = builds[i]
        /\ builds'[Len(builds) + 1] = f
    BY <2>1, <2>2, Appended
  <2>4. \A b \in DOMAIN builds : IsBuild(rows, verdicts, builds[b])
    BY DEF Builds
  <2>5. \A b \in DOMAIN builds' : IsBuild(rows', verdicts', builds'[b])
    BY <2>1, <2>3, <2>4
  <2> QED  BY <2>3, <2>5 DEF Builds, Kept
<1> QED  BY <1>1, <1>2, <1>3, BuildsOrNot

-----------------------------------------------------------------------------
(* Clients.                                                                *)

\* What is known of a client when rows and builds were added meanwhile.
ClientOK(rs, vs, bs, me) ==
    /\ me.pc = "creating" =>
           /\ me.request \in Requests
           /\ me.rows \subseteq rs
           /\ me.verdicts \in Seq(Verdicts)
           /\ Len(me.verdicts) <= Len(vs)
           /\ me.builds \subseteq DOMAIN bs
    /\ me.pc = "answered" =>
           /\ me.answer \in DOMAIN bs
           /\ bs[me.answer].request = me.request

\* An answer of the API.
LEMMA AnswerIs ==
    ASSUME Client, NEW c \in Clients, NEW pc, NEW b, Answer(c, pc, b)
    PROVE  /\ client' = [k \in Clients |-> client'[k]]
           /\ \A k \in Clients \ {c} : client'[k] = client[k]
           /\ client'[c].pc = pc /\ client'[c].answer = b
           /\ client'[c].request = client[c].request
<1>1. PICK r : r = client[c].request
  OBVIOUS
<1>2. PICK me : me = [IdleClient EXCEPT !.pc = pc, !.request = r, !.answer = b]
  OBVIOUS
<1>3. client' = [client EXCEPT ![c] = me] /\ client = [k \in Clients |-> client[k]]
  BY <1>1, <1>2 DEF Answer, Client
<1>4. me.pc = pc /\ me.answer = b /\ me.request = r
  BY <1>2 DEF IdleClient
<1> QED  BY <1>1, <1>3, <1>4

LEMMA SnapshotIs ==
    ASSUME Client, Store, NEW c \in Clients, NEW req \in Requests, NEW n, Snapshot(c, req, n)
    PROVE  /\ client' = [k \in Clients |-> client'[k]]
           /\ \A k \in Clients \ {c} : client'[k] = client[k]
           /\ ClientOK(rows, verdicts, builds, client'[c]) /\ client'[c].pc = "creating"
<1>1. PICK me : me = [pc |-> "creating", request |-> req, rows |-> rows, verdicts |-> verdicts,
                      builds |-> DOMAIN builds, tries |-> n, answer |-> 0]
  OBVIOUS
<1>2. client' = [client EXCEPT ![c] = me] /\ client = [k \in Clients |-> client[k]]
  BY <1>1 DEF Snapshot, Client
<1>3. ClientOK(rows, verdicts, builds, me) /\ me.pc = "creating"
  BY <1>1 DEF ClientOK, Store
<1> QED  BY <1>2, <1>3

LEMMA ClientStep ==
    ASSUME IInv, [Next]_vars
    PROVE  Client'
<1> USE DEF IInv
<1>0. /\ rows \subseteq rows' /\ DOMAIN builds \subseteq DOMAIN builds'
      /\ Len(verdicts) <= Len(verdicts') /\ Len(verdicts) \in Nat /\ Len(verdicts') \in Nat
      /\ \A b \in DOMAIN builds : builds'[b].request = builds[b].request
  BY StoreStep, BuildsStep DEF Kept, Extends
<1>1. /\ client = [c \in Clients |-> client[c]]
      /\ \A c \in Clients : ClientOK(rows, verdicts, builds, client[c])
      /\ \A b \in DOMAIN builds : \E c \in Clients :
             client[c].pc = "answered" /\ client[c].answer = b
      /\ \A a, b \in DOMAIN builds : builds[a].request.key = builds[b].request.key => a = b
  BY DEF Client, ClientOK
<1>2. \A me : ClientOK(rows, verdicts, builds, me) => ClientOK(rows', verdicts', builds', me)
  <2> TAKE me
  <2>1. me.verdicts \in Seq(Verdicts) => Len(me.verdicts) \in Nat
    OBVIOUS
  <2> QED  BY <1>0, <2>1 DEF ClientOK
<1>3. DOMAIN builds \subseteq Nat
  BY DEF Builds
\* A step that adds no build answers at most a client that was asking.
<1>4. ASSUME NEW c \in Clients, DOMAIN builds' = DOMAIN builds,
             client' = [k \in Clients |-> client'[k]],
             \A k \in Clients \ {c} : client'[k] = client[k],
             client'[c] = client[c] \/
                 (client[c].pc # "answered" /\ ClientOK(rows', verdicts', builds', client'[c]))
      PROVE  Client'
  <2>1. \A k \in Clients : ClientOK(rows', verdicts', builds', client'[k])
    BY <1>1, <1>2, <1>4
  <2>2. \A b \in DOMAIN builds' : \E k \in Clients :
            client'[k].pc = "answered" /\ client'[k].answer = b
    BY <1>1, <1>4
  <2>3. \A a, b \in DOMAIN builds' : builds'[a].request.key = builds'[b].request.key => a = b
    BY <1>0, <1>1, <1>4
  <2> QED  BY <1>4, <2>1, <2>2, <2>3 DEF Client, ClientOK
<1>5. ASSUME NEW c \in Clients, NEW req \in Requests, BeginCreate(c, req) PROVE Client'
  <2>1. Snapshot(c, req, 1) /\ client[c].pc # "answered" /\ UNCHANGED <<rows, verdicts, builds>>
    BY <1>5 DEF BeginCreate, store
  <2> QED  BY <1>4, <2>1, SnapshotIs
<1>6. ASSUME NEW c \in Clients, ReturnExisting(c) PROVE Client'
  <2>1. PICK found : found = BuildsOf(client[c].request.key, client[c].builds)
    OBVIOUS
  <2>2. PICK b : b = Min(found)
    OBVIOUS
  <2>3. /\ client[c].pc = "creating" /\ UNCHANGED <<rows, verdicts, builds>>
        /\ found # {} /\ found \subseteq DOMAIN builds
    BY <1>1, <1>6, <2>1 DEF ReturnExisting, store, BuildsOf, ClientOK
  <2>4. b \in DOMAIN builds
    BY <1>3, <2>2, <2>3, MinIn
  <2>5. CASE builds[b].request = client[c].request /\ Answer(c, "answered", b)
    <3>1. /\ client' = [k \in Clients |-> client'[k]]
          /\ \A k \in Clients \ {c} : client'[k] = client[k]
          /\ client'[c].pc = "answered" /\ client'[c].answer = b
          /\ client'[c].request = client[c].request
      BY <2>5, AnswerIs
    <3>2. ClientOK(rows', verdicts', builds', client'[c])
      BY <2>3, <2>4, <2>5, <3>1 DEF ClientOK
    <3> QED  BY <1>4, <2>3, <3>1, <3>2
  <2>6. CASE Answer(c, "conflict", 0)
    <3>1. /\ client' = [k \in Clients |-> client'[k]]
          /\ \A k \in Clients \ {c} : client'[k] = client[k]
          /\ client'[c].pc = "conflict"
      BY <2>6, AnswerIs
    <3>2. ClientOK(rows', verdicts', builds', client'[c])
      BY <3>1 DEF ClientOK
    <3> QED  BY <1>4, <2>3, <3>1, <3>2
  <2> QED  BY <1>6, <2>1, <2>2, <2>5, <2>6 DEF ReturnExisting
<1>7. ASSUME NEW c \in Clients, CreateRaced(c) PROVE Client'
  <2>1. /\ client[c].pc = "creating" /\ UNCHANGED <<rows, verdicts, builds>>
        /\ \/ Snapshot(c, client[c].request, client[c].tries + 1)
           \/ Answer(c, "failed", 0)
    BY <1>7 DEF CreateRaced, store
  <2>2. client[c].request \in Requests
    BY <1>1, <2>1 DEF ClientOK
  <2>3. CASE Snapshot(c, client[c].request, client[c].tries + 1)
    <3>1. PICK n : n = client[c].tries + 1
      OBVIOUS
    <3>2. PICK r : r = client[c].request
      OBVIOUS
    <3>3. Snapshot(c, r, n) /\ r \in Requests
      BY <2>2, <2>3, <3>1, <3>2
    <3> QED  BY <1>4, <2>1, <3>3, SnapshotIs
  <2>4. CASE Answer(c, "failed", 0)
    <3>1. /\ client' = [k \in Clients |-> client'[k]]
          /\ \A k \in Clients \ {c} : client'[k] = client[k]
          /\ client'[c].pc = "failed"
      BY <2>4, AnswerIs
    <3>2. ClientOK(rows', verdicts', builds', client'[c])
      BY <3>1 DEF ClientOK
    <3> QED  BY <1>4, <2>1, <3>1, <3>2
  <2> QED  BY <2>1, <2>3, <2>4
<1>8. ASSUME NEW c \in Clients, CreateBuild(c) PROVE Client'
  <2>1. PICK f : /\ builds' = Append(builds, f)
                 /\ f.request = client[c].request
                 /\ \A b \in DOMAIN builds : builds[b].request.key # f.request.key
    BY <1>8, Created
  <2>2. /\ DOMAIN builds' = DOMAIN builds \cup {Len(builds) + 1}
        /\ Len(builds) + 1 \notin DOMAIN builds
        /\ \A i \in DOMAIN builds : builds'[i] = builds[i]
        /\ builds'[Len(builds) + 1] = f
    BY <2>1, Appended DEF Builds
  <2>3. PICK b : b = Len(builds) + 1
    OBVIOUS
  <2>4. client[c].pc = "creating" /\ Answer(c, "answered", b)
    BY <1>8, <2>3 DEF CreateBuild
  <2>5. /\ client' = [k \in Clients |-> client'[k]]
        /\ \A k \in Clients \ {c} : client'[k] = client[k]
        /\ client'[c].pc = "answered" /\ client'[c].answer = b
        /\ client'[c].request = client[c].request
    BY <2>4, AnswerIs
  <2>6. \A k \in Clients : ClientOK(rows', verdicts', builds', client'[k])
    <3>1. ClientOK(rows', verdicts', builds', client'[c])
      BY <2>1, <2>2, <2>3, <2>5 DEF ClientOK
    <3> QED  BY <1>1, <1>2, <2>5, <3>1
  <2>7. \A a \in DOMAIN builds' : \E k \in Clients :
            client'[k].pc = "answered" /\ client'[k].answer = a
    <3> TAKE a \in DOMAIN builds'
    <3>1. CASE a = b
      BY <2>5, <3>1
    <3>2. CASE a \in DOMAIN builds
      BY <1>1, <2>4, <2>5, <3>2
    <3> QED  BY <2>2, <2>3, <3>1, <3>2
  <2>8. \A x, y \in DOMAIN builds' : builds'[x].request.key = builds'[y].request.key => x = y
    BY <1>1, <2>1, <2>2
  <2> QED  BY <2>5, <2>6, <2>7, <2>8 DEF Client, ClientOK
<1>9. CASE UNCHANGED client /\ ~\E c \in Clients : CreateBuild(c)
  <2>1. DOMAIN builds' = DOMAIN builds
    BY <1>9, BuildsOrNot, MovingMoves
  <2>2. \A k \in Clients : ClientOK(rows', verdicts', builds', client'[k])
    BY <1>1, <1>2, <1>9
  <2>3. \A a, b \in DOMAIN builds' : builds'[a].request.key = builds'[b].request.key => a = b
    BY <1>0, <1>1, <2>1
  <2> QED  BY <1>1, <1>9, <2>1, <2>2, <2>3 DEF Client, ClientOK
<1>10. \/ UNCHANGED client
       \/ \E c \in Clients : \/ \E req \in Requests : BeginCreate(c, req)
                             \/ ReturnExisting(c) \/ CreateBuild(c) \/ CreateRaced(c)
  BY DEF Next, vars, Insert, Commit, Judge, Publication, Claim, SweepOnly, Stage,
         InsertVersion, Publish, MarkFailed, ScheduleRetry, LeaseLost, Fault, Crash,
         Lapse, FirstPage, NextPage
<1> QED  BY <1>5, <1>6, <1>7, <1>8, <1>9, <1>10

-----------------------------------------------------------------------------
(* Workers.                                                                *)

WorkerOK(rs, vs, bs, me) ==
    /\ DOMAIN me = WorkerFields
    /\ me.pc # "idle" => me.build \in DOMAIN bs
    /\ me.pc \in {"staged", "inserted"} => Good(rs, vs, bs[me.build], me.members)

\* What a worker knows survives a step of another actor.
LEMMA WorkerKept ==
    ASSUME IInv, [Next]_vars
    PROVE  \A me : WorkerOK(rows, verdicts, builds, me) => WorkerOK(rows', verdicts', builds', me)
<1> USE DEF IInv
<1>1. /\ Extends(rows, verdicts, rows', verdicts') /\ DOMAIN builds \subseteq DOMAIN builds'
      /\ \A b \in DOMAIN builds : Kept(builds[b], builds'[b])
      /\ \A b \in DOMAIN builds : builds[b].event \in Nat /\ builds[b].event <= Len(verdicts)
  BY StoreStep, BuildsStep DEF Builds, IsBuild
<1> TAKE me
<1>2. ASSUME WorkerOK(rows, verdicts, builds, me), me.pc \in {"staged", "inserted"}
      PROVE  Good(rows', verdicts', builds'[me.build], me.members)
  <2>1. PICK f : f = builds[me.build]
    OBVIOUS
  <2>2. PICK g : g = builds'[me.build]
    OBVIOUS
  <2>3. PICK ms : ms = me.members
    OBVIOUS
  <2>4. PICK ts, us : ts = rows' /\ us = verdicts'
    OBVIOUS
  <2>5. /\ Good(rows, verdicts, f, ms) /\ Kept(f, g) /\ Extends(rows, verdicts, ts, us)
        /\ f.event \in Nat /\ f.event <= Len(verdicts)
    BY <1>1, <1>2, <2>1, <2>2, <2>3, <2>4 DEF WorkerOK
  <2>6. Good(ts, us, g, ms)
    BY <2>5, GoodStays DEF Kept
  <2> QED  BY <2>2, <2>3, <2>4, <2>6
<1> QED  BY <1>1, <1>2 DEF WorkerOK

LEMMA WorkerStep ==
    ASSUME IInv, [Next]_vars
    PROVE  Worker'
<1> USE DEF IInv
<1>1. /\ worker = [w \in Workers |-> worker[w]]
      /\ \A w \in Workers : WorkerOK(rows, verdicts, builds, worker[w])
  BY DEF Worker, WorkerOK
<1>2. \A me : WorkerOK(rows, verdicts, builds, me) => WorkerOK(rows', verdicts', builds', me)
  BY WorkerKept
<1>3. ASSUME NEW w \in Workers, NEW me, worker' = [worker EXCEPT ![w] = me],
             WorkerOK(rows', verdicts', builds', me)
      PROVE  Worker'
  <2>1. /\ worker' = [o \in Workers |-> worker'[o]]
        /\ \A o \in Workers : WorkerOK(rows', verdicts', builds', worker'[o])
    BY <1>1, <1>2, <1>3
  <2> QED  BY <2>1 DEF Worker, WorkerOK
<1>4. CASE UNCHANGED worker
  <2>1. \A o \in Workers : WorkerOK(rows', verdicts', builds', worker'[o])
    BY <1>1, <1>2, <1>4
  <2> QED  BY <1>1, <1>4, <2>1 DEF Worker, WorkerOK
<1>5. WorkerOK(rows', verdicts', builds', IdleWorker)
  BY DEF WorkerOK, IdleWorker, WorkerFields
<1>6. ASSUME NEW w \in Workers, Claim(w) PROVE Worker'
  <2>1. PICK b : b = Min({k \in DOMAIN builds : Claimable(k)})
    OBVIOUS
  <2>2. b \in DOMAIN builds
    <3> DEFINE S == {k \in DOMAIN builds : Claimable(k)}
    <3>1. S \in SUBSET Nat /\ S # {} /\ S \subseteq DOMAIN builds
      BY <1>6 DEF Claim, Builds
    <3>2. b = Min(S)
      BY <2>1
    <3> HIDE DEF S
    <3> QED  BY <3>1, <3>2, MinIn
  <2>3. PICK g : g = builds[b].gen + 1
    OBVIOUS
  <2>4. PICK me : me = [IdleWorker EXCEPT !.pc = "claimed", !.build = b, !.gen = g]
    OBVIOUS
  <2>5. worker' = [worker EXCEPT ![w] = me]
    BY <1>6, <2>1, <2>3, <2>4 DEF Claim
  <2>6. WorkerOK(rows', verdicts', builds', me)
    BY <2>2, <2>4, BuildsStep DEF WorkerOK, IdleWorker, WorkerFields
  <2> QED  BY <1>3, <2>5, <2>6
<1>7. ASSUME NEW w \in Workers, Stage(w) PROVE Worker'
  <2>1. PICK f : f = builds[worker[w].build]
    OBVIOUS
  <2>2. PICK members : members = Staged(rows, verdicts, f)
    OBVIOUS
  <2>3. worker[w].pc = "claimed" /\ worker[w].build \in DOMAIN builds /\ IsBuild(rows, verdicts, f)
    BY <1>1, <1>7, <2>1 DEF Stage, WorkerOK, Builds
  <2>4. CASE f.request.policy = "fail" /\ Blocked(f, members)
    <3>1. PICK me : me = [worker[w] EXCEPT !.pc = "blocked"]
      OBVIOUS
    <3>2. worker' = [worker EXCEPT ![w] = me]
      BY <1>1, <1>7, <2>1, <2>2, <2>4, <3>1 DEF Stage
    <3>3. WorkerOK(rows, verdicts, builds, me)
      BY <1>1, <2>3, <3>1 DEF WorkerOK, WorkerFields
    <3> QED  BY <1>2, <1>3, <3>2, <3>3
  <2>5. CASE ~(f.request.policy = "fail" /\ Blocked(f, members))
    <3>1. PICK me : me = [worker[w] EXCEPT !.pc = "staged", !.members = members]
      OBVIOUS
    <3>2. worker' = [worker EXCEPT ![w] = me]
      BY <1>1, <1>7, <2>1, <2>2, <2>5, <3>1 DEF Stage
    <3>3. Good(rows, verdicts, f, members)
      BY <2>2, <2>3, <2>5, StagedIsGood
    <3>4. WorkerOK(rows, verdicts, builds, me)
      BY <1>1, <2>1, <2>3, <3>1, <3>3 DEF WorkerOK, WorkerFields
    <3> QED  BY <1>2, <1>3, <3>2, <3>4
  <2> QED  BY <2>4, <2>5
<1>8. ASSUME NEW w \in Workers, InsertVersion(w) PROVE Worker'
  <2>1. PICK v : worker' = [worker EXCEPT ![w].pc = "inserted", ![w].version = v]
    BY <1>8 DEF InsertVersion
  <2>2. PICK me : me = [worker[w] EXCEPT !.pc = "inserted", !.version = v]
    OBVIOUS
  <2>3. worker' = [worker EXCEPT ![w] = me]
    BY <1>1, <2>1, <2>2
  <2>4. worker[w].pc = "staged"
    BY <1>8 DEF InsertVersion
  <2>5. WorkerOK(rows, verdicts, builds, me)
    BY <1>1, <2>2, <2>4 DEF WorkerOK, WorkerFields
  <2> QED  BY <1>2, <1>3, <2>3, <2>5
<1>9. ASSUME NEW w \in Workers, Fault(w) PROVE Worker'
  <2>1. PICK me : me = [worker[w] EXCEPT !.pc = "retrying"]
    OBVIOUS
  <2>2. worker' = [worker EXCEPT ![w] = me] /\ worker[w].pc # "idle"
    BY <1>1, <1>9, <2>1 DEF Fault
  <2>3. WorkerOK(rows, verdicts, builds, me)
    BY <1>1, <2>1, <2>2 DEF WorkerOK, WorkerFields
  <2> QED  BY <1>2, <1>3, <2>2, <2>3
<1>10. ASSUME NEW w \in Workers,
              Publish(w) \/ MarkFailed(w) \/ ScheduleRetry(w) \/ LeaseLost(w) \/ Crash(w)
       PROVE  Worker'
  <2>1. worker' = [worker EXCEPT ![w] = IdleWorker]
    BY <1>10 DEF Publish, MarkFailed, ScheduleRetry, LeaseLost, Crash
  <2> QED  BY <1>3, <1>5, <2>1
<1>11. \/ UNCHANGED worker
       \/ \E w \in Workers : \/ Claim(w) \/ Stage(w) \/ InsertVersion(w) \/ Fault(w)
                             \/ Publish(w) \/ MarkFailed(w) \/ ScheduleRetry(w)
                             \/ LeaseLost(w) \/ Crash(w)
  BY DEF Next, vars, Insert, Commit, Judge, BeginCreate, ReturnExisting, CreateBuild,
         CreateRaced, Publication, SweepOnly, Lapse, FirstPage, NextPage
<1> QED  BY <1>4, <1>6, <1>7, <1>8, <1>9, <1>10, <1>11

-----------------------------------------------------------------------------
(* Versions.                                                               *)

\* The content of a publication is fixed once it is staged.
LEMMA ContentKept ==
    ASSUME IInv, [Next]_vars, NEW o \in Workers, worker[o].pc = "inserted",
           worker'[o].build = worker[o].build, worker'[o].members = worker[o].members
    PROVE  Content(o)' = Content(o)
<1>1. worker[o].build \in DOMAIN builds
  BY DEF IInv, Worker
<1>2. Kept(builds[worker[o].build], builds'[worker[o].build])
  BY <1>1, BuildsStep
<1> QED  BY <1>2 DEF Content, ContentOf, Kept

LEMMA VersionStep ==
    ASSUME IInv, [Next]_vars
    PROVE  Version' /\ versions \subseteq versions'
<1> USE DEF IInv
<1>1. /\ nextVersion \in Nat
      /\ \A v \in versions : /\ v.id \in Nat /\ v.id < nextVersion
                             /\ v = [id |-> v.id, content |-> v.content]
      /\ \A v, u \in versions : (v.content = u.content \/ v.id = u.id) => v = u
      /\ \A w \in Workers : worker[w].pc = "inserted" =>
             /\ worker[w].version \in Nat /\ worker[w].version < nextVersion
             /\ \A v \in versions : v.id = worker[w].version <=> v.content = Content(w)
      /\ \A w, o \in Workers :
             (w # o /\ worker[w].pc = "inserted" /\ worker[o].pc = "inserted") =>
                 worker[w].version # worker[o].version /\ Content(w) # Content(o)
  BY DEF Version, OneVersionPerContent
<1>2. worker = [w \in Workers |-> worker[w]] /\ \A w \in Workers : DOMAIN worker[w] = WorkerFields
  BY DEF Worker
\* A step that seals and inserts no version.
<1>3. ASSUME UNCHANGED <<versions, nextVersion>>,
             \A w \in Workers : worker'[w].pc = "inserted" => worker'[w] = worker[w]
      PROVE  Version' /\ versions \subseteq versions'
  <2>1. \A w \in Workers : worker'[w].pc = "inserted" =>
            /\ worker[w].pc = "inserted" /\ worker'[w].version = worker[w].version
            /\ Content(w)' = Content(w)
    BY <1>3, ContentKept
  <2>2. \A w \in Workers : worker'[w].pc = "inserted" =>
            /\ worker'[w].version \in Nat /\ worker'[w].version < nextVersion'
            /\ \A v \in versions' : v.id = worker'[w].version <=> v.content = Content(w)'
    BY <1>1, <1>3, <2>1
  <2>3. \A w, o \in Workers :
            (w # o /\ worker'[w].pc = "inserted" /\ worker'[o].pc = "inserted") =>
                worker'[w].version # worker'[o].version /\ Content(w)' # Content(o)'
    BY <1>1, <2>1
  <2> QED  BY <1>1, <1>3, <2>2, <2>3 DEF Version, OneVersionPerContent
<1>4. ASSUME NEW w \in Workers, InsertVersion(w) PROVE Version' /\ versions \subseteq versions'
  <2>1. PICK C : C = Content(w)
    OBVIOUS
  <2>2. PICK same : same = {v \in versions : v.content = C}
    OBVIOUS
  <2>3. PICK n : n = IF same = {} THEN nextVersion ELSE (CHOOSE v \in same : TRUE).id
    OBVIOUS
  <2>4. /\ worker[w].pc = "staged"
        /\ \A o \in Workers \ {w} : worker[o].pc = "inserted" => Content(o) # C
        /\ worker' = [worker EXCEPT ![w].pc = "inserted", ![w].version = n]
        /\ nextVersion' = nextVersion + 1
        /\ UNCHANGED <<builds, versions>>
    BY <1>4, <2>1, <2>2, <2>3 DEF InsertVersion
  <2>5. /\ worker'[w].pc = "inserted" /\ worker'[w].version = n
        /\ worker'[w].build = worker[w].build /\ worker'[w].members = worker[w].members
        /\ \A o \in Workers \ {w} : worker'[o] = worker[o]
    BY <1>2, <2>4 DEF WorkerFields
  <2>6. Content(w)' = C
    BY <2>1, <2>4, <2>5 DEF Content
  <2>7. \A o \in Workers \ {w} : worker[o].pc = "inserted" => Content(o)' = Content(o)
    BY <2>5, ContentKept
  <2>8. /\ n \in Nat /\ n < nextVersion + 1
        /\ \A v \in versions : v.id = n <=> v.content = C
        /\ \A o \in Workers \ {w} : worker[o].pc = "inserted" => worker[o].version # n
    <3>1. CASE same = {}
      <4>1. n = nextVersion /\ \A v \in versions : v.content # C
        BY <2>2, <2>3, <3>1
      <4>2. \A k \in Nat : k < nextVersion => k # n
        BY <1>1, <4>1
      <4> QED  BY <1>1, <4>1, <4>2
    <3>2. CASE same # {}
      <4>1. PICK v0 \in same : n = v0.id
        BY <2>3, <3>2
      <4>2. v0 \in versions /\ v0.content = C
        BY <2>2, <4>1
      <4>3. n \in Nat /\ n < nextVersion
        BY <1>1, <4>1, <4>2
      <4>4. \A v \in versions : v.id = n <=> v.content = C
        BY <1>1, <4>1, <4>2
      <4>5. \A o \in Workers \ {w} : worker[o].pc = "inserted" => worker[o].version # n
        BY <1>1, <2>4, <4>1, <4>2
      <4> QED  BY <1>1, <4>3, <4>4, <4>5
    <3> QED  BY <3>1, <3>2
  <2>9. nextVersion' \in Nat /\ \A k \in Nat : k < nextVersion => k < nextVersion'
    BY <1>1, <2>4
  <2>10. \A o \in Workers : worker'[o].pc = "inserted" =>
            /\ worker'[o].version \in Nat /\ worker'[o].version < nextVersion'
            /\ \A v \in versions' : v.id = worker'[o].version <=> v.content = Content(o)'
    <3> TAKE o \in Workers
    <3>1. CASE o = w
      BY <2>4, <2>5, <2>6, <2>8, <3>1
    <3>2. CASE o # w
      <4>1. worker[o].pc = "inserted" =>
                /\ worker[o].version \in Nat /\ worker[o].version < nextVersion
                /\ \A v \in versions : v.id = worker[o].version <=> v.content = Content(o)
        BY <1>1
      <4> QED  BY <2>4, <2>5, <2>7, <2>9, <3>2, <4>1
    <3> QED  BY <3>1, <3>2
  <2>11. \A p, o \in Workers :
            (p # o /\ worker'[p].pc = "inserted" /\ worker'[o].pc = "inserted") =>
                worker'[p].version # worker'[o].version /\ Content(p)' # Content(o)'
    <3>1. \A o \in Workers \ {w} : worker'[o].pc = "inserted" =>
              worker'[w].version # worker'[o].version /\ C # Content(o)'
      BY <2>4, <2>5, <2>7, <2>8
    <3>2. \A p, o \in Workers \ {w} :
            (p # o /\ worker'[p].pc = "inserted" /\ worker'[o].pc = "inserted") =>
                worker'[p].version # worker'[o].version /\ Content(p)' # Content(o)'
      BY <1>1, <2>5, <2>7
    <3> TAKE p, o \in Workers
    <3>3. CASE p = w
      BY <2>6, <3>1, <3>3
    <3>4. CASE o = w
      BY <2>6, <3>1, <3>4
    <3> QED  BY <3>2, <3>3, <3>4
  <2> QED  BY <1>1, <2>4, <2>9, <2>10, <2>11 DEF Version, OneVersionPerContent
<1>5. ASSUME NEW w \in Workers, Publish(w) PROVE Version' /\ versions \subseteq versions'
  <2>1. PICK C : C = Content(w)
    OBVIOUS
  <2>2. PICK n : n = worker[w].version
    OBVIOUS
  <2>3. PICK v0 : v0 = [id |-> n, content |-> C]
    OBVIOUS
  <2>4. /\ worker[w].pc = "inserted" /\ versions' = versions \cup {v0}
        /\ worker' = [worker EXCEPT ![w] = IdleWorker] /\ nextVersion' = nextVersion
    BY <1>5, <2>1, <2>2, <2>3 DEF Publish, SealedVersion
  <2>5. worker'[w].pc = "idle" /\ \A o \in Workers \ {w} : worker'[o] = worker[o]
    BY <1>2, <2>4 DEF IdleWorker
  <2>6. \A o \in Workers \ {w} : worker[o].pc = "inserted" => Content(o)' = Content(o)
    BY <2>5, ContentKept
  <2>7. /\ n \in Nat /\ n < nextVersion /\ v0.id = n /\ v0.content = C
        /\ \A v \in versions : v.id = n <=> v.content = C
        /\ \A o \in Workers \ {w} : worker[o].pc = "inserted" =>
               worker[o].version # n /\ Content(o) # C
    BY <1>1, <2>1, <2>2, <2>3, <2>4
  <2>8. \A v \in versions' : /\ v.id \in Nat /\ v.id < nextVersion'
                            /\ v = [id |-> v.id, content |-> v.content]
    BY <1>1, <2>3, <2>4, <2>7
  <2>9. \A v, u \in versions' : (v.content = u.content \/ v.id = u.id) => v = u
    <3>1. \A u \in versions : (u.content = C \/ u.id = n) => u = v0
      BY <1>1, <2>3, <2>7
    <3> QED  BY <1>1, <2>4, <2>7, <3>1
  <2>10. \A o \in Workers : worker'[o].pc = "inserted" =>
            /\ o # w /\ worker'[o] = worker[o] /\ Content(o)' = Content(o)
    BY <2>5, <2>6
  <2>11. \A o \in Workers : worker'[o].pc = "inserted" =>
            /\ worker'[o].version \in Nat /\ worker'[o].version < nextVersion'
            /\ \A v \in versions' : v.id = worker'[o].version <=> v.content = Content(o)'
    BY <1>1, <2>4, <2>7, <2>10
  <2>12. \A p, o \in Workers :
            (p # o /\ worker'[p].pc = "inserted" /\ worker'[o].pc = "inserted") =>
                worker'[p].version # worker'[o].version /\ Content(p)' # Content(o)'
    BY <1>1, <2>10
  <2> QED  BY <1>1, <2>4, <2>8, <2>9, <2>11, <2>12 DEF Version, OneVersionPerContent
<1>6. \/ \E w \in Workers : InsertVersion(w) \/ Publish(w)
      \/ UNCHANGED <<versions, nextVersion>>
  BY DEF Next, vars, Insert, Commit, Judge, BeginCreate, ReturnExisting, CreateBuild,
         CreateRaced, Publication, Claim, SweepOnly, Stage, MarkFailed, ScheduleRetry,
         LeaseLost, Fault, Crash, Lapse, FirstPage, NextPage
<1>7. ASSUME ~\E w \in Workers : InsertVersion(w) \/ Publish(w)
      PROVE  \A w \in Workers : worker'[w].pc = "inserted" => worker'[w] = worker[w]
  <2>1. CASE UNCHANGED worker
    BY <2>1
  <2>2. ASSUME NEW w \in Workers, NEW me, worker' = [worker EXCEPT ![w] = me], me.pc # "inserted"
        PROVE  \A o \in Workers : worker'[o].pc = "inserted" => worker'[o] = worker[o]
    BY <1>2, <2>2
  <2>3. IdleWorker.pc = "idle"
    BY DEF IdleWorker
  <2>4. ASSUME NEW w \in Workers, Claim(w)
        PROVE  \E me : worker' = [worker EXCEPT ![w] = me] /\ me.pc # "inserted"
    <3>1. PICK b, g : worker' = [worker EXCEPT ![w] =
              [IdleWorker EXCEPT !.pc = "claimed", !.build = b, !.gen = g]]
      BY <2>4 DEF Claim
    <3>2. PICK me : me = [IdleWorker EXCEPT !.pc = "claimed", !.build = b, !.gen = g]
      OBVIOUS
    <3>3. me.pc = "claimed"
      BY <3>2 DEF IdleWorker
    <3> QED  BY <3>1, <3>2, <3>3
  <2>5. ASSUME NEW w \in Workers, Stage(w)
        PROVE  \E me : worker' = [worker EXCEPT ![w] = me] /\ me.pc # "inserted"
    <3>1. PICK members :
              \/ worker' = [worker EXCEPT ![w].pc = "blocked"]
              \/ worker' = [worker EXCEPT ![w].pc = "staged", ![w].members = members]
      BY <2>5 DEF Stage
    <3>2. CASE worker' = [worker EXCEPT ![w].pc = "blocked"]
      <4>1. PICK me : me = [worker[w] EXCEPT !.pc = "blocked"]
        OBVIOUS
      <4>2. worker' = [worker EXCEPT ![w] = me] /\ me.pc = "blocked"
        BY <1>2, <3>2, <4>1 DEF WorkerFields
      <4> QED  BY <4>2
    <3>3. CASE worker' = [worker EXCEPT ![w].pc = "staged", ![w].members = members]
      <4>1. PICK me : me = [worker[w] EXCEPT !.pc = "staged", !.members = members]
        OBVIOUS
      <4>2. worker' = [worker EXCEPT ![w] = me] /\ me.pc = "staged"
        BY <1>2, <3>3, <4>1 DEF WorkerFields
      <4> QED  BY <4>2
    <3> QED  BY <3>1, <3>2, <3>3
  <2>6. ASSUME NEW w \in Workers, Fault(w)
        PROVE  \E me : worker' = [worker EXCEPT ![w] = me] /\ me.pc # "inserted"
    <3>1. PICK me : me = [worker[w] EXCEPT !.pc = "retrying"]
      OBVIOUS
    <3>2. worker' = [worker EXCEPT ![w] = me] /\ me.pc = "retrying"
      BY <1>2, <2>6, <3>1 DEF Fault, WorkerFields
    <3> QED  BY <3>2
  <2>7. ASSUME NEW w \in Workers, MarkFailed(w) \/ ScheduleRetry(w) \/ LeaseLost(w) \/ Crash(w)
        PROVE  \E me : worker' = [worker EXCEPT ![w] = me] /\ me.pc # "inserted"
    BY <2>3, <2>7 DEF MarkFailed, ScheduleRetry, LeaseLost, Crash
  <2>8. \/ UNCHANGED worker
        \/ \E w \in Workers : \/ Claim(w) \/ Stage(w) \/ Fault(w) \/ MarkFailed(w)
                              \/ ScheduleRetry(w) \/ LeaseLost(w) \/ Crash(w)
    BY <1>7 DEF Next, vars, Insert, Commit, Judge, BeginCreate, ReturnExisting, CreateBuild,
         CreateRaced, Publication, SweepOnly, Lapse, FirstPage, NextPage
  <2> QED  BY <2>1, <2>2, <2>4, <2>5, <2>6, <2>7, <2>8
<1> QED  BY <1>3, <1>4, <1>5, <1>6, <1>7

\* A build succeeds by being published, in no other way.
LEMMA OnlyPublishSucceeds ==
    ASSUME IInv, [Next]_vars, NEW b \in DOMAIN builds', builds'[b].status = "succeeded",
           ~(b \in DOMAIN builds /\ builds[b].status = "succeeded")
    PROVE  \E w \in Workers : Publish(w) /\ b = worker[w].build /\ b \in DOMAIN builds
<1> USE DEF IInv
<1>0. /\ \A k \in DOMAIN builds : IsBuild(rows, verdicts, builds[k])
      /\ DOMAIN builds \subseteq Nat
      /\ builds = [k \in DOMAIN builds |-> builds[k]]
  BY DEF Builds
<1>1. ~UNCHANGED builds
  OBVIOUS
<1>2. ASSUME NEW c \in Clients, CreateBuild(c) PROVE FALSE
  <2>1. PICK f : builds' = Append(builds, f) /\ f.status = "pending"
    BY <1>2, Created
  <2>2. /\ DOMAIN builds' = DOMAIN builds \cup {Len(builds) + 1}
        /\ \A i \in DOMAIN builds : builds'[i] = builds[i]
        /\ builds'[Len(builds) + 1] = f
    BY <2>1, Appended DEF Builds
  <2> QED  BY <2>1, <2>2
<1>3. Moving
  BY <1>1, <1>2, BuildsOrNot
<1>4. b \in DOMAIN builds /\ builds[b].status # "succeeded"
  BY <1>3, MovingMoves
<1>5. \A k \in DOMAIN builds : Swept[k].status = "succeeded" => builds[k].status = "succeeded"
  BY <1>0 DEF Swept, DeadLettered, IsBuild, BuildFields
<1>6. ASSUME NEW w \in Workers, Claim(w) PROVE FALSE
  <2>1. PICK k : k = Min({j \in DOMAIN builds : Claimable(j)})
    OBVIOUS
  <2>2. builds' = [Swept EXCEPT ![k] =
            [builds[k] EXCEPT !.status = "running", !.owner = w, !.live = TRUE,
                              !.gen = builds[k].gen + 1, !.attempts = @ + 1]]
    BY <1>6, <2>1 DEF Claim
  <2>3. CASE b = k
    <3>1. PICK g : g = [builds[k] EXCEPT !.status = "running", !.owner = w, !.live = TRUE,
                              !.gen = builds[k].gen + 1, !.attempts = @ + 1]
      OBVIOUS
    <3>2. g.status = "running"
      BY <1>0, <1>4, <2>3, <3>1 DEF IsBuild, BuildFields
    <3>3. DOMAIN Swept = DOMAIN builds
      BY DEF Swept
    <3> QED  BY <1>4, <2>2, <2>3, <3>1, <3>2, <3>3
  <2>4. CASE b # k
    <3>1. DOMAIN Swept = DOMAIN builds
      BY DEF Swept
    <3>2. builds'[b] = Swept[b]
      BY <1>4, <2>2, <2>4, <3>1
    <3> QED  BY <1>4, <1>5, <3>2
  <2> QED  BY <2>3, <2>4
<1>7. ASSUME NEW w \in Workers, SweepOnly(w) PROVE FALSE
  BY <1>4, <1>5, <1>7 DEF SweepOnly
<1>8. ASSUME NEW w \in Workers, MarkFailed(w) \/ ScheduleRetry(w) PROVE FALSE
  <2>1. PICK k : k = worker[w].build
    OBVIOUS
  <2>2. PICK g : builds' = [builds EXCEPT ![k] = g] /\
              \/ g = [builds[k] EXCEPT !.status = "failed", !.owner = None, !.live = FALSE,
                         !.doneGen = worker[w].gen]
              \/ g = [builds[k] EXCEPT !.status = "dead_letter", !.owner = None, !.live = FALSE]
              \/ g = [builds[k] EXCEPT !.status = "retry_wait", !.owner = None, !.live = FALSE]
    BY <1>1, <1>8, <2>1 DEF MarkFailed, ScheduleRetry, DeadLettered
  <2>3. k \in DOMAIN builds => g.status # "succeeded"
    BY <1>0, <2>2 DEF IsBuild, BuildFields
  <2> QED  BY <1>4, <2>2, <2>3
<1>9. ASSUME NEW k \in DOMAIN builds, Lapse(k) PROVE FALSE
  <2>1. builds' = [builds EXCEPT ![k] = [builds[k] EXCEPT !.live = FALSE]]
    BY <1>9 DEF Lapse
  <2> QED  BY <1>0, <1>4, <2>1 DEF IsBuild, BuildFields
<1>10. PICK w \in Workers : Publish(w)
  BY <1>3, <1>6, <1>7, <1>8, <1>9 DEF Moving
<1>11. b = worker[w].build
  <2>1. PICK g : builds' = [builds EXCEPT ![worker[w].build] = g]
    BY <1>10 DEF Publish
  <2> QED  BY <1>4, <2>1
<1> QED  BY <1>4, <1>10, <1>11

LEMMA PublishedStep ==
    ASSUME IInv, [Next]_vars
    PROVE  Published'
<1> USE DEF IInv
<1>1. /\ Extends(rows, verdicts, rows', verdicts') /\ DOMAIN builds \subseteq DOMAIN builds'
      /\ \A b \in DOMAIN builds : Kept(builds[b], builds'[b])
      /\ \A b \in DOMAIN builds : builds[b].event \in Nat /\ builds[b].event <= Len(verdicts)
      /\ versions \subseteq versions'
  BY StoreStep, BuildsStep, VersionStep DEF Builds, IsBuild
<1> SUFFICES ASSUME NEW b \in DOMAIN builds', builds'[b].status = "succeeded"
             PROVE  \E v \in versions' : /\ v.id = builds'[b].version
                                        /\ v.content.coverage = builds'[b].coverage
                                        /\ Good(rows', verdicts', builds'[b], v.content.members)
  BY DEF Published
<1>2. PICK f : f = builds[b]
  OBVIOUS
<1>3. PICK g : g = builds'[b]
  OBVIOUS
<1>4. PICK ts, us : ts = rows' /\ us = verdicts'
  OBVIOUS
<1>5. CASE b \in DOMAIN builds /\ builds[b].status = "succeeded"
  <2>1. PICK v \in versions : /\ v.id = f.version /\ v.content.coverage = f.coverage
                              /\ Good(rows, verdicts, f, v.content.members)
    BY <1>2, <1>5 DEF Published
  <2>2. PICK ms : ms = v.content.members
    OBVIOUS
  <2>3. /\ Kept(f, g) /\ f.status = "succeeded" /\ Extends(rows, verdicts, ts, us)
        /\ Good(rows, verdicts, f, ms) /\ f.event \in Nat /\ f.event <= Len(verdicts)
    BY <1>1, <1>2, <1>3, <1>4, <1>5, <2>1, <2>2
  <2>4. Good(ts, us, g, ms) /\ g.version = f.version /\ g.coverage = f.coverage
    BY <2>3, GoodStays DEF Kept
  <2> QED  BY <1>1, <1>3, <1>4, <2>1, <2>2, <2>4
<1>6. CASE ~(b \in DOMAIN builds /\ builds[b].status = "succeeded")
  <2>1. PICK w \in Workers : Publish(w) /\ b = worker[w].build /\ b \in DOMAIN builds
    BY <1>6, OnlyPublishSucceeds
  <2>2. PICK ms : ms = worker[w].members
    OBVIOUS
  <2>3. PICK v : v = [id |-> worker[w].version, content |-> ContentOf(f, ms)]
    OBVIOUS
  <2>4. v \in versions' /\ worker[w].pc = "inserted"
    BY <1>2, <2>1, <2>2, <2>3 DEF Publish, SealedVersion, Content
  <2>5. v.content.coverage = f.coverage /\ v.content.members = ms
    BY <2>3 DEF ContentOf
  <2>6. builds = [k \in DOMAIN builds |-> builds[k]] /\ DOMAIN f = BuildFields
    BY <1>2, <2>1 DEF Builds, IsBuild
  <2>7. g.version = worker[w].version
    <3>1. PICK h : h = [f EXCEPT !.status = "succeeded", !.owner = None, !.live = FALSE,
                        !.version = worker[w].version, !.doneGen = worker[w].gen]
      OBVIOUS
    <3>2. builds' = [builds EXCEPT ![b] = h]
      BY <1>2, <2>1, <3>1 DEF Publish
    <3>3. h.version = worker[w].version
      BY <2>6, <3>1 DEF BuildFields
    <3> QED  BY <1>3, <2>1, <3>2, <3>3
  <2>8. /\ Good(rows, verdicts, f, ms) /\ Kept(f, g) /\ Extends(rows, verdicts, ts, us)
        /\ f.event \in Nat /\ f.event <= Len(verdicts)
    BY <1>1, <1>2, <1>3, <1>4, <2>1, <2>2, <2>4 DEF Worker
  <2>9. Good(ts, us, g, ms) /\ g.coverage = f.coverage
    BY <2>8, GoodStays DEF Kept
  <2>10. v.id = g.version
    BY <2>3, <2>7
  <2> QED  BY <1>3, <1>4, <2>4, <2>5, <2>9, <2>10
<1> QED  BY <1>5, <1>6

-----------------------------------------------------------------------------
(* Listings.                                                               *)

\* How many of the ids are not below one of them: its place on the pages.
PlaceOf(ids, i) == Cardinality({j \in ids : j >= i})

\* The ids stand one after another, the greatest first.
LEMMA PlacesOnPages ==
    ASSUME NEW ids \in SUBSET Nat, NEW n \in Nat, \A i \in ids : i <= n
    PROVE  /\ Cardinality(ids) \in Nat
           /\ \A i \in ids : PlaceOf(ids, i) \in 1..Cardinality(ids)
           /\ \A m \in 1..Cardinality(ids) : \E i \in ids : PlaceOf(ids, i) = m
           /\ \A i, j \in ids : i > j => PlaceOf(ids, i) < PlaceOf(ids, j)
           /\ \A i, j \in ids : PlaceOf(ids, i) = PlaceOf(ids, j) => i = j
<1> DEFINE R == {p \in ids \X ids : p[1] > p[2]}
<1>1. IsFiniteSet(ids)
  BY FS_BoundedSetOfNaturals
<1>2. \A i, j \in ids : <<i, j>> \in R <=> i > j
  OBVIOUS
<1> HIDE DEF R
<1>3. \A i \in ids : PlaceOf(ids, i) = Place(ids, R, i)
  <2> TAKE i \in ids
  <2> DEFINE A == {j \in ids : <<j, i>> \in R}
             B == {j \in ids : j >= i}
  <2>1. \A j : j \in A <=> j \in ids /\ j > i
    BY <1>2
  <2>2. \A j \in ids : j >= i <=> j > i \/ j = i
    OBVIOUS
  <2>3. \A j : j \in B <=> j \in ids /\ j >= i
    OBVIOUS
  <2>4. Place(ids, R, i) = Cardinality(A) + 1 /\ PlaceOf(ids, i) = Cardinality(B)
    BY DEF Place, PlaceOf
  <2> HIDE DEF A, B
  <2>5. \A j : j \in B <=> j \in A \/ j = i
    <3> TAKE j
    <3>1. CASE j \in ids
      BY <2>1, <2>2, <2>3, <3>1
    <3>2. CASE j \notin ids
      BY <2>1, <2>3, <3>2
    <3> QED  BY <3>1, <3>2
  <2>6. ~(i > i)
    OBVIOUS
  <2>7. B = A \cup {i} /\ i \notin A /\ A \subseteq ids
    <3>1. B = A \cup {i}
      BY <2>5
    <3>2. i \notin A /\ A \subseteq ids
      BY <2>1, <2>6
    <3> QED  BY <3>1, <3>2
  <2>8. IsFiniteSet(A)
    BY <1>1, <2>7, FS_Subset
  <2>9. Cardinality(A \cup {i}) = Cardinality(A) + 1
    BY <2>7, <2>8, FS_AddElement
  <2> QED  BY <2>4, <2>7, <2>9
<1>4. /\ \A i \in ids : <<i, i>> \notin R
      /\ \A i, j, k \in ids : <<i, j>> \in R /\ <<j, k>> \in R => <<i, k>> \in R
      /\ \A i, j \in ids : i # j => <<i, j>> \in R \/ <<j, i>> \in R
  BY <1>2
<1>5. /\ \A i \in ids : Place(ids, R, i) \in 1..Cardinality(ids)
      /\ \A m \in 1..Cardinality(ids) : \E i \in ids : Place(ids, R, i) = m
      /\ \A i, j \in ids : <<i, j>> \in R => Place(ids, R, i) < Place(ids, R, j)
      /\ \A i, j \in ids : Place(ids, R, i) = Place(ids, R, j) => i = j
  BY <1>1, <1>4, RankIsBijection
<1>6. Cardinality(ids) \in Nat
  BY <1>1, FS_CardinalityType
<1>7. \A i \in ids : PlaceOf(ids, i) \in 1..Cardinality(ids)
  BY <1>3, <1>5
<1>8. \A m \in 1..Cardinality(ids) : \E i \in ids : PlaceOf(ids, i) = m
  BY <1>3, <1>5
<1>9. ASSUME NEW i \in ids, NEW j \in ids, i > j PROVE PlaceOf(ids, i) < PlaceOf(ids, j)
  <2>1. Place(ids, R, i) < Place(ids, R, j)
    BY <1>2, <1>5, <1>9
  <2>2. PlaceOf(ids, i) = Place(ids, R, i) /\ PlaceOf(ids, j) = Place(ids, R, j)
    BY <1>3
  <2> QED  BY <2>1, <2>2
<1>10. \A i, j \in ids : PlaceOf(ids, i) = PlaceOf(ids, j) => i = j
  BY <1>3, <1>5
<1> QED  BY <1>6, <1>7, <1>8, <1>9, <1>10

\* A page holds the greatest ids below the last one, in descending order.
LEMMA PageIs ==
    ASSUME Version, NEW ceiling \in Nat, NEW last \in Nat, NEW page, page = Page(ceiling, last)
    PROVE  /\ page \in Seq(Nat)
           /\ \A m \in DOMAIN page : page[m] \in Ids(versions) /\ page[m] < last
           /\ \A i, j \in DOMAIN page : i < j => page[i] > page[j]
           /\ \A i \in Ids(versions) : (i <= ceiling /\ i < last) =>
                  \/ \E m \in DOMAIN page : page[m] = i
                  \/ page # <<>> /\ i < page[Len(page)]
<1> DEFINE ids == {i \in Ids(versions) : i <= ceiling /\ i < last}
           size == IF Cardinality(ids) < PageSize THEN Cardinality(ids) ELSE PageSize
<1>1. /\ ids \in SUBSET Nat /\ \A i \in ids : i <= ceiling
      /\ ids \subseteq Ids(versions) /\ \A i \in ids : i < last
  BY DEF Version, Ids
<1>2. \A i \in Ids(versions) : (i <= ceiling /\ i < last) => i \in ids
  OBVIOUS
<1>3. page = [m \in 1..size |-> CHOOSE i \in ids : PlaceOf(ids, i) = m]
  BY DEF Page, PlaceOf
<1> HIDE DEF ids
<1>4. /\ Cardinality(ids) \in Nat
      /\ \A i \in ids : PlaceOf(ids, i) \in 1..Cardinality(ids)
      /\ \A m \in 1..Cardinality(ids) : \E i \in ids : PlaceOf(ids, i) = m
      /\ \A i, j \in ids : i > j => PlaceOf(ids, i) < PlaceOf(ids, j)
      /\ \A i, j \in ids : PlaceOf(ids, i) = PlaceOf(ids, j) => i = j
  BY <1>1, PlacesOnPages
<1>5. size \in Nat /\ size <= Cardinality(ids) /\ (size < Cardinality(ids) => size = PageSize)
  BY <1>4, BoundsAssumption
<1> HIDE DEF size
<1>6. \A m \in 1..size : page[m] \in ids /\ PlaceOf(ids, page[m]) = m
  <2> TAKE m \in 1..size
  <2>1. m \in 1..Cardinality(ids)
    BY <1>4, <1>5
  <2>2. \E i \in ids : PlaceOf(ids, i) = m
    BY <1>4, <2>1
  <2> QED  BY <1>3, <2>2
<1>7. DOMAIN page = 1..size
  BY <1>3
<1>8. page \in Seq(Nat) /\ Len(page) = size
  <2>1. \A m \in 1..size : page[m] \in Nat
    BY <1>1, <1>6
  <2> QED  BY <1>3, <1>5, <2>1
<1>9. \A i, j \in DOMAIN page : i < j => page[i] > page[j]
  <2> SUFFICES ASSUME NEW i \in 1..size, NEW j \in 1..size, i < j PROVE page[i] > page[j]
    BY <1>7
  <2>1. page[i] \in ids /\ page[j] \in ids /\ PlaceOf(ids, page[i]) = i /\ PlaceOf(ids, page[j]) = j
    BY <1>6
  <2>2. page[i] \in Nat /\ page[j] \in Nat
    BY <1>1, <2>1
  <2>3. page[i] # page[j] /\ ~(page[j] > page[i])
    BY <1>4, <2>1
  <2> QED  BY <2>2, <2>3
<1>10. ASSUME NEW i \in ids
       PROVE  (\E m \in DOMAIN page : page[m] = i) \/ (page # <<>> /\ i < page[Len(page)])
  <2>1. PlaceOf(ids, i) \in 1..Cardinality(ids)
    BY <1>4
  <2>2. CASE PlaceOf(ids, i) <= size
    <3>1. PlaceOf(ids, i) \in 1..size
      BY <1>4, <1>5, <2>1, <2>2
    <3>2. page[PlaceOf(ids, i)] = i
      BY <1>4, <1>6, <3>1
    <3> QED  BY <1>7, <3>1, <3>2
  <2>3. CASE ~(PlaceOf(ids, i) <= size)
    <3>1. size = PageSize /\ size \in 1..size
      BY <1>4, <1>5, <2>1, <2>3, BoundsAssumption
    <3>2. page[size] \in ids /\ PlaceOf(ids, page[size]) = size
      BY <1>6, <3>1
    <3>3. i # page[size] /\ ~(i > page[size])
      <4>1. PlaceOf(ids, i) \in Nat /\ size < PlaceOf(ids, i)
        BY <1>5, <2>1, <2>3
      <4>2. i # page[size]
        BY <3>2, <4>1, <1>5
      <4>3. i > page[size] => PlaceOf(ids, i) < size
        BY <1>4, <3>2
      <4> QED  BY <1>5, <4>1, <4>2, <4>3
    <3>4. i \in Nat /\ page[size] \in Nat
      BY <1>1, <3>2
    <3>5. i < page[Len(page)]
      BY <1>8, <3>3, <3>4
    <3>6. page # <<>>
      BY <1>8, <3>1
    <3> QED  BY <3>5, <3>6
  <2> QED  BY <2>2, <2>3
<1> QED  BY <1>1, <1>2, <1>6, <1>7, <1>8, <1>9, <1>10

\* A listing that has shown "seen", all of it at or above "last", goes on with
\* a page.
LEMMA ListedIs ==
    ASSUME Version, NEW first \in SUBSET Ids(versions), NEW ceiling \in Nat, NEW last \in Nat,
           NEW seen \in Seq(Nat),
           \A i, j \in DOMAIN seen : i < j => seen[i] > seen[j],
           \A i \in DOMAIN seen : seen[i] >= last,
           \A i \in first : i <= ceiling,
           \A i \in first : i < last \/ \E m \in DOMAIN seen : seen[m] = i,
           reader' = Listed(first, ceiling, seen, Page(ceiling, last)),
           versions \subseteq versions'
    PROVE  Reader'
<1>1. PICK page : page = Page(ceiling, last)
  OBVIOUS
<1>2. /\ page \in Seq(Nat)
      /\ \A m \in DOMAIN page : page[m] \in Ids(versions) /\ page[m] < last
      /\ \A i, j \in DOMAIN page : i < j => page[i] > page[j]
      /\ \A i \in Ids(versions) : (i <= ceiling /\ i < last) =>
             \/ \E m \in DOMAIN page : page[m] = i
             \/ page # <<>> /\ i < page[Len(page)]
  BY <1>1, PageIs
<1>3. PICK s : s = seen \o page
  OBVIOUS
<1>4. /\ s \in Seq(Nat) /\ Len(s) = Len(seen) + Len(page)
      /\ Len(seen) \in Nat /\ Len(page) \in Nat
      /\ DOMAIN s = 1..(Len(seen) + Len(page))
      /\ DOMAIN seen = 1..Len(seen) /\ DOMAIN page = 1..Len(page)
  BY <1>2, <1>3
<1>5. \A i \in 1..Len(seen) : s[i] = seen[i] /\ i \in DOMAIN s
  BY <1>2, <1>3, <1>4
<1>6. \A i \in 1..Len(page) : s[Len(seen) + i] = page[i] /\ Len(seen) + i \in DOMAIN s
  BY <1>2, <1>3, <1>4
<1>7. ASSUME NEW i \in DOMAIN s
      PROVE  \/ i \in DOMAIN seen /\ s[i] = seen[i]
             \/ i - Len(seen) \in DOMAIN page /\ s[i] = page[i - Len(seen)]
  BY <1>2, <1>3, <1>4
<1>8. \A i, j \in DOMAIN s : i < j => s[i] > s[j]
  <2> SUFFICES ASSUME NEW i \in DOMAIN s, NEW j \in DOMAIN s, i < j PROVE s[i] > s[j]
    OBVIOUS
  <2>1. i \in Nat /\ j \in Nat
    BY <1>4
  <2>2. CASE i \in DOMAIN seen /\ s[i] = seen[i] /\ j \in DOMAIN seen /\ s[j] = seen[j]
    BY <2>2
  <2>3. CASE /\ i \in DOMAIN seen /\ s[i] = seen[i]
             /\ j - Len(seen) \in DOMAIN page /\ s[j] = page[j - Len(seen)]
    <3>1. seen[i] >= last /\ page[j - Len(seen)] < last
      BY <1>2, <2>3
    <3>2. seen[i] \in Nat /\ page[j - Len(seen)] \in Nat
      BY <1>2, <2>3
    <3> QED  BY <2>3, <3>1, <3>2
  <2>4. CASE /\ i - Len(seen) \in DOMAIN page /\ s[i] = page[i - Len(seen)]
             /\ j - Len(seen) \in DOMAIN page /\ s[j] = page[j - Len(seen)]
    <3>1. i - Len(seen) < j - Len(seen)
      BY <1>4, <2>1
    <3> QED  BY <1>2, <2>4, <3>1
  <2>5. CASE /\ i - Len(seen) \in DOMAIN page /\ j \in DOMAIN seen
    BY <1>4, <2>1, <2>5
  <2> QED  BY <1>7, <2>2, <2>3, <2>4, <2>5
<1> DEFINE more == page # <<>> /\ More(ceiling, page)
<1>10. PICK me : me = Listed(first, ceiling, seen, page)
  OBVIOUS
<1>11. /\ reader' = me /\ me.first = first /\ me.ceiling = ceiling /\ me.seen = s
       /\ me.pc = IF more THEN "paging" ELSE "listed"
       /\ me.last = IF more THEN page[Len(page)] ELSE 0
  BY <1>1, <1>3, <1>10 DEF Listed
<1>12. Ids(versions) \subseteq Ids(versions')
  BY DEF Ids
<1>13. \A i \in first :
           \/ \E n \in DOMAIN s : s[n] = i
           \/ page # <<>> /\ i < page[Len(page)]
  <2> TAKE i \in first
  <2>1. CASE \E m \in DOMAIN seen : seen[m] = i
    BY <1>4, <1>5, <2>1
  <2>2. CASE i < last
    <3>1. i \in Ids(versions) /\ i <= ceiling
      OBVIOUS
    <3>2. (\E m \in DOMAIN page : page[m] = i) \/ (page # <<>> /\ i < page[Len(page)])
      BY <1>2, <2>2, <3>1
    <3> QED  BY <1>4, <1>6, <3>2
  <2> QED  BY <2>1, <2>2
<1>14. CASE more
  <2>1. page # <<>> /\ Len(page) \in DOMAIN page /\ page[Len(page)] \in Nat
    BY <1>2, <1>4, <1>14
  <2>2. \A i \in DOMAIN page : page[i] >= page[Len(page)]
    <3> TAKE i \in DOMAIN page
    <3>1. page[i] \in Nat /\ i \in Nat /\ i <= Len(page)
      BY <1>2, <1>4
    <3>2. CASE i = Len(page)
      BY <2>1, <3>2
    <3>3. CASE i < Len(page)
      BY <1>2, <2>1, <3>1, <3>3
    <3> QED  BY <1>4, <3>1, <3>2, <3>3
  <2>3. \A i \in DOMAIN s : s[i] >= page[Len(page)]
    <3> TAKE i \in DOMAIN s
    <3>1. CASE i \in DOMAIN seen /\ s[i] = seen[i]
      <4>1. seen[i] >= last /\ page[Len(page)] < last /\ seen[i] \in Nat
        BY <1>2, <2>1, <3>1
      <4> QED  BY <2>1, <3>1, <4>1
    <3>2. CASE i - Len(seen) \in DOMAIN page /\ s[i] = page[i - Len(seen)]
      BY <2>2, <3>2
    <3> QED  BY <1>7, <3>1, <3>2
  <2> QED  BY <1>4, <1>8, <1>11, <1>12, <1>13, <1>14, <2>1, <2>3 DEF Reader
<1>15. CASE ~more
  <2>1. \A i \in first : \E n \in DOMAIN s : s[n] = i
    <3> TAKE i \in first
    <3>1. CASE page # <<>> /\ i < page[Len(page)]
      <4>1. More(ceiling, page)
        BY <3>1 DEF More
      <4> QED  BY <1>15, <3>1, <4>1
    <3> QED  BY <1>13, <3>1
  <2> QED  BY <1>4, <1>8, <1>11, <1>12, <1>15, <2>1 DEF Reader
<1> QED  BY <1>14, <1>15

LEMMA ReaderStep ==
    ASSUME IInv, [Next]_vars
    PROVE  Reader'
<1> USE DEF IInv
<1>1. versions \subseteq versions' /\ Ids(versions) \subseteq Ids(versions')
  BY VersionStep DEF Ids
<1>2. CASE UNCHANGED reader
  <2>1. Ids(versions)' = Ids(versions')
    BY DEF Ids
  <2> QED  BY <1>1, <1>2, <2>1 DEF Reader
<1>3. CASE FirstPage
  <2>1. PICK top : top = MaxOr(Ids(versions), 0)
    OBVIOUS
  <2>2. top \in Nat /\ \A i \in Ids(versions) : i \in Nat /\ i <= top
    <3>1. /\ Ids(versions) \in SUBSET Nat /\ nextVersion \in Nat
          /\ \A i \in Ids(versions) : i <= nextVersion
      BY DEF Version, Ids
    <3>2. IF Ids(versions) = {} THEN MaxOr(Ids(versions), 0) = 0
          ELSE /\ MaxOr(Ids(versions), 0) \in Ids(versions)
               /\ \A i \in Ids(versions) : i <= MaxOr(Ids(versions), 0)
      BY <3>1, MaxOrIn
    <3> QED  BY <2>1, <3>1, <3>2
  <2>3. reader' = Listed(Ids(versions), top, <<>>, Page(top, top + 1))
    BY <1>3, <2>1 DEF FirstPage
  <2>4. PICK last : last = top + 1
    OBVIOUS
  <2>5. PICK none : none = <<>>
    OBVIOUS
  <2>6. last \in Nat /\ none \in Seq(Nat) /\ DOMAIN none = {}
    BY <2>2, <2>4, <2>5
  <2>7. \A i \in Ids(versions) : i < last /\ i <= top
    BY <2>2, <2>4
  <2>8. reader' = Listed(Ids(versions), top, none, Page(top, last))
    BY <2>3, <2>4, <2>5
  <2> QED  BY <1>1, <2>2, <2>6, <2>7, <2>8, ListedIs
<1>4. CASE NextPage
  <2>1. PICK first, ceiling, last, seen :
            first = reader.first /\ ceiling = reader.ceiling /\ last = reader.last
            /\ seen = reader.seen
    OBVIOUS
  <2>2. /\ reader.pc = "paging"
        /\ reader' = Listed(first, ceiling, seen, Page(ceiling, last))
    BY <1>4, <2>1 DEF NextPage
  <2>3. /\ first \in SUBSET Ids(versions) /\ ceiling \in Nat /\ last \in Nat
        /\ seen \in Seq(Nat)
        /\ \A i, j \in DOMAIN seen : i < j => seen[i] > seen[j]
        /\ \A i \in DOMAIN seen : seen[i] >= last
        /\ \A i \in first : i <= ceiling
        /\ \A i \in first : i < last \/ \E m \in DOMAIN seen : seen[m] = i
    BY <2>1, <2>2 DEF Reader
  <2> QED  BY <1>1, <2>2, <2>3, ListedIs
<1>5. UNCHANGED reader \/ FirstPage \/ NextPage
  BY DEF Next, vars, Insert, Commit, Judge, BeginCreate, ReturnExisting, CreateBuild,
         CreateRaced, Publication, Claim, SweepOnly, Stage, InsertVersion, Publish,
         MarkFailed, ScheduleRetry, LeaseLost, Fault, Crash, Lapse
<1> QED  BY <1>2, <1>3, <1>4, <1>5

-----------------------------------------------------------------------------
(* The invariant holds, and what it says of published versions.            *)

\* The invariant holds initially and is preserved by every step.
THEOREM Inductive == Spec => []IInv
<1>1. Init => IInv
  <2> SUFFICES ASSUME Init PROVE IInv
    OBVIOUS
  <2>1. Store
    BY FS_EmptySet DEF Init, Store
  <2>2. Builds
    BY DEF Init, Builds
  <2>3. Client
    BY DEF Init, Client, IdleClient
  <2>4. Worker
    BY DEF Init, Worker, IdleWorker, WorkerFields
  <2>5. Version
    BY DEF Init, Version, OneVersionPerContent, IdleWorker
  <2>6. Published
    BY DEF Init, Published
  <2>7. Reader
    BY DEF Init, Reader, IdleReader
  <2> QED  BY <2>1, <2>2, <2>3, <2>4, <2>5, <2>6, <2>7 DEF IInv
<1>2. IInv /\ [Next]_vars => IInv'
  <2> SUFFICES ASSUME IInv, [Next]_vars PROVE IInv'
    OBVIOUS
  <2>1. Store'
    BY StoreStep DEF IInv
  <2> QED  BY <2>1, BuildsStep, ClientStep, WorkerStep, VersionStep, PublishedStep, ReaderStep
           DEF IInv
<1> QED  BY <1>1, <1>2, PTL DEF Spec

\* The version a build that succeeded names.
LEMMA NamedVersion ==
    ASSUME IInv, NEW b \in DOMAIN builds, builds[b].status = "succeeded"
    PROVE  /\ VersionOf(builds[b].version) \in versions
           /\ VersionOf(builds[b].version).id = builds[b].version
           /\ VersionOf(builds[b].version).content.coverage = builds[b].coverage
           /\ Good(rows, verdicts, builds[b], VersionOf(builds[b].version).content.members)
<1>1. PICK v \in versions : /\ v.id = builds[b].version
                            /\ v.content.coverage = builds[b].coverage
                            /\ Good(rows, verdicts, builds[b], v.content.members)
  BY DEF IInv, Published
<1>2. \A u \in versions : u.id = v.id => u = v
  BY DEF IInv, Version, OneVersionPerContent
<1>3. VersionOf(builds[b].version) = v
  BY <1>1, <1>2 DEF VersionOf
<1> QED  BY <1>1, <1>3

\* A build publishes what it froze: every member is what a row within its own
\* frontier says, none of the rows its accepted snapshot held would have been
\* preferred, and every slot that snapshot could fill is filled, also where the
\* version is one another build published
\* (_resolve_and_freeze_series, _stage_frozen_members, _insert_version_contents).
THEOREM WithinFrontier == Spec => []PublishedWithinFrontier
<1>1. IInv => PublishedWithinFrontier
  <2> SUFFICES ASSUME IInv, NEW b \in DOMAIN builds, builds[b].status = "succeeded",
                      NEW f, f = builds[b], NEW content, content = VersionOf(f.version).content
               PROVE  /\ f.version \in Ids(versions)
                      /\ content.coverage = f.coverage
                      /\ \A m \in content.members : \E r \in Candidates(rows, f) :
                             /\ m = Member(verdicts, r, f)
                             /\ \A o \in Candidates(f.accepted, f) :
                                    o.slot = r.slot => Preferred(r, o)
                      /\ \A o \in Candidates(f.accepted, f) :
                             \E m \in content.members : m.slot = o.slot
    BY DEF PublishedWithinFrontier
  <2>1. /\ VersionOf(f.version) \in versions /\ VersionOf(f.version).id = f.version
        /\ content.coverage = f.coverage
        /\ Good(rows, verdicts, f, content.members)
    BY NamedVersion
  <2>2. f.version \in Ids(versions)
    BY <2>1 DEF Ids
  <2> QED  BY <2>1, <2>2 DEF Good
<1> QED  BY <1>1, Inductive, PTL

\* missing_policy = fail: the coverage counts distinct buckets, and every row
\* starts at one, so a range that is not short of a bucket misses none
\* (_publish_claimed_build: blocked).
THEOREM FailPolicy == Spec => []FailPolicyHonoured
<1>1. IInv => FailPolicyHonoured
  <2> SUFFICES ASSUME IInv, NEW b \in DOMAIN builds, builds[b].status = "succeeded",
                      builds[b].request.policy = "fail",
                      NEW f, f = builds[b], NEW content, content = VersionOf(f.version).content,
                      NEW s \in Starts(f.request.unit)
               PROVE  \/ \E m \in content.members :
                             m.slot = s /\ m.quality \in {"available", "no_trade"}
                      \/ \E c \in content.coverage :
                             c.from <= s /\ s < c.to /\ c.status = "no_trade"
    BY DEF FailPolicyHonoured
  <2>1. content.coverage = f.coverage /\ Good(rows, verdicts, f, content.members)
    BY NamedVersion
  <2>2. IsBuild(rows, verdicts, f)
    BY DEF IInv, Builds
  <2>3. s \in Slots
    BY DEF Starts
  <2>4. PICK c \in f.coverage : c.from <= s /\ s < c.to
    BY <2>2, <2>3 DEF IsBuild, CoverageOK
  <2>5. c.status \in Qualities /\ c.expected = Expected(f.request.unit, c.from, c.to)
    BY <2>2, <2>4 DEF IsBuild, CoverageOK
  <2> DEFINE usable == {x \in content.members :
                            /\ c.from <= x.slot /\ x.slot < c.to
                            /\ x.quality \in {"available", "no_trade"}}
             U == {m.slot : m \in usable}
             E == {x \in Starts(f.request.unit) : c.from <= x /\ x < c.to}
  <2>6. ~Blocked(f, content.members)
    BY <2>1 DEF Good
  <2>7. c.status \in {"available", "no_trade"}
    BY <2>4, <2>5, <2>6 DEF Blocked, Qualities
  <2>8. CASE c.status = "no_trade"
    BY <2>1, <2>4, <2>8
  <2>9. CASE c.status = "available"
    <3>1. ~(Cardinality(U) < Cardinality(E))
      <4>1. c.expected = Cardinality(E)
        BY <2>5 DEF Expected
      <4>2. ~(Cardinality(U) < c.expected)
        BY <2>4, <2>6, <2>9 DEF Blocked
      <4> QED  BY <4>1, <4>2
    <3>2. U \subseteq E
      <4>1. \A m \in content.members : m.slot \in Starts(f.request.unit)
        BY <2>1 DEF Good, Candidates, Member, IInv, Store, IsRow
      <4> QED  BY <4>1
    <3>3. IsFiniteSet(E)
      <4>1. NumSlots \in Nat
        BY BoundsAssumption
      <4>2. E \in SUBSET Nat /\ \A x \in E : x <= NumSlots
        BY <4>1 DEF Starts, Slots
      <4> HIDE DEF E
      <4> QED  BY <4>1, <4>2, FS_BoundedSetOfNaturals
    <3>4. s \in E
      BY <2>4
    <3> HIDE DEF U, E
    <3>5. /\ IsFiniteSet(U) /\ Cardinality(U) <= Cardinality(E)
          /\ (U = E \/ Cardinality(U) < Cardinality(E))
          /\ Cardinality(U) \in Nat /\ Cardinality(E) \in Nat
      BY <3>2, <3>3, FS_Subset, FS_CardinalityType
    <3>6. s \in U
      BY <3>1, <3>4, <3>5
    <3> QED  BY <3>6 DEF U
  <2> QED  BY <2>7, <2>8, <2>9
<1> QED  BY <1>1, Inductive, PTL

\* A key stands for one build, a content for one version, and a listing shows
\* every version once (create_build, _insert_version_contents, list_versions).
THEOREM Identities == Spec => []IdentitiesHold
<1>1. IInv => IdentitiesHold
  <2> SUFFICES ASSUME IInv PROVE IdentitiesHold
    OBVIOUS
  <2>1. AnswersMatchRequests
    BY DEF IInv, Client, AnswersMatchRequests
  <2>2. OneVersionPerContent
    BY DEF IInv, Version
  <2>3. ListingIsComplete
    BY DEF IInv, Reader, ListingIsComplete
  <2> QED  BY <2>1, <2>2, <2>3 DEF IdentitiesHold
<1> QED  BY <1>1, Inductive, PTL

-----------------------------------------------------------------------------
(* Builds implement the lease queue.                                       *)

Jobs == 1..Cardinality(Clients)

\* No more builds than clients: each was answered to one of them.
LEMMA BuildsAreJobs ==
    ASSUME Builds, Client
    PROVE  DOMAIN builds \subseteq Jobs /\ Cardinality(Clients) \in Nat
<1> DEFINE A == {c \in Clients : client[c].pc = "answered"}
           f == [c \in A |-> client[c].answer]
<1>1. PICK n : n = Len(builds) /\ n \in Nat /\ DOMAIN builds = 1..n
  BY DEF Builds
<1>2. IsFiniteSet(Clients)
  BY BoundsAssumption
<1>3. IsFiniteSet(A) /\ Cardinality(A) <= Cardinality(Clients)
  <2>1. A \subseteq Clients
    OBVIOUS
  <2> HIDE DEF A
  <2> QED  BY <1>2, <2>1, FS_Subset
<1>4. f \in Surjection(A, 1..n)
  <2>1. \A c \in A : f[c] \in 1..n
    BY <1>1 DEF Client
  <2>2. \A b \in 1..n : \E c \in A : f[c] = b
    BY <1>1 DEF Client
  <2> HIDE DEF A
  <2>3. f \in [A -> 1..n]
    BY <2>1
  <2> QED  BY <2>2, <2>3 DEF Surjection
<1> HIDE DEF A, f
<1>5. Cardinality(1..n) <= Cardinality(A)
  BY <1>3, <1>4, FS_Surjection
<1>6. Cardinality(1..n) = n
  <2>1. Cardinality(1..n) = IF 1 > n THEN 0 ELSE n - 1 + 1
    <3>1. 1 \in Int /\ n \in Int
      BY <1>1
    <3> QED  BY <3>1, FS_Interval
  <2> QED  BY <1>1, <2>1
<1>7. Cardinality(A) \in Nat /\ Cardinality(Clients) \in Nat
  BY <1>2, <1>3, FS_CardinalityType
<1>8. n <= Cardinality(Clients)
  BY <1>1, <1>3, <1>5, <1>6, <1>7
<1> QED  BY <1>1, <1>7, <1>8 DEF Jobs

\* What the queue sees of a table of builds.
StatusPhase(st) ==
    CASE st \in {"pending", "retry_wait"} -> "waiting"
      [] st = "running" -> "leased"
      [] st \in {"succeeded", "failed"} -> "done"
      [] OTHER -> "buried"
PhaseView(bs) == [b \in Jobs |-> IF b \notin DOMAIN bs THEN "none" ELSE StatusPhase(bs[b].status)]
TokenView(bs) == [b \in Jobs |-> IF b \in DOMAIN bs THEN bs[b].gen ELSE 0]
TriesView(bs) == [b \in Jobs |-> IF b \in DOMAIN bs THEN bs[b].attempts ELSE 0]
DoneView(bs) == [b \in Jobs |-> IF b \in DOMAIN bs THEN bs[b].doneGen ELSE 0]

LEMMA PhaseValues ==
    /\ StatusPhase("pending") = "waiting" /\ StatusPhase("retry_wait") = "waiting"
    /\ StatusPhase("running") = "leased"
    /\ StatusPhase("succeeded") = "done" /\ StatusPhase("failed") = "done"
    /\ StatusPhase("dead_letter") = "buried"
BY DEF StatusPhase

LEMMA SameView ==
    ASSUME PhaseView(builds') = PhaseView(builds), TokenView(builds') = TokenView(builds),
           TriesView(builds') = TriesView(builds), DoneView(builds') = DoneView(builds)
    PROVE  UNCHANGED Queue!qvars
BY DEF Queue!qvars, PhaseView, TokenView, TriesView, DoneView, Jobs, Phase, StatusPhase

LEMMA AddView ==
    ASSUME NEW j \in Jobs, PhaseView(builds)[j] = "none",
           PhaseView(builds') = [PhaseView(builds) EXCEPT ![j] = "waiting"],
           TokenView(builds') = TokenView(builds),
           TriesView(builds') = TriesView(builds), DoneView(builds') = DoneView(builds)
    PROVE  Queue!Add(j)
BY DEF Queue!Add, PhaseView, TokenView, TriesView, DoneView, Jobs, Phase, StatusPhase

LEMMA FinishView ==
    ASSUME NEW j \in Jobs, PhaseView(builds)[j] = "leased",
           PhaseView(builds') = [PhaseView(builds) EXCEPT ![j] = "done"],
           DoneView(builds') = [DoneView(builds) EXCEPT ![j] = TokenView(builds)[j]],
           TokenView(builds') = TokenView(builds), TriesView(builds') = TriesView(builds)
    PROVE  Queue!Finish(j)
BY DEF Queue!Finish, PhaseView, TokenView, TriesView, DoneView, Jobs, Phase, StatusPhase

LEMMA GiveBackView ==
    ASSUME NEW j \in Jobs, PhaseView(builds)[j] = "leased",
           PhaseView(builds') = [PhaseView(builds) EXCEPT ![j] = "waiting"],
           TokenView(builds') = TokenView(builds),
           TriesView(builds') = TriesView(builds), DoneView(builds') = DoneView(builds)
    PROVE  Queue!GiveBack(j)
BY DEF Queue!GiveBack, PhaseView, TokenView, TriesView, DoneView, Jobs, Phase, StatusPhase

LEMMA BuryAndLeaseView ==
    ASSUME NEW js \in SUBSET Jobs, NEW ls,
           \A j \in js : PhaseView(builds)[j] = "leased" /\ TriesView(builds)[j] >= MaxAttempts,
           \A j \in ls : /\ PhaseView(builds)[j] \in {"waiting", "leased"} /\ j \in Jobs
                         /\ TriesView(builds)[j] < MaxAttempts,
           PhaseView(builds') = [j \in Jobs |-> IF j \in js THEN "buried"
                                    ELSE IF j \in ls THEN "leased" ELSE PhaseView(builds)[j]],
           TokenView(builds') = [j \in Jobs |-> IF j \in ls THEN TokenView(builds)[j] + 1
                                                ELSE TokenView(builds)[j]],
           TriesView(builds') = [j \in Jobs |-> IF j \in ls THEN TriesView(builds)[j] + 1
                                                ELSE TriesView(builds)[j]],
           DoneView(builds') = DoneView(builds)
    PROVE  Queue!BuryAndLease(js, ls)
BY DEF Queue!BuryAndLease, Queue!Buriable, PhaseView, TokenView, TriesView, DoneView, Jobs,
       Phase, StatusPhase

\* A new build is a new job.
LEMMA CreateImplements ==
    ASSUME IInv, IInv', NEW c \in Clients, CreateBuild(c)
    PROVE  \E j \in Jobs : Queue!Add(j)
<1> USE DEF IInv
<1>1. PICK f : /\ builds' = Append(builds, f) /\ f.status = "pending"
               /\ f.gen = 0 /\ f.attempts = 0 /\ f.doneGen = 0
  BY Created
<1>2. PICK j : j = Len(builds) + 1
  OBVIOUS
<1>3. /\ DOMAIN builds' = DOMAIN builds \cup {j}
      /\ j \notin DOMAIN builds
      /\ \A i \in DOMAIN builds : builds'[i] = builds[i]
      /\ builds'[j] = f
  BY <1>1, <1>2, Appended DEF Builds
<1>4. j \in Jobs
  <2>1. DOMAIN builds' \subseteq Jobs
    <3>1. Builds' /\ Client'
      OBVIOUS
    <3>2. (DOMAIN builds \subseteq Jobs)'
      BY <3>1, BuildsAreJobs, PTL
    <3> QED  BY <3>2 DEF Jobs
  <2> QED  BY <1>3, <2>1
<1>5. PhaseView(builds') = [PhaseView(builds) EXCEPT ![j] = "waiting"]
  BY <1>1, <1>3, <1>4, PhaseValues DEF PhaseView
<1>6. TokenView(builds') = TokenView(builds)
  BY <1>1, <1>3 DEF TokenView
<1>7. TriesView(builds') = TriesView(builds)
  BY <1>1, <1>3 DEF TriesView
<1>8. DoneView(builds') = DoneView(builds)
  BY <1>1, <1>3 DEF DoneView
<1>9. PhaseView(builds)[j] = "none"
  BY <1>3, <1>4 DEF PhaseView
<1> QED  BY <1>4, <1>5, <1>6, <1>7, <1>8, <1>9, AddView

\* The end of a publication finishes the build under the current token, gives
\* it back or buries it.
LEMMA EndImplements ==
    ASSUME IInv, NEW w \in Workers, Publish(w) \/ MarkFailed(w) \/ ScheduleRetry(w)
    PROVE  \/ UNCHANGED builds
           \/ \E j \in Jobs : \/ Queue!Finish(j) \/ Queue!GiveBack(j)
                             \/ Queue!BuryAndLease({j}, {})
<1> USE DEF IInv
<1>1. PICK j : j = worker[w].build
  OBVIOUS
<1>2. PICK f : f = builds[j]
  OBVIOUS
<1>3. j \in DOMAIN builds /\ j \in Jobs /\ builds = [b \in DOMAIN builds |-> builds[b]]
      /\ DOMAIN f = BuildFields /\ f.gen \in Nat /\ f.attempts \in Nat
  <2>1. j \in DOMAIN builds
    BY <1>1 DEF Worker, Publish, MarkFailed, ScheduleRetry
  <2> QED  BY <1>2, <2>1, BuildsAreJobs DEF Builds, IsBuild
<1>4. Holds(w) => f.status = "running" /\ f.gen = worker[w].gen
  BY <1>1, <1>2 DEF Holds
<1>5. SUFFICES ASSUME builds' # builds
               PROVE  \E k \in Jobs : \/ Queue!Finish(k) \/ Queue!GiveBack(k)
                                     \/ Queue!BuryAndLease({k}, {})
  OBVIOUS
<1>6. PICK g : builds' = [builds EXCEPT ![j] = g] /\ Holds(w) /\
          \/ g = [f EXCEPT !.status = "succeeded", !.owner = None, !.live = FALSE,
                     !.version = worker[w].version, !.doneGen = worker[w].gen]
          \/ g = [f EXCEPT !.status = "failed", !.owner = None, !.live = FALSE,
                     !.doneGen = worker[w].gen]
          \/ /\ f.attempts >= MaxAttempts
             /\ g = [f EXCEPT !.status = "dead_letter", !.owner = None, !.live = FALSE]
          \/ g = [f EXCEPT !.status = "retry_wait", !.owner = None, !.live = FALSE]
  BY <1>1, <1>2, <1>5 DEF Publish, MarkFailed, ScheduleRetry, DeadLettered
<1>7. /\ g.gen = f.gen /\ g.attempts = f.attempts
      /\ \/ g.status \in {"succeeded", "failed"} /\ g.doneGen = f.gen
         \/ g.status = "dead_letter" /\ g.doneGen = f.doneGen /\ f.attempts >= MaxAttempts
         \/ g.status = "retry_wait" /\ g.doneGen = f.doneGen
  BY <1>3, <1>4, <1>6 DEF BuildFields
<1>8. /\ DOMAIN builds' = DOMAIN builds /\ builds'[j] = g
      /\ \A b \in DOMAIN builds : b # j => builds'[b] = builds[b]
  BY <1>3, <1>6
<1>9. TokenView(builds') = TokenView(builds) /\ TriesView(builds') = TriesView(builds)
  <2>1. TokenView(builds') = TokenView(builds)
    BY <1>2, <1>7, <1>8 DEF TokenView
  <2>2. TriesView(builds') = TriesView(builds)
    BY <1>2, <1>7, <1>8 DEF TriesView
  <2> QED  BY <2>1, <2>2
<1>10. /\ PhaseView(builds)[j] = "leased" /\ TokenView(builds)[j] = f.gen
       /\ TriesView(builds)[j] = f.attempts
  BY <1>2, <1>3, <1>4, <1>6, PhaseValues DEF PhaseView, TokenView, TriesView
<1>11. PhaseView(builds') = [PhaseView(builds) EXCEPT ![j] = StatusPhase(g.status)]
  BY <1>3, <1>8 DEF PhaseView
<1>12. DoneView(builds') = [DoneView(builds) EXCEPT ![j] = g.doneGen]
  BY <1>3, <1>8 DEF DoneView
<1>13. g.doneGen = f.doneGen => DoneView(builds') = DoneView(builds)
  BY <1>2, <1>8 DEF DoneView
<1>14. CASE g.status \in {"succeeded", "failed"} /\ g.doneGen = f.gen
  <2>1. Queue!Finish(j)
    BY <1>3, <1>9, <1>10, <1>11, <1>12, <1>14, PhaseValues, FinishView
  <2> QED  BY <1>3, <2>1
<1>15. CASE g.status = "dead_letter" /\ g.doneGen = f.doneGen /\ f.attempts >= MaxAttempts
  <2>1. PhaseView(builds') = [b \in Jobs |-> IF b \in {j} THEN "buried"
                                    ELSE IF b \in {} THEN "leased" ELSE PhaseView(builds)[b]]
    BY <1>3, <1>11, <1>15, PhaseValues DEF PhaseView
  <2>2. /\ TokenView(builds') = [b \in Jobs |-> IF b \in {} THEN TokenView(builds)[b] + 1
                                                ELSE TokenView(builds)[b]]
        /\ TriesView(builds') = [b \in Jobs |-> IF b \in {} THEN TriesView(builds)[b] + 1
                                                ELSE TriesView(builds)[b]]
    BY <1>9 DEF TokenView, TriesView
  <2>3. Queue!BuryAndLease({j}, {})
    BY <1>3, <1>10, <1>13, <1>15, <2>1, <2>2, BuryAndLeaseView
  <2> QED  BY <1>3, <2>3
<1>16. CASE g.status = "retry_wait" /\ g.doneGen = f.doneGen
  <2>1. Queue!GiveBack(j)
    BY <1>3, <1>9, <1>10, <1>11, <1>13, <1>16, PhaseValues, GiveBackView
  <2> QED  BY <1>3, <2>1
<1> QED  BY <1>7, <1>14, <1>15, <1>16

\* A claim buries what it swept and leases at most one build.
LEMMA ClaimImplements ==
    ASSUME IInv, NEW w \in Workers, Claim(w) \/ SweepOnly(w)
    PROVE  \E js \in SUBSET Jobs : \E ls \in {{}} \cup {{j} : j \in Jobs} :
               Queue!BuryAndLease(js, ls)
<1> USE DEF IInv
<1> DEFINE js == {k \in DOMAIN builds : Spent(k)}
<1>1. /\ DOMAIN builds \subseteq Jobs /\ DOMAIN builds \subseteq Nat
      /\ builds = [b \in DOMAIN builds |-> builds[b]]
      /\ \A b \in DOMAIN builds : /\ DOMAIN builds[b] = BuildFields
                                 /\ builds[b].gen \in Nat /\ builds[b].attempts \in Nat
  BY BuildsAreJobs DEF Builds, IsBuild
<1>2. /\ DOMAIN Swept = DOMAIN builds
      /\ \A b \in DOMAIN builds :
             /\ Swept[b].gen = builds[b].gen /\ Swept[b].attempts = builds[b].attempts
             /\ Swept[b].doneGen = builds[b].doneGen
             /\ Swept[b].status = IF b \in js THEN "dead_letter" ELSE builds[b].status
  BY <1>1 DEF Swept, DeadLettered, BuildFields
<1>3. PICK ls \in {{}} \cup {{j} : j \in Jobs} :
          /\ \A b \in ls : /\ b \in DOMAIN builds /\ builds[b].attempts < MaxAttempts
                          /\ builds[b].status \in {"pending", "retry_wait", "running"}
          /\ DOMAIN builds' = DOMAIN builds
          /\ \A b \in DOMAIN builds \ ls : builds'[b] = Swept[b]
          /\ \A b \in ls : /\ builds'[b].status = "running"
                          /\ builds'[b].gen = builds[b].gen + 1
                          /\ builds'[b].attempts = builds[b].attempts + 1
                          /\ builds'[b].doneGen = builds[b].doneGen
  <2>1. CASE Claim(w)
    <3>1. PICK b : b = Min({k \in DOMAIN builds : Claimable(k)})
      OBVIOUS
    <3>2. b \in DOMAIN builds /\ Claimable(b)
      <4> DEFINE S == {k \in DOMAIN builds : Claimable(k)}
      <4>1. S \in SUBSET Nat /\ S # {} /\ b = Min(S)
        BY <1>1, <2>1, <3>1 DEF Claim
      <4> HIDE DEF S
      <4>2. b \in S
        BY <4>1, MinIn
      <4> QED  BY <4>2 DEF S
    <3>3. PICK g : g = [builds[b] EXCEPT !.status = "running", !.owner = w, !.live = TRUE,
                              !.gen = builds[b].gen + 1, !.attempts = @ + 1]
      OBVIOUS
    <3>4. builds' = [Swept EXCEPT ![b] = g]
      BY <2>1, <3>1, <3>3 DEF Claim
    <3>5. /\ g.status = "running" /\ g.gen = builds[b].gen + 1
          /\ g.attempts = builds[b].attempts + 1 /\ g.doneGen = builds[b].doneGen
      BY <1>1, <3>2, <3>3 DEF BuildFields
    <3>6. /\ builds[b].attempts < MaxAttempts
          /\ builds[b].status \in {"pending", "retry_wait", "running"}
      BY <3>2 DEF Claimable
    <3>7. /\ DOMAIN builds' = DOMAIN builds /\ builds'[b] = g
          /\ \A k \in DOMAIN builds \ {b} : builds'[k] = Swept[k]
      BY <1>2, <3>2, <3>4
    <3>8. {b} \in {{}} \cup {{j} : j \in Jobs}
      BY <1>1, <3>2
    <3> WITNESS {b} \in {{}} \cup {{j} : j \in Jobs}
    <3> QED  BY <3>2, <3>5, <3>6, <3>7, <3>8
  <2>2. CASE SweepOnly(w)
    <3>1. builds' = Swept
      BY <2>2 DEF SweepOnly
    <3> WITNESS {} \in {{}} \cup {{j} : j \in Jobs}
    <3> QED  BY <1>2, <3>1
  <2> QED  BY <2>1, <2>2
<1>4. \A b \in js : /\ b \in DOMAIN builds /\ builds[b].status = "running"
                    /\ builds[b].attempts >= MaxAttempts
  BY DEF Spent
<1>5. \A b \in js : b \notin ls
  <2>1. MaxAttempts \in Nat
    BY BoundsAssumption
  <2> QED  BY <1>1, <1>3, <1>4, <2>1
<1> HIDE DEF js
<1>6. js \in SUBSET Jobs
  BY <1>1, <1>4
<1>7. \A j \in js : PhaseView(builds)[j] = "leased" /\ TriesView(builds)[j] >= MaxAttempts
  BY <1>4, <1>6, PhaseValues DEF PhaseView, TriesView
<1>8. \A j \in ls : /\ PhaseView(builds)[j] \in {"waiting", "leased"} /\ j \in Jobs
                    /\ TriesView(builds)[j] < MaxAttempts
  BY <1>1, <1>3, PhaseValues DEF PhaseView, TriesView
<1>9. PhaseView(builds') = [j \in Jobs |-> IF j \in js THEN "buried"
                               ELSE IF j \in ls THEN "leased" ELSE PhaseView(builds)[j]]
  <2>1. ASSUME NEW b \in Jobs
        PROVE  PhaseView(builds')[b] = IF b \in js THEN "buried"
                               ELSE IF b \in ls THEN "leased" ELSE PhaseView(builds)[b]
    <3>1. CASE b \notin DOMAIN builds
      BY <1>3, <1>4, <3>1 DEF PhaseView
    <3>2. CASE b \in ls
      BY <1>3, <1>5, <3>2, PhaseValues DEF PhaseView
    <3>3. CASE b \in DOMAIN builds /\ b \notin ls
      BY <1>2, <1>3, <3>3, PhaseValues DEF PhaseView
    <3> QED  BY <3>1, <3>2, <3>3
  <2> QED  BY <2>1 DEF PhaseView
<1>10. TokenView(builds') = [j \in Jobs |-> IF j \in ls THEN TokenView(builds)[j] + 1
                                            ELSE TokenView(builds)[j]]
  BY <1>2, <1>3 DEF TokenView
<1>11. TriesView(builds') = [j \in Jobs |-> IF j \in ls THEN TriesView(builds)[j] + 1
                                            ELSE TriesView(builds)[j]]
  BY <1>2, <1>3 DEF TriesView
<1>12. DoneView(builds') = DoneView(builds)
  BY <1>2, <1>3 DEF DoneView
<1>13. Queue!BuryAndLease(js, ls)
  BY <1>6, <1>7, <1>8, <1>9, <1>10, <1>11, <1>12, BuryAndLeaseView
<1> QED  BY <1>6, <1>13

\* A lapse is no step of the queue.
LEMMA LapseImplements ==
    ASSUME IInv, NEW b \in DOMAIN builds, Lapse(b)
    PROVE  UNCHANGED Queue!qvars
<1>1. /\ builds = [k \in DOMAIN builds |-> builds[k]]
      /\ DOMAIN builds[b] = BuildFields
  BY DEF IInv, Builds, IsBuild
<1>2. PICK g : g = [builds[b] EXCEPT !.live = FALSE]
  OBVIOUS
<1>3. builds' = [builds EXCEPT ![b] = g]
  BY <1>2 DEF Lapse
<1>4. /\ g.status = builds[b].status /\ g.gen = builds[b].gen
      /\ g.attempts = builds[b].attempts /\ g.doneGen = builds[b].doneGen
  BY <1>1, <1>2 DEF BuildFields
<1>5. DOMAIN builds' = DOMAIN builds /\
      \A k \in DOMAIN builds :
          /\ builds'[k].status = builds[k].status /\ builds'[k].gen = builds[k].gen
          /\ builds'[k].attempts = builds[k].attempts /\ builds'[k].doneGen = builds[k].doneGen
  BY <1>1, <1>3, <1>4
<1>6. PhaseView(builds') = PhaseView(builds)
  BY <1>5 DEF PhaseView
<1>7. TokenView(builds') = TokenView(builds)
  BY <1>5 DEF TokenView
<1>8. TriesView(builds') = TriesView(builds)
  BY <1>5 DEF TriesView
<1>9. DoneView(builds') = DoneView(builds)
  BY <1>5 DEF DoneView
<1> QED  BY <1>6, <1>7, <1>8, <1>9, SameView

\* Builds keep the promises of LeaseQueue (publish_next_build and the fenced
\* writes to dataset_builds): only the current lease ends a build, and once.
THEOREM Refinement == Spec => RefinesLeaseQueue
<1>1. Init => Queue!QInit
  BY DEF Init, Queue!QInit, Phase
<1>2. ASSUME IInv, IInv', [Next]_vars PROVE [Queue!QNext]_(Queue!qvars)
  <2>1. CASE UNCHANGED builds
    <3>1. UNCHANGED Queue!qvars
      BY <2>1, SameView
    <3> QED  BY <3>1
  <2>2. ASSUME NEW c \in Clients, CreateBuild(c) PROVE Queue!QNext
    BY <1>2, <2>2, CreateImplements DEF Queue!QNext, Jobs
  <2>3. ASSUME NEW w \in Workers, Claim(w) \/ SweepOnly(w) PROVE Queue!QNext
    BY <1>2, <2>3, ClaimImplements DEF Queue!QNext, Jobs
  <2>4. ASSUME NEW w \in Workers, Publish(w) \/ MarkFailed(w) \/ ScheduleRetry(w)
        PROVE  Queue!QNext \/ UNCHANGED builds
    <3>1. ASSUME NEW j \in Jobs, Queue!BuryAndLease({j}, {}) PROVE Queue!QNext
      BY <3>1 DEF Queue!QNext, Jobs
    <3>2. ASSUME NEW j \in Jobs, Queue!Finish(j) \/ Queue!GiveBack(j) PROVE Queue!QNext
      BY <3>2 DEF Queue!QNext, Jobs
    <3> QED  BY <1>2, <2>4, <3>1, <3>2, EndImplements
  <2>5. ASSUME NEW b \in DOMAIN builds, Lapse(b) PROVE UNCHANGED Queue!qvars
    BY <1>2, <2>5, LapseImplements
  <2> QED  BY <1>2, <2>1, <2>2, <2>3, <2>4, <2>5, BuildsOrNot DEF Moving
<1> QED  BY <1>1, <1>2, Inductive, PTL DEF Spec, RefinesLeaseQueue, Queue!QSpec

=============================================================================
