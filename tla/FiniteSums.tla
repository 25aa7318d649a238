----------------------------- MODULE FiniteSums -----------------------------
(***************************************************************************)
(* What the proofs of several modules share: the least number principle,   *)
(* first elements and ranks in finite orders, sequences as functions, the  *)
(* folds of sequences (FoldLeft) and the sum of a function over a finite   *)
(* set (SumFunctionOnSet).                                                 *)
(***************************************************************************)
EXTENDS Sequences, FiniteSetsExt, FiniteSetTheorems, WellFoundedInduction, TLAPS

\* A set of natural numbers that is not empty has a least element.
LEMMA LeastNat ==
    ASSUME NEW S \in SUBSET Nat, S # {}
    PROVE  \E n \in S : \A m \in S : n <= m
  <1> DEFINE Less == {ss \in Nat \X Nat : ss[1] < ss[2]}
  <1>1. IsWellFoundedOn(Less, Nat)
    BY NatLessThanWellFounded DEF OpToRel
  <1> HIDE DEF Less
  <1>2. PICK n \in S : \A m \in S : <<m, n>> \notin Less
    BY <1>1, WFMin
  <1>3. ASSUME NEW m \in S PROVE n <= m
    <2>1. <<m, n>> \notin Less
      BY <1>2
    <2>2. ~(m < n)
      BY <2>1 DEF Less
    <2> QED
      BY <2>2
  <1> QED
    BY <1>3

\* A family of finite sets that is not empty has a member with the fewest
\* elements.
LEMMA SmallestSet ==
    ASSUME NEW F, F # {}, \A T \in F : IsFiniteSet(T)
    PROVE  \E T \in F : \A U \in F : Cardinality(T) <= Cardinality(U)
  <1> DEFINE N == {Cardinality(T) : T \in F}
  <1>1. N \in SUBSET Nat
    BY FS_CardinalityType
  <1>2. N # {}
    OBVIOUS
  <1>3. PICK n \in N : \A m \in N : n <= m
    BY <1>1, <1>2, LeastNat
  <1> QED
    BY <1>3

\* A finite set without one of its elements is finite and smaller.
LEMMA SmallerWithout ==
    ASSUME NEW T, IsFiniteSet(T), NEW x \in T
    PROVE  /\ IsFiniteSet(T \ {x})
           /\ ~(Cardinality(T) <= Cardinality(T \ {x}))
  <1>1. /\ IsFiniteSet(T \ {x}) /\ Cardinality(T) \in Nat
        /\ Cardinality(T \ {x}) = Cardinality(T) - 1
    BY FS_CardinalityType, FS_RemoveElement
  <1> QED
    BY <1>1

\* The image of a finite set is finite.
LEMMA ImageFinite ==
    ASSUME NEW S, IsFiniteSet(S), NEW f
    PROVE  IsFiniteSet({f[x] : x \in S})
  <1> DEFINE T == {f[x] : x \in S}
             g == [x \in S |-> f[x]]
  <1>1. g \in Surjection(S, T)
    BY DEF Surjection
  <1> HIDE DEF g, T
  <1>2. IsFiniteSet(T)
    BY <1>1, FS_Surjection
  <1> QED
    BY <1>2 DEF T

\* A finite set that is not empty has a first element in a total preorder.
LEMMA FirstElement ==
    ASSUME NEW S, IsFiniteSet(S), S # {}, NEW R,
           \A x, y \in S : <<x, y>> \in R \/ <<y, x>> \in R,
           \A x, y, z \in S : <<x, y>> \in R /\ <<y, z>> \in R => <<x, z>> \in R
    PROVE  \E x \in S : \A y \in S : <<x, y>> \in R
  <1> DEFINE First(T) == \E x \in T : \A y \in T : <<x, y>> \in R
             F == {T \in SUBSET S : T # {} /\ ~First(T)}
  <1> SUFFICES ASSUME S \in F PROVE FALSE
    OBVIOUS
  <1>1. \A T \in F : IsFiniteSet(T)
    BY FS_Subset
  <1>2. PICK T \in F : \A U \in F : Cardinality(T) <= Cardinality(U)
    <2> HIDE DEF F
    <2> QED
      BY <1>1, SmallestSet
  <1>3. PICK x \in T : TRUE
    BY <1>2
  <1>4. IsFiniteSet(T) /\ T \subseteq S
    BY <1>1, <1>2
  <1>5. ~(Cardinality(T) <= Cardinality(T \ {x}))
    BY <1>3, <1>4, SmallerWithout
  <1>6. T \ {x} \notin F
    <2> HIDE DEF F
    <2> QED
      BY <1>2, <1>5
  <1>7. CASE T \ {x} = {}
    <2>1. x \in T /\ \A y \in T : y = x
      BY <1>3, <1>7
    <2>2. First(T)
      BY <1>4, <2>1
    <2> QED
      BY <1>2, <2>2
  <1>8. CASE T \ {x} # {}
    <2>1. PICK z \in T \ {x} : \A y \in T \ {x} : <<z, y>> \in R
      BY <1>2, <1>6, <1>8
    <2>2. x \in S /\ z \in S
      BY <1>3, <1>4, <2>1
    <2>3. CASE <<z, x>> \in R
      <3>1. \A y \in T : <<z, y>> \in R
        BY <2>1, <2>3
      <3> QED
        BY <1>2, <2>1, <3>1
    <2>4. CASE <<x, z>> \in R
      <3>1. <<x, x>> \in R
        BY <2>2
      <3>2. \A y \in T : <<x, y>> \in R
        BY <1>4, <2>1, <2>2, <2>4, <3>1
      <3> QED
        BY <1>2, <1>3, <3>2
    <2> QED
      BY <2>2, <2>3, <2>4
  <1> QED
    BY <1>7, <1>8

\* A finite set of integers that is not empty has a greatest element.
LEMMA GreatestInt ==
    ASSUME NEW S \in SUBSET Int, IsFiniteSet(S), S # {}
    PROVE  \E x \in S : \A y \in S : x >= y
  <1> DEFINE R == {xy \in S \X S : xy[1] >= xy[2]}
  <1>1. \A x, y \in S : <<x, y>> \in R <=> x >= y
    OBVIOUS
  <1> HIDE DEF R
  <1>2. ASSUME NEW x \in S, NEW y \in S PROVE <<x, y>> \in R \/ <<y, x>> \in R
    <2>1. x \in Int /\ y \in Int
      OBVIOUS
    <2>2. x >= y \/ y >= x
      BY <2>1
    <2> QED
      BY <1>1, <2>2
  <1>3. \A x, y, z \in S : <<x, y>> \in R /\ <<y, z>> \in R => <<x, z>> \in R
    BY <1>1
  <1>4. \E x \in S : \A y \in S : <<x, y>> \in R
    BY <1>2, <1>3, FirstElement
  <1> QED
    BY <1>1, <1>4

\* The place of an element of D in the order R.
Place(D, R, i) == Cardinality({j \in D : <<j, i>> \in R}) + 1

\* A strict total order of a set.
StrictOrder(R, D) ==
    /\ \A i \in D : <<i, i>> \notin R
    /\ \A i, j, k \in D : <<i, j>> \in R /\ <<j, k>> \in R => <<i, k>> \in R
    /\ \A i, j \in D : i # j => <<i, j>> \in R \/ <<j, i>> \in R

\* Every place is taken, by one element.
Placed(D, R) ==
    /\ Cardinality(D) \in Nat
    /\ \A i \in D : Place(D, R, i) \in 1..Cardinality(D)
    /\ \A m \in 1..Cardinality(D) : \E i \in D : Place(D, R, i) = m
    /\ \A i, j \in D : <<i, j>> \in R => Place(D, R, i) < Place(D, R, j)
    /\ \A i, j \in D : Place(D, R, i) = Place(D, R, j) => i = j

\* The place of an element in a strict total order of a finite set: every
\* place is taken, and by one element.
LEMMA PlacesTaken ==
    ASSUME NEW D, IsFiniteSet(D), NEW R, StrictOrder(R, D)
    PROVE  Placed(D, R)
  <1>0. /\ \A i \in D : <<i, i>> \notin R
        /\ \A i, j, k \in D : <<i, j>> \in R /\ <<j, k>> \in R => <<i, k>> \in R
        /\ \A i, j \in D : i # j => <<i, j>> \in R \/ <<j, i>> \in R
    BY DEF StrictOrder
  <1> DEFINE Below(i) == {j \in D : <<j, i>> \in R}
             rank == [i \in D |-> Cardinality(Below(i)) + 1]
  <1>1. PICK n \in Nat : n = Cardinality(D)
    BY FS_CardinalityType
  <1>2. \A i \in D : IsFiniteSet(Below(i)) /\ Cardinality(Below(i)) \in Nat
    <2>1. \A i \in D : Below(i) \subseteq D
      OBVIOUS
    <2> HIDE DEF Below
    <2> QED
      BY <2>1, FS_Subset, FS_CardinalityType
  <1>3. \A i \in D : Cardinality(Below(i)) < n
    <2> SUFFICES ASSUME NEW i \in D PROVE Cardinality(Below(i)) < n
      OBVIOUS
    <2>1. Below(i) \subseteq D /\ Below(i) # D
      BY <1>0
    <2> HIDE DEF Below
    <2> QED
      BY <1>1, <1>2, <2>1, FS_Subset
  <1>4. ASSUME NEW i \in D, NEW j \in D, <<i, j>> \in R PROVE rank[i] < rank[j]
    <2>1. Below(i) \subseteq Below(j) /\ i \in Below(j) /\ i \notin Below(i)
      BY <1>0, <1>4
    <2>2. Cardinality(Below(i)) < Cardinality(Below(j))
      <3> HIDE DEF Below
      <3>1. Below(i) # Below(j)
        BY <2>1
      <3> QED
        BY <1>2, <2>1, <3>1, FS_Subset
    <2> HIDE DEF Below
    <2> QED
      BY <1>2, <2>2
  <1>5. rank \in [D -> 1..n]
    <2> HIDE DEF Below
    <2> QED
      BY <1>2, <1>3
  <1>6. rank \in Injection(D, 1..n)
    <2>1. ASSUME NEW i \in D, NEW j \in D, i # j PROVE rank[i] # rank[j]
      <3>1. rank[i] \in Int /\ rank[j] \in Int
        BY <1>5
      <3>2. rank[i] < rank[j] \/ rank[j] < rank[i]
        BY <1>0, <1>4, <2>1
      <3> HIDE DEF rank
      <3> QED
        BY <3>1, <3>2
    <2> HIDE DEF rank
    <2> QED
      BY <1>5, <2>1 DEF Injection, IsInjective
  <1>7. rank \in Surjection(D, 1..n)
    <2> DEFINE T == 1..n
    <2>1. IsFiniteSet(T) /\ Cardinality(T) = n
      BY FS_Interval
    <2> HIDE DEF rank, T
    <2>2. rank \in Surjection(D, T)
      BY <1>1, <1>6, <2>1, FS_Injection DEF T
    <2> QED
      BY <2>2 DEF T
  <1>8. \A i \in D : rank[i] = Place(D, R, i)
    BY DEF Place
  <1>9. \A m \in 1..n : \E i \in D : rank[i] = m
    BY <1>7 DEF Surjection
  <1>10. \A i, j \in D : rank[i] = rank[j] => i = j
    BY <1>6 DEF Injection, IsInjective
  <1> HIDE DEF rank, Below
  <1>11. /\ \A i \in D : Place(D, R, i) \in 1..n
         /\ \A m \in 1..n : \E i \in D : Place(D, R, i) = m
         /\ \A i, j \in D : Place(D, R, i) = Place(D, R, j) => i = j
    BY <1>5, <1>8, <1>9, <1>10
  <1>12. \A i, j \in D : <<i, j>> \in R => Place(D, R, i) < Place(D, R, j)
    BY <1>4, <1>8
  <1> QED
    BY <1>1, <1>11, <1>12 DEF Placed

\* The same, written out.
LEMMA RankIsBijection ==
    ASSUME NEW D, IsFiniteSet(D), NEW R,
           \A i \in D : <<i, i>> \notin R,
           \A i, j, k \in D : <<i, j>> \in R /\ <<j, k>> \in R => <<i, k>> \in R,
           \A i, j \in D : i # j => <<i, j>> \in R \/ <<j, i>> \in R
    PROVE  /\ \A i \in D : Place(D, R, i) \in 1..Cardinality(D)
           /\ \A m \in 1..Cardinality(D) : \E i \in D : Place(D, R, i) = m
           /\ \A i, j \in D : <<i, j>> \in R => Place(D, R, i) < Place(D, R, j)
           /\ \A i, j \in D : Place(D, R, i) = Place(D, R, j) => i = j
  <1>1. StrictOrder(R, D)
    BY DEF StrictOrder
  <1>2. Placed(D, R)
    BY <1>1, PlacesTaken
  <1> QED
    BY <1>2 DEF Placed

-----------------------------------------------------------------------------
(* Sequences.                                                              *)

\* A function on the domain of a sequence is a sequence of the same length.
LEMMA SameDomain ==
    ASSUME NEW s, s \in Seq({s[i] : i \in DOMAIN s}),
           NEW f, f = [i \in DOMAIN s |-> f[i]]
    PROVE  f \in Seq({f[i] : i \in DOMAIN f}) /\ DOMAIN f = DOMAIN s /\ Len(f) = Len(s)
  <1>1. Len(s) \in Nat /\ DOMAIN s = 1..Len(s)
    OBVIOUS
  <1>2. f = [i \in 1..Len(s) |-> f[i]] /\ DOMAIN f = 1..Len(s)
    BY <1>1
  <1> QED  BY <1>1, <1>2

\* A sequence with an element appended.
LEMMA Appended ==
    ASSUME NEW s, s \in Seq({s[i] : i \in DOMAIN s}), NEW e
    PROVE  /\ Append(s, e) \in Seq({Append(s, e)[i] : i \in DOMAIN Append(s, e)})
           /\ DOMAIN Append(s, e) = DOMAIN s \cup {Len(s) + 1}
           /\ Len(s) + 1 \notin DOMAIN s
           /\ \A i \in DOMAIN s : Append(s, e)[i] = s[i]
           /\ Append(s, e)[Len(s) + 1] = e
  OBVIOUS

-----------------------------------------------------------------------------
(* Folds over sequences.                                                   *)

\* The greatest of finitely many integers.
LEMMA MaxIn ==
    ASSUME NEW t \in SUBSET Int, IsFiniteSet(t), t # {}
    PROVE  Max(t) \in t /\ \A y \in t : Max(t) >= y
  <1>1. \E x \in t : \A y \in t : x >= y
    BY GreatestInt
  <1> QED
    BY <1>1 DEF Max

\* The sets of indices a fold goes through.
LEMMA IndexSets ==
    ASSUME NEW N \in Nat, NEW t \in SUBSET (1..N)
    PROVE  /\ IsFiniteSet(t) /\ Cardinality(t) \in Nat
           /\ t = {} <=> Cardinality(t) = 0
           /\ t # {} => /\ Max(t) \in t /\ Max(t) \in 1..N
                        /\ t \ {Max(t)} \in SUBSET (1..N)
                        /\ Cardinality(t \ {Max(t)}) = Cardinality(t) - 1
  <1>1. IsFiniteSet(1..N)
    BY FS_Interval
  <1>2. IsFiniteSet(t) /\ Cardinality(t) \in Nat
    BY <1>1, FS_Subset, FS_CardinalityType
  <1>3. t = {} <=> Cardinality(t) = 0
    BY <1>2, FS_EmptySet
  <1>4. ASSUME t # {} PROVE Max(t) \in t
    <2>1. t \in SUBSET Int
      OBVIOUS
    <2> QED
      BY <1>2, <1>4, <2>1, MaxIn
  <1>5. ASSUME t # {} PROVE Cardinality(t \ {Max(t)}) = Cardinality(t) - 1
    BY <1>2, <1>4, <1>5, FS_RemoveElement
  <1> QED
    BY <1>2, <1>3, <1>4, <1>5

\* What the empty set has, and a set as soon as it has it without its
\* greatest index, all have.
LEMMA IndexInduction ==
    ASSUME NEW N \in Nat, NEW P, {} \in P,
           \A t \in SUBSET (1..N) : t # {} /\ t \ {Max(t)} \in P => t \in P
    PROVE  \A t \in SUBSET (1..N) : t \in P
  <1> DEFINE F == {t \in SUBSET (1..N) : t \notin P}
  <1>1. ASSUME F # {} PROVE FALSE
    <2>1. \A t \in F : t \in SUBSET (1..N) /\ t \notin P
      OBVIOUS
    <2>2. \A t \in F : IsFiniteSet(t)
      BY <2>1, IndexSets
    <2>3. PICK t \in F : \A u \in F : Cardinality(t) <= Cardinality(u)
      <3> HIDE DEF F
      <3> QED
        BY <1>1, <2>2, SmallestSet
    <2>4. t \in SUBSET (1..N) /\ t \notin P /\ t # {}
      BY <2>1
    <2>5. /\ t \ {Max(t)} \in SUBSET (1..N) /\ Cardinality(t) \in Nat
          /\ Cardinality(t \ {Max(t)}) = Cardinality(t) - 1
      BY <2>4, IndexSets
    <2>6. t \ {Max(t)} \notin F
      <3> HIDE DEF F
      <3> QED
        BY <2>3, <2>5
    <2> QED
      BY <2>4, <2>5, <2>6
  <1> QED
    BY <1>1

\* it folds f over the members of D, the greatest index applied last.
FoldsTo(it, f, b, s, D) ==
    it = [t \in D |-> IF t = {} THEN b ELSE f[<<it[t \ {Max(t)}], s[Max(t)]>>]]

LEMMA FoldsExist ==
    ASSUME NEW f, NEW b, NEW s, NEW N \in Nat
    PROVE  \E it : FoldsTo(it, f, b, s, SUBSET (1..N))
  <1> DEFINE D(n) == {t \in SUBSET (1..N) : Cardinality(t) <= n}
             Bad == {n \in Nat : ~ \E it : FoldsTo(it, f, b, s, D(n))}
  <1>1. \A t \in SUBSET (1..N) :
            /\ IsFiniteSet(t) /\ Cardinality(t) \in Nat
            /\ t = {} <=> Cardinality(t) = 0
            /\ t # {} => /\ t \ {Max(t)} \in SUBSET (1..N)
                         /\ Cardinality(t \ {Max(t)}) = Cardinality(t) - 1
    BY IndexSets
  <1>2. Bad = {}
    <2> SUFFICES ASSUME Bad # {} PROVE FALSE
      OBVIOUS
    <2>1. Bad \in SUBSET Nat
      OBVIOUS
    <2>2. PICK n \in Bad : \A m \in Bad : n <= m
      BY LeastNat
    <2>3. CASE n = 0
      <3> DEFINE g == [t \in D(0) |-> b]
      <3>1. ASSUME NEW t \in D(0) PROVE t = {}
        <4>1. t \in SUBSET (1..N) /\ Cardinality(t) <= 0
          OBVIOUS
        <4>2. Cardinality(t) \in Nat
          BY <4>1, <1>1
        <4> HIDE DEF Bad, D
        <4>3. Cardinality(t) = 0
          BY <4>1, <4>2
        <4> QED
          BY <4>1, <4>3, <1>1
      <3>2. FoldsTo(g, f, b, s, D(0))
        BY <3>1 DEF FoldsTo
      <3> QED
        BY <2>3, <3>2
    <2>4. CASE n # 0
      <3>1. n \in Nat /\ n - 1 \in Nat /\ n - 1 \notin Bad
        <4> HIDE DEF Bad
        <4> QED
          BY <2>1, <2>2, <2>4
      <3>2. PICK h : FoldsTo(h, f, b, s, D(n - 1))
        BY <3>1
      <3> DEFINE g == [t \in D(n) |-> IF t = {} THEN b ELSE f[<<h[t \ {Max(t)}], s[Max(t)]>>]]
      <3>3. ASSUME NEW t \in D(n), t # {}
            PROVE  g[t \ {Max(t)}] = h[t \ {Max(t)}]
        <4> DEFINE r == t \ {Max(t)}
        <4>1. r \in D(n - 1) /\ r \in D(n)
          <5>1. t \in SUBSET (1..N) /\ Cardinality(t) <= n
            OBVIOUS
          <5>2. /\ Cardinality(t) \in Nat /\ r \in SUBSET (1..N)
                /\ Cardinality(r) = Cardinality(t) - 1
            BY <1>1, <3>3, <5>1
          <5> HIDE DEF r, Bad
          <5> QED
            BY <3>1, <5>1, <5>2
        <4>2. h[r] = IF r = {} THEN b ELSE f[<<h[r \ {Max(r)}], s[Max(r)]>>]
          BY <3>2, <4>1 DEF FoldsTo
        <4> HIDE DEF r
        <4> QED
          BY <4>1, <4>2 DEF r
      <3>4. FoldsTo(g, f, b, s, D(n))
        BY <3>3 DEF FoldsTo
      <3> QED
        BY <3>4
    <2> QED
      BY <2>3, <2>4
  <1>3. D(N) = SUBSET (1..N)
    <2>1. ASSUME NEW t \in SUBSET (1..N) PROVE Cardinality(t) <= N
      <3>1. IsFiniteSet(1..N) /\ Cardinality(1..N) = N
        BY FS_Interval
      <3> QED
        BY <3>1, FS_Subset
    <2> QED
      BY <2>1
  <1> QED
    BY <1>2, <1>3

\* As long as it stays in S, it folds f.
StepsTo(it, f, b, s, S) ==
    /\ it[{}] = b
    /\ \A t \in SUBSET (1..Len(s)) : t # {} /\ it[t \ {Max(t)}] \in S =>
           it[t] = f[<<it[t \ {Max(t)}], s[Max(t)]>>]

\* A fold of a function that stays in S stays in S.
LEMMA FoldWithin ==
    ASSUME NEW S, NEW E, NEW f \in [S \X E -> S], NEW b \in S, NEW s \in Seq(E), NEW it,
           StepsTo(it, f, b, s, S)
    PROVE  \A t \in SUBSET (1..Len(s)) : it[t] \in S
  <1> DEFINE P == {t \in SUBSET (1..Len(s)) : it[t] \in S}
  <1>1. Len(s) \in Nat /\ \A n \in 1..Len(s) : s[n] \in E
    OBVIOUS
  <1>2. {} \in P
    BY DEF StepsTo
  <1>3. ASSUME NEW t \in SUBSET (1..Len(s)), t # {}, t \ {Max(t)} \in P PROVE t \in P
    <2>1. Max(t) \in 1..Len(s)
      BY <1>1, <1>3, IndexSets
    <2>2. it[t \ {Max(t)}] \in S /\ s[Max(t)] \in E
      BY <1>1, <1>3, <2>1
    <2>3. it[t] = f[<<it[t \ {Max(t)}], s[Max(t)]>>]
      BY <1>3, <2>2 DEF StepsTo
    <2> QED
      BY <2>2, <2>3
  <1>4. \A t \in SUBSET (1..Len(s)) : t \in P
    <2> HIDE DEF P
    <2> QED
      BY <1>1, <1>2, <1>3, IndexInduction
  <1> QED
    BY <1>4

\* it is such a fold.
IsFold(it, f, b, s, S, E) ==
    /\ FoldsTo(it, f, b, s, SUBSET DOMAIN s)
    /\ \A t \in SUBSET DOMAIN s : t # {} => /\ t \ {Max(t)} \in SUBSET DOMAIN s
                                            /\ it[t \ {Max(t)}] \in S /\ s[Max(t)] \in E

LEMMA FoldExists ==
    ASSUME NEW S, NEW E, NEW f \in [S \X E -> S], NEW b \in S, NEW s \in Seq(E)
    PROVE  \E it : IsFold(it, f, b, s, S, E)
  <1>1. Len(s) \in Nat /\ DOMAIN s = 1..Len(s) /\ \A n \in 1..Len(s) : s[n] \in E
    OBVIOUS
  <1>2. PICK it : FoldsTo(it, f, b, s, SUBSET (1..Len(s)))
    BY <1>1, FoldsExist
  <1>3. StepsTo(it, f, b, s, S)
    BY <1>2 DEF FoldsTo, StepsTo
  <1>4. \A t \in SUBSET (1..Len(s)) : it[t] \in S
    BY <1>3, FoldWithin
  <1>5. \A t \in SUBSET (1..Len(s)) : t # {} => /\ t \ {Max(t)} \in SUBSET (1..Len(s))
                                                /\ Max(t) \in 1..Len(s)
    BY <1>1, IndexSets
  <1> QED
    BY <1>1, <1>2, <1>4, <1>5 DEF IsFold

\* A fold goes on where that of a shorter sequence ends.
GoesOneOn(it, jt, f, s, r, x, S) ==
    it[1..Len(s)] \in S /\ jt[1..Len(r)] = f[<<it[1..Len(s)], x>>]

LEMMA FoldExtends ==
    ASSUME NEW S, NEW E, NEW f \in [S \X E -> S], NEW b \in S, NEW s \in Seq(E), NEW x \in E,
           NEW r, r = Append(s, x),
           NEW it, StepsTo(it, f, b, s, S), NEW jt, StepsTo(jt, f, b, r, S)
    PROVE  GoesOneOn(it, jt, f, s, r, x, S)
  <1> DEFINE n == Len(s)
             P == {t \in SUBSET (1..n) : jt[t] = it[t]}
  <1>1. /\ n \in Nat /\ r \in Seq(E) /\ Len(r) = n + 1 /\ r[n + 1] = x
        /\ \A i \in 1..n : r[i] = s[i]
    OBVIOUS
  <1>2. \A t \in SUBSET (1..n) : it[t] \in S
    BY FoldWithin
  <1>3. \A t \in SUBSET (1..(n + 1)) : jt[t] \in S
    <2>1. \A t \in SUBSET (1..Len(r)) : jt[t] \in S
      BY <1>1, FoldWithin
    <2> QED
      BY <1>1, <2>1
  <1>4. {} \in P
    BY DEF StepsTo
  <1>5. ASSUME NEW t \in SUBSET (1..n), t # {}, t \ {Max(t)} \in P PROVE t \in P
    <2>1. PICK m, u : m = Max(t) /\ u = t \ {Max(t)}
      OBVIOUS
    <2>2. m \in 1..n /\ u \in SUBSET (1..n) /\ jt[u] = it[u]
      BY <1>1, <1>5, <2>1, IndexSets
    <2>3. it[t] = f[<<it[u], s[m]>>]
      BY <1>2, <1>5, <2>1, <2>2 DEF StepsTo
    <2>4. t \in SUBSET (1..(n + 1)) /\ u \in SUBSET (1..(n + 1))
      BY <1>1, <2>2
    <2>5. jt[t] = f[<<jt[u], r[m]>>]
      BY <1>1, <1>3, <1>5, <2>1, <2>4 DEF StepsTo
    <2> QED
      BY <1>1, <2>2, <2>3, <2>5
  <1>6. \A t \in SUBSET (1..n) : t \in P
    <2> HIDE DEF P
    <2> QED
      BY <1>1, <1>4, <1>5, IndexInduction
  <1>7. jt[1..n] = it[1..n]
    BY <1>6
  <1>8. PICK t : t = 1..(n + 1)
    OBVIOUS
  <1>9. t \in SUBSET (1..(n + 1)) /\ t # {} /\ n + 1 \in t
    BY <1>1, <1>8
  <1>10. Max(t) = n + 1
    <2>1. IsFiniteSet(t) /\ t \in SUBSET Int
      BY <1>1, <1>8, FS_Interval
    <2>2. Max(t) \in t /\ Max(t) >= n + 1
      BY <1>9, <2>1, MaxIn
    <2> QED
      BY <1>1, <1>8, <2>2
  <1>11. t \ {Max(t)} = 1..n
    BY <1>1, <1>8, <1>10
  <1>12. jt[t \ {Max(t)}] \in S /\ t \in SUBSET (1..Len(r))
    BY <1>1, <1>2, <1>7, <1>9, <1>11
  <1>13. jt[t] = f[<<jt[t \ {Max(t)}], r[Max(t)]>>]
    BY <1>9, <1>12 DEF StepsTo
  <1> QED
    BY <1>1, <1>2, <1>7, <1>8, <1>10, <1>11, <1>13 DEF GoesOneOn

-----------------------------------------------------------------------------
(* The recursion behind a sum.                                             *)

\* The element the recursion removes next.
Pick(s) == CHOOSE x \in s : TRUE

\* g adds up f over the members of D, each reached by removing one element.
AddsUp(g, f, D) ==
    g = [s \in D |-> IF s = {} THEN 0 ELSE f[Pick(s)] + g[s \ {Pick(s)}]]

\* The pick is an element.
LEMMA PickIn == ASSUME NEW s, s # {} PROVE Pick(s) \in s
  BY DEF Pick

\* The recursion has a solution on the subsets of a finite set.
LEMMA SumsExist ==
    ASSUME NEW f, NEW S, IsFiniteSet(S)
    PROVE  \E g : AddsUp(g, f, SUBSET S)
  <1> DEFINE D(n) == {s \in SUBSET S : Cardinality(s) <= n}
             Bad == {n \in Nat : ~ \E g : AddsUp(g, f, D(n))}
  <1>0. \A s \in SUBSET S : /\ IsFiniteSet(s) /\ Cardinality(s) \in Nat
                            /\ s # {} => Cardinality(s \ {Pick(s)}) = Cardinality(s) - 1
                            /\ s # {} <=> Cardinality(s) # 0
    BY FS_Subset, FS_CardinalityType, FS_RemoveElement, FS_EmptySet, PickIn
  <1>1. Bad = {}
    <2> SUFFICES ASSUME Bad # {} PROVE FALSE
      OBVIOUS
    <2>0. Bad \in SUBSET Nat
      OBVIOUS
    <2>1. PICK n \in Bad : \A m \in Bad : n <= m
      BY LeastNat
    <2>2. CASE n = 0
      <3> DEFINE g == [s \in D(0) |-> 0]
      <3>1. ASSUME NEW s \in D(0) PROVE s = {}
        <4>1. s \in SUBSET S /\ Cardinality(s) <= 0
          OBVIOUS
        <4>2. Cardinality(s) \in Nat
          BY <4>1, <1>0
        <4> HIDE DEF Bad, D
        <4>3. Cardinality(s) = 0
          BY <4>1, <4>2
        <4> QED
          BY <4>1, <4>3, <1>0
      <3>2. AddsUp(g, f, D(0))
        BY <3>1 DEF AddsUp
      <3> QED
        BY <2>2, <3>2
    <2>3. CASE n # 0
      <3>1. n \in Nat /\ n - 1 \in Nat /\ n - 1 \notin Bad
        <4> HIDE DEF Bad
        <4> QED
          BY <2>0, <2>1, <2>3
      <3>2. PICK h : AddsUp(h, f, D(n - 1))
        BY <3>1
      <3> DEFINE g == [s \in D(n) |->
                         IF s = {} THEN 0 ELSE f[Pick(s)] + h[s \ {Pick(s)}]]
      <3>3. ASSUME NEW s \in D(n), s # {}
            PROVE  g[s \ {Pick(s)}] = h[s \ {Pick(s)}]
        <4> DEFINE r == s \ {Pick(s)}
        <4>1. r \in D(n - 1) /\ r \in D(n)
          BY <3>1, <3>3, <1>0
        <4>2. h[r] = IF r = {} THEN 0 ELSE f[Pick(r)] + h[r \ {Pick(r)}]
          BY <3>2, <4>1 DEF AddsUp
        <4> HIDE DEF r
        <4> QED
          BY <4>1, <4>2 DEF r
      <3>4. AddsUp(g, f, D(n))
        BY <3>3 DEF AddsUp
      <3> QED
        BY <3>4
    <2> QED
      BY <2>2, <2>3
  <1>2. Cardinality(S) \in Nat /\ D(Cardinality(S)) = SUBSET S
    BY <1>0, FS_Subset, FS_CardinalityType
  <1> QED
    BY <1>1, <1>2

\* The sum is the value of a solution of the recursion.
LEMMA SumIsSolution ==
    ASSUME NEW f, NEW S, IsFiniteSet(S)
    PROVE  \E g : AddsUp(g, f, SUBSET S) /\ SumFunctionOnSet(f, S) = g[S]
  <1> DEFINE it == CHOOSE g : AddsUp(g, f, SUBSET S)
  <1>1. AddsUp(it, f, SUBSET S)
    BY SumsExist
  <1>2. SumFunctionOnSet(f, S) = it[S]
    BY DEF SumFunctionOnSet, FoldFunctionOnSet, MapThenFoldSet, AddsUp, Pick
  <1> QED
    BY <1>1, <1>2
-----------------------------------------------------------------------------
(* Sums of integers.                                                       *)

\* Two solutions, for functions that agree, agree on the subsets both have.
LEMMA SolutionsAgree ==
    ASSUME NEW f, NEW e, NEW S, NEW R, NEW g, NEW h,
           IsFiniteSet(S), IsFiniteSet(R),
           AddsUp(g, f, SUBSET S), AddsUp(h, e, SUBSET R),
           \A x \in S \cap R : f[x] = e[x]
    PROVE  \A T \in SUBSET (S \cap R) : g[T] = h[T]
  <1> DEFINE Bad == {T \in SUBSET (S \cap R) : g[T] # h[T]}
  <1> SUFFICES ASSUME Bad # {} PROVE FALSE
    OBVIOUS
  <1>1. \A T \in Bad : IsFiniteSet(T)
    BY FS_Subset
  <1>2. PICK T \in Bad : \A U \in Bad : Cardinality(T) <= Cardinality(U)
    BY <1>1, SmallestSet
  <1> DEFINE x == Pick(T)
             U == T \ {x}
  <1>3. T # {}
    BY <1>2 DEF AddsUp
  <1>4. x \in T
    BY <1>3, PickIn
  <1>5. U \in SUBSET (S \cap R) /\ U \notin Bad
    <2>1. ~(Cardinality(T) <= Cardinality(U))
      BY <1>1, <1>4, SmallerWithout
    <2> QED
      BY <1>2, <2>1
  <1>6. g[T] = f[x] + g[U] /\ h[T] = e[x] + h[U]
    BY <1>3 DEF AddsUp
  <1> QED
    BY <1>4, <1>5, <1>6

\* The sum over nothing.
LEMMA SumEmpty == ASSUME NEW f PROVE SumFunctionOnSet(f, {}) = 0
  <1>1. IsFiniteSet({})
    BY FS_EmptySet
  <1>2. PICK g : AddsUp(g, f, SUBSET {}) /\ SumFunctionOnSet(f, {}) = g[{}]
    BY <1>1, SumIsSolution
  <1>3. {} \in SUBSET {}
    OBVIOUS
  <1> QED
    BY <1>2, <1>3 DEF AddsUp

\* One step of the recursion, for the sum itself.
LEMMA SumStep ==
    ASSUME NEW f, NEW S, IsFiniteSet(S), S # {}
    PROVE  SumFunctionOnSet(f, S) = f[Pick(S)] + SumFunctionOnSet(f, S \ {Pick(S)})
  <1> DEFINE R == S \ {Pick(S)}
  <1>1. PICK g : AddsUp(g, f, SUBSET S) /\ SumFunctionOnSet(f, S) = g[S]
    BY SumIsSolution
  <1>2. IsFiniteSet(R) /\ R \subseteq S
    BY FS_RemoveElement
  <1>3. PICK h : AddsUp(h, f, SUBSET R) /\ SumFunctionOnSet(f, R) = h[R]
    BY <1>2, SumIsSolution
  <1>4. \A T \in SUBSET (S \cap R) : g[T] = h[T]
    <2> HIDE DEF R
    <2>1. \A x \in S \cap R : f[x] = f[x]
      OBVIOUS
    <2> QED
      BY <1>1, <1>2, <1>3, <2>1, SolutionsAgree
  <1>5. g[R] = h[R]
    BY <1>2, <1>4
  <1>6. g[S] = f[Pick(S)] + g[R]
    BY <1>1 DEF AddsUp
  <1> QED
    BY <1>1, <1>3, <1>5, <1>6

\* Functions that agree on a set have the same sum over it.
LEMMA SumSame ==
    ASSUME NEW f, NEW e, NEW S, IsFiniteSet(S), \A x \in S : f[x] = e[x]
    PROVE  SumFunctionOnSet(f, S) = SumFunctionOnSet(e, S)
  <1>1. PICK g : AddsUp(g, f, SUBSET S) /\ SumFunctionOnSet(f, S) = g[S]
    BY SumIsSolution
  <1>2. PICK h : AddsUp(h, e, SUBSET S) /\ SumFunctionOnSet(e, S) = h[S]
    BY SumIsSolution
  <1> QED
    BY <1>1, <1>2, SolutionsAgree

\* A sum of integers is an integer.
LEMMA SumType ==
    ASSUME NEW f, NEW S, IsFiniteSet(S), \A x \in S : f[x] \in Int
    PROVE  SumFunctionOnSet(f, S) \in Int
  <1> DEFINE Bad == {T \in SUBSET S : SumFunctionOnSet(f, T) \notin Int}
  <1> SUFFICES ASSUME Bad # {} PROVE FALSE
    OBVIOUS
  <1>1. \A T \in Bad : IsFiniteSet(T)
    BY FS_Subset
  <1>2. PICK T \in Bad : \A U \in Bad : Cardinality(T) <= Cardinality(U)
    BY <1>1, SmallestSet
  <1> DEFINE x == Pick(T)
             U == T \ {x}
  <1>3. T # {}
    BY <1>2, SumEmpty
  <1>4. x \in T
    BY <1>3, PickIn
  <1>5. U \in SUBSET S /\ U \notin Bad
    <2>1. ~(Cardinality(T) <= Cardinality(U))
      BY <1>1, <1>4, SmallerWithout
    <2> QED
      BY <1>2, <2>1
  <1>6. SumFunctionOnSet(f, T) = f[x] + SumFunctionOnSet(f, U)
    BY <1>1, <1>3, SumStep
  <1> QED
    BY <1>4, <1>5, <1>6

\* A sum of natural numbers is one.
LEMMA SumNat ==
    ASSUME NEW f, NEW S, IsFiniteSet(S), \A x \in S : f[x] \in Nat
    PROVE  SumFunctionOnSet(f, S) \in Nat
  <1> DEFINE Bad == {T \in SUBSET S : SumFunctionOnSet(f, T) \notin Nat}
  <1> SUFFICES ASSUME Bad # {} PROVE FALSE
    OBVIOUS
  <1>1. \A T \in Bad : IsFiniteSet(T)
    BY FS_Subset
  <1>2. PICK T \in Bad : \A U \in Bad : Cardinality(T) <= Cardinality(U)
    BY <1>1, SmallestSet
  <1> DEFINE x == Pick(T)
             U == T \ {x}
  <1>3. T # {}
    BY <1>2, SumEmpty
  <1>4. x \in T
    BY <1>3, PickIn
  <1>5. U \in SUBSET S /\ U \notin Bad
    <2>1. ~(Cardinality(T) <= Cardinality(U))
      BY <1>1, <1>4, SmallerWithout
    <2> QED
      BY <1>2, <2>1
  <1>6. SumFunctionOnSet(f, T) = f[x] + SumFunctionOnSet(f, U)
    BY <1>1, <1>3, SumStep
  <1> QED
    BY <1>4, <1>5, <1>6

\* A sum of zeros.
LEMMA SumZero ==
    ASSUME NEW f, NEW S, IsFiniteSet(S), \A x \in S : f[x] = 0
    PROVE  SumFunctionOnSet(f, S) = 0
  <1> DEFINE Bad == {T \in SUBSET S : SumFunctionOnSet(f, T) # 0}
  <1> SUFFICES ASSUME Bad # {} PROVE FALSE
    OBVIOUS
  <1>1. \A T \in Bad : IsFiniteSet(T)
    BY FS_Subset
  <1>2. PICK T \in Bad : \A U \in Bad : Cardinality(T) <= Cardinality(U)
    BY <1>1, SmallestSet
  <1> DEFINE x == Pick(T)
             U == T \ {x}
  <1>3. T # {}
    BY <1>2, SumEmpty
  <1>4. x \in T
    BY <1>3, PickIn
  <1>5. U \in SUBSET S /\ U \notin Bad
    <2>1. ~(Cardinality(T) <= Cardinality(U))
      BY <1>1, <1>4, SmallerWithout
    <2> QED
      BY <1>2, <2>1
  <1>6. SumFunctionOnSet(f, T) = f[x] + SumFunctionOnSet(f, U)
    BY <1>1, <1>3, SumStep
  <1> QED
    BY <1>4, <1>5, <1>6

\* Any element may be taken out first.
LEMMA SumTakeOut ==
    ASSUME NEW f, NEW S, IsFiniteSet(S), \A x \in S : f[x] \in Int
    PROVE  \A x \in S : SumFunctionOnSet(f, S) = f[x] + SumFunctionOnSet(f, S \ {x})
  <1> DEFINE Bad == {T \in SUBSET S : \E x \in T : SumFunctionOnSet(f, T) # f[x] + SumFunctionOnSet(f, T \ {x})}
  <1> SUFFICES ASSUME Bad # {} PROVE FALSE
    OBVIOUS
  <1>1. \A T \in SUBSET S : IsFiniteSet(T)
    BY FS_Subset
  <1>2. PICK T \in Bad : \A U \in Bad : Cardinality(T) <= Cardinality(U)
    <2>1. \A T \in Bad : IsFiniteSet(T)
      BY <1>1
    <2> HIDE DEF Bad
    <2> QED
      BY <2>1, SmallestSet
  <1>3. PICK x \in T : SumFunctionOnSet(f, T) # f[x] + SumFunctionOnSet(f, T \ {x})
    BY <1>2
  <1> DEFINE p == Pick(T)
  <1>4. p \in T /\ SumFunctionOnSet(f, T) = f[p] + SumFunctionOnSet(f, T \ {p})
    BY <1>1, <1>3, PickIn, SumStep
  <1>5. x # p
    BY <1>3, <1>4
  <1>6. ASSUME NEW y \in T PROVE T \ {y} \in SUBSET S /\ T \ {y} \notin Bad
    <2>2. ~(Cardinality(T) <= Cardinality(T \ {y}))
      BY <1>1, SmallerWithout
    <2> HIDE DEF Bad
    <2>3. T \in SUBSET S
      BY DEF Bad
    <2> QED
      BY <1>2, <2>2, <2>3
  <1>7. SumFunctionOnSet(f, T \ {p}) = f[x] + SumFunctionOnSet(f, (T \ {p}) \ {x})
    BY <1>4, <1>5, <1>6
  <1>8. SumFunctionOnSet(f, T \ {x}) = f[p] + SumFunctionOnSet(f, (T \ {x}) \ {p})
    BY <1>4, <1>5, <1>6
  <1>9. (T \ {x}) \ {p} = (T \ {p}) \ {x}
    OBVIOUS
  <1>10. SumFunctionOnSet(f, (T \ {p}) \ {x}) \in Int /\ f[x] \in Int /\ f[p] \in Int
    <2>1. (T \ {p}) \ {x} \in SUBSET S
      OBVIOUS
    <2> QED
      BY <1>1, <1>4, <2>1, SumType
  <1>11. SumFunctionOnSet(f, T) = f[p] + (f[x] + SumFunctionOnSet(f, (T \ {p}) \ {x}))
    BY <1>4, <1>7
  <1>12. f[x] + SumFunctionOnSet(f, T \ {x}) = f[x] + (f[p] + SumFunctionOnSet(f, (T \ {p}) \ {x}))
    BY <1>8, <1>9
  <1> HIDE DEF Bad, p
  <1> QED
    BY <1>3, <1>10, <1>11, <1>12

\* One more element adds its value.
LEMMA SumAdd ==
    ASSUME NEW f, NEW S, IsFiniteSet(S), NEW x, x \notin S,
           \A y \in S \cup {x} : f[y] \in Int
    PROVE  SumFunctionOnSet(f, S \cup {x}) = SumFunctionOnSet(f, S) + f[x]
  <1>1. IsFiniteSet(S \cup {x})
    BY FS_AddElement
  <1>2. SumFunctionOnSet(f, S \cup {x}) = f[x] + SumFunctionOnSet(f, (S \cup {x}) \ {x})
    BY <1>1, SumTakeOut
  <1>3. (S \cup {x}) \ {x} = S
    OBVIOUS
  <1>4. SumFunctionOnSet(f, S) \in Int /\ f[x] \in Int
    BY SumType
  <1>5. SumFunctionOnSet(f, S \cup {x}) = f[x] + SumFunctionOnSet(f, S)
    BY <1>2, <1>3
  <1> QED
    BY <1>4, <1>5

\* A change of one value changes the sum by as much.
LEMMA SumChange ==
    ASSUME NEW f, NEW e, NEW S, IsFiniteSet(S), NEW x \in S,
           \A y \in S : f[y] \in Int /\ e[y] \in Int,
           \A y \in S \ {x} : e[y] = f[y]
    PROVE  SumFunctionOnSet(e, S) = SumFunctionOnSet(f, S) + (e[x] - f[x])
  <1> DEFINE R == S \ {x}
  <1>1. IsFiniteSet(R) /\ R \subseteq S
    BY FS_RemoveElement
  <1>2. SumFunctionOnSet(f, S) = f[x] + SumFunctionOnSet(f, R)
    BY SumTakeOut
  <1>3. SumFunctionOnSet(e, S) = e[x] + SumFunctionOnSet(e, R)
    BY SumTakeOut
  <1>4. SumFunctionOnSet(e, R) = SumFunctionOnSet(f, R)
    BY <1>1, SumSame
  <1>5. SumFunctionOnSet(f, R) \in Int /\ f[x] \in Int /\ e[x] \in Int
    BY <1>1, SumType
  <1> HIDE DEF R
  <1> QED
    BY <1>2, <1>3, <1>4, <1>5

\* The sum over two disjoint sets is the sum of their sums.
LEMMA SumUnion ==
    ASSUME NEW f, NEW S, NEW T, IsFiniteSet(S), IsFiniteSet(T), S \cap T = {},
           \A y \in S \cup T : f[y] \in Int
    PROVE  SumFunctionOnSet(f, S \cup T) = SumFunctionOnSet(f, S) + SumFunctionOnSet(f, T)
  <1> DEFINE Good(U) == SumFunctionOnSet(f, S \cup U)
                          = SumFunctionOnSet(f, S) + SumFunctionOnSet(f, U)
             Bad == {U \in SUBSET T : ~Good(U)}
  <1> SUFFICES ASSUME Bad # {} PROVE FALSE
    OBVIOUS
  <1>1. \A U \in SUBSET T : IsFiniteSet(U) /\ IsFiniteSet(S \cup U)
    BY FS_Subset, FS_Union
  <1>2. PICK U \in Bad : \A V \in Bad : Cardinality(U) <= Cardinality(V)
    <2>1. \A U \in Bad : IsFiniteSet(U)
      BY <1>1
    <2> HIDE DEF Bad
    <2> QED
      BY <2>1, SmallestSet
  <1>3. U \in SUBSET T /\ ~Good(U)
    BY <1>2
  <1>4. \A V \in SUBSET T : SumFunctionOnSet(f, V) \in Int
    BY <1>1, SumType
  <1>5. SumFunctionOnSet(f, S) \in Int
    BY SumType
  <1>6. U # {}
    <2>1. SumFunctionOnSet(f, {}) = 0 /\ S \cup {} = S
      BY SumEmpty
    <2>2. SumFunctionOnSet(f, S) = SumFunctionOnSet(f, S) + SumFunctionOnSet(f, {})
      BY <1>5, <2>1
    <2>3. Good({})
      BY <2>1, <2>2
    <2> QED
      BY <1>3, <2>3
  <1>7. PICK x \in U : TRUE
    BY <1>6
  <1> DEFINE V == U \ {x}
  <1>8. V \in SUBSET T /\ Good(V)
    <2>1. ~(Cardinality(U) <= Cardinality(V))
      BY <1>1, <1>3, SmallerWithout
    <2>2. V \in SUBSET T
      BY <1>3
    <2> QED
      BY <1>2, <2>1, <2>2
  <1>9. SumFunctionOnSet(f, U) = SumFunctionOnSet(f, V) + f[x]
    <2>1. U = V \cup {x} /\ x \notin V
      OBVIOUS
    <2>2. \A y \in V \cup {x} : f[y] \in Int
      BY <1>3
    <2>3. IsFiniteSet(V)
      BY <1>1, <1>8
    <2> HIDE DEF V
    <2> QED
      BY <2>1, <2>2, <2>3, SumAdd
  <1>10. SumFunctionOnSet(f, S \cup U) = SumFunctionOnSet(f, S \cup V) + f[x]
    <2>1. S \cup U = (S \cup V) \cup {x} /\ x \notin S \cup V
      BY <1>3
    <2>2. \A y \in (S \cup V) \cup {x} : f[y] \in Int
      BY <1>3
    <2>3. IsFiniteSet(S \cup V)
      BY <1>1, <1>8
    <2> DEFINE W == S \cup V
    <2> HIDE DEF W
    <2>4. SumFunctionOnSet(f, W \cup {x}) = SumFunctionOnSet(f, W) + f[x]
      BY <2>1, <2>2, <2>3, SumAdd DEF W
    <2> QED
      BY <2>1, <2>4 DEF W
  <1>11. f[x] \in Int /\ SumFunctionOnSet(f, V) \in Int
    BY <1>3, <1>4, <1>8
  <1>12. SumFunctionOnSet(f, S \cup V)
           = SumFunctionOnSet(f, S) + SumFunctionOnSet(f, V)
    BY <1>8
  <1>13. SumFunctionOnSet(f, S \cup U)
           # SumFunctionOnSet(f, S) + SumFunctionOnSet(f, U)
    BY <1>3
  <1> HIDE DEF Bad, V, Good
  <1> QED
    BY <1>5, <1>9, <1>10, <1>11, <1>12, <1>13

\* A sum may be taken over the images of a one-to-one map.
LEMMA SumImages ==
    ASSUME NEW S, NEW T, IsFiniteSet(S), NEW at \in Injection(S, T),
           NEW f, \A y \in T : f[y] \in Int,
           NEW e, \A x \in S : e[x] = f[at[x]]
    PROVE  SumFunctionOnSet(e, S) = SumFunctionOnSet(f, {at[x] : x \in S})
  <1> DEFINE Image(U) == {at[x] : x \in U}
             Good(U) == SumFunctionOnSet(e, U) = SumFunctionOnSet(f, Image(U))
             Bad == {U \in SUBSET S : ~Good(U)}
  <1> SUFFICES ASSUME Bad # {} PROVE FALSE
    OBVIOUS
  <1>1. at \in [S -> T] /\ \A x, y \in S : at[x] = at[y] => x = y
    BY DEF Injection, IsInjective
  <1>2. \A U \in SUBSET S : IsFiniteSet(U) /\ IsFiniteSet(Image(U))
    <2>1. \A U \in SUBSET S : IsFiniteSet(U)
      BY FS_Subset
    <2> QED
      BY <2>1, ImageFinite
  <1>3. PICK U \in Bad : \A V \in Bad : Cardinality(U) <= Cardinality(V)
    <2>1. \A U \in Bad : IsFiniteSet(U)
      BY <1>2
    <2> HIDE DEF Bad
    <2> QED
      BY <2>1, SmallestSet
  <1>4. U \in SUBSET S /\ ~Good(U)
    BY <1>3
  <1>5. U # {}
    <2>1. Image({}) = {} /\ SumFunctionOnSet(e, {}) = 0 /\ SumFunctionOnSet(f, {}) = 0
      BY SumEmpty
    <2> QED
      BY <1>4, <2>1
  <1>6. PICK x \in U : TRUE
    BY <1>5
  <1> DEFINE V == U \ {x}
  <1>7. V \in SUBSET S /\ Good(V)
    <2>1. ~(Cardinality(U) <= Cardinality(V))
      BY <1>2, <1>4, SmallerWithout
    <2>2. V \in SUBSET S
      BY <1>4
    <2> QED
      BY <1>3, <2>1, <2>2
  <1>8. SumFunctionOnSet(e, U) = SumFunctionOnSet(e, V) + e[x]
    <2>1. U = V \cup {x} /\ x \notin V
      OBVIOUS
    <2>2. \A y \in V \cup {x} : e[y] \in Int
      BY <1>1, <1>4
    <2>3. IsFiniteSet(V)
      BY <1>2, <1>7
    <2> HIDE DEF V
    <2> QED
      BY <2>1, <2>2, <2>3, SumAdd
  <1>9. SumFunctionOnSet(f, Image(U)) = SumFunctionOnSet(f, Image(V)) + f[at[x]]
    <2>1. Image(U) = Image(V) \cup {at[x]} /\ at[x] \notin Image(V)
      BY <1>1, <1>4
    <2>2. \A y \in Image(V) \cup {at[x]} : f[y] \in Int
      BY <1>1, <1>4
    <2>3. IsFiniteSet(Image(V))
      BY <1>2, <1>7
    <2>4. PICK W, z : W = Image(V) /\ z = at[x]
      OBVIOUS
    <2>5. SumFunctionOnSet(f, W \cup {z}) = SumFunctionOnSet(f, W) + f[z]
      BY <2>1, <2>2, <2>3, <2>4, SumAdd
    <2> QED
      BY <2>1, <2>4, <2>5
  <1>10. e[x] = f[at[x]]
    BY <1>4
  <1> HIDE DEF Image, V, Bad
  <1> QED
    BY <1>4, <1>7, <1>8, <1>9, <1>10

\* Terms that differ by at most c in twice their value have sums that differ by
\* at most c for each term.
LEMMA SumNear ==
    ASSUME NEW S, IsFiniteSet(S), NEW c \in Nat, NEW e, NEW f,
           \A x \in S : e[x] \in Int /\ f[x] \in Int,
           \A x \in S : 2 * e[x] - 2 * f[x] <= c /\ 2 * f[x] - 2 * e[x] <= c
    PROVE  LET gap == 2 * SumFunctionOnSet(e, S) - 2 * SumFunctionOnSet(f, S)
           IN  gap <= c * Cardinality(S) /\ -gap <= c * Cardinality(S)
  <1> DEFINE Gap(U) == 2 * SumFunctionOnSet(e, U) - 2 * SumFunctionOnSet(f, U)
             Good(U) == Gap(U) <= c * Cardinality(U) /\ -Gap(U) <= c * Cardinality(U)
             Bad == {U \in SUBSET S : ~Good(U)}
  <1> SUFFICES ASSUME Bad # {} PROVE FALSE
    OBVIOUS
  <1>1. \A U \in SUBSET S : IsFiniteSet(U) /\ Cardinality(U) \in Nat
    BY FS_Subset, FS_CardinalityType
  <1>2. PICK U \in Bad : \A V \in Bad : Cardinality(U) <= Cardinality(V)
    <2>1. \A U \in Bad : IsFiniteSet(U)
      BY <1>1
    <2> HIDE DEF Bad
    <2> QED
      BY <2>1, SmallestSet
  <1>3. U \in SUBSET S /\ ~Good(U)
    BY <1>2
  <1>4. \A V \in SUBSET S : SumFunctionOnSet(e, V) \in Int /\ SumFunctionOnSet(f, V) \in Int
    BY <1>1, SumType
  <1>5. U # {}
    <2>1. SumFunctionOnSet(e, {}) = 0 /\ SumFunctionOnSet(f, {}) = 0
      BY SumEmpty
    <2>2. Cardinality({}) = 0 /\ c * 0 = 0
      BY FS_EmptySet
    <2>3. Good({})
      BY <2>1, <2>2
    <2> QED
      BY <1>3, <2>3
  <1>6. PICK x \in U : TRUE
    BY <1>5
  <1> DEFINE V == U \ {x}
  <1>7. V \in SUBSET S /\ Good(V) /\ Cardinality(U) = Cardinality(V) + 1
    <2>1. ~(Cardinality(U) <= Cardinality(V))
      BY <1>1, <1>3, SmallerWithout
    <2>2. V \in SUBSET S
      BY <1>3
    <2>3. Cardinality(V) = Cardinality(U) - 1
      BY <1>1, <1>3, FS_RemoveElement
    <2> QED
      BY <1>1, <1>2, <1>3, <2>1, <2>2, <2>3
  <1>8. /\ SumFunctionOnSet(e, U) = e[x] + SumFunctionOnSet(e, V)
        /\ SumFunctionOnSet(f, U) = f[x] + SumFunctionOnSet(f, V)
    <2>1. IsFiniteSet(U) /\ \A y \in U : e[y] \in Int /\ f[y] \in Int
      BY <1>1, <1>3
    <2> QED
      BY <2>1, SumTakeOut
  <1>9. /\ e[x] \in Int /\ f[x] \in Int
        /\ 2 * e[x] - 2 * f[x] <= c /\ 2 * f[x] - 2 * e[x] <= c
    BY <1>3
  <1>10. PICK a, b, u, v, n : /\ a = SumFunctionOnSet(e, V) /\ b = SumFunctionOnSet(f, V)
                              /\ u = e[x] /\ v = f[x] /\ n = Cardinality(V)
    OBVIOUS
  <1>11. a \in Int /\ b \in Int /\ n \in Nat /\ c * n \in Nat /\ c * (n + 1) = c * n + c
    <2>1. a \in Int /\ b \in Int /\ n \in Nat
      BY <1>1, <1>4, <1>7, <1>10
    <2> QED
      BY <2>1
  <1>12. 2 * a - 2 * b <= c * n /\ -(2 * a - 2 * b) <= c * n
    BY <1>7, <1>10
  <1>13. 2 * (u + a) - 2 * (v + b) <= c * n + c /\ -(2 * (u + a) - 2 * (v + b)) <= c * n + c
    BY <1>9, <1>10, <1>11, <1>12
  <1>14. Good(U)
    BY <1>7, <1>8, <1>10, <1>11, <1>13
  <1> QED
    BY <1>3, <1>14
=============================================================================
