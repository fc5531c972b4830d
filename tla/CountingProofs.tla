---------------------------- MODULE CountingProofs ---------------------------
(***************************************************************************)
(* Facts about numbers and sums that the proofs of the tables rest on: the *)
(* least number of a set, and the sum over a function that FoldFunction    *)
(* computes, which changes by what one of its values changes by; and about *)
(* sequences that FlattenSeq joins.                                        *)
(***************************************************************************)
EXTENDS Integers, FiniteSets, SequencesExt, FiniteSetTheorems, SequenceTheorems, TLAPS

(* Every set of numbers has a least one.  The library's induction needs an  *)
(* operator as a parameter; this follows from the subsets of a finite set   *)
(* being well-founded.                                                      *)
LEMMA LeastNumber ==
  ASSUME NEW T, T \subseteq Nat, T # {}
  PROVE  \E n \in T : \A m \in T : n <= m
<1>1. PICK top \in T : top \in Nat
  OBVIOUS
<1> DEFINE S == 0 .. top
           F == {0 .. m : m \in T \cap S}
<1>2. IsFiniteSet(S)
  BY <1>1, FS_Interval
<1>3. IsWellFoundedOn(StrictSubsetOrdering(S), FiniteSubsetsOf(S))
  BY <1>2, FS_StrictSubsetOrderingWellFounded
<1>4. F \subseteq FiniteSubsetsOf(S)
  <2>1. F \subseteq SUBSET S
    BY <1>1
  <2> QED
    BY <1>2, <2>1, FS_FiniteSubsetsOfFinite
<1>5. F # {}
  BY <1>1
<1>6. PICK x \in F : \A y \in F : ~(<<y, x>> \in StrictSubsetOrdering(S))
  <2> HIDE DEF F, S
  <2> QED
    BY <1>3, <1>4, <1>5, WFMin
<1>7. PICK n \in T \cap S : x = 0 .. n
  OBVIOUS
<1>8. ASSUME NEW m \in T, ~(n <= m)
      PROVE  FALSE
  <2>1. m \in Nat /\ n \in Nat /\ m \in S /\ n <= top
    BY <1>1, <1>7, <1>8
  <2>2. 0 .. m \in F
    BY <2>1
  <2>3. 0 .. m \subseteq 0 .. n /\ 0 .. m # 0 .. n
    BY <1>8, <2>1
  <2>4. 0 .. m \in SUBSET S /\ 0 .. n \in SUBSET S
    BY <1>1, <2>1
  <2>5. <<0 .. m, 0 .. n>> \in StrictSubsetOrdering(S)
    <3> HIDE DEF S
    <3> QED
      BY <2>3, <2>4 DEF StrictSubsetOrdering
  <2> QED
    BY <1>6, <1>7, <2>2, <2>5
<1> QED
  BY <1>7, <1>8

(* The fold that the count is compared with, as a function on the sets of   *)
(* places that are still to be added.                                       *)
Member(s) == CHOOSE x \in s : TRUE
PartSums(u) ==
  CHOOSE g : g = [s \in SUBSET (DOMAIN u) |->
                    IF s = {} THEN 0 ELSE u[Member(s)] + g[s \ {Member(s)}]]
Total(u) == PartSums(u)[DOMAIN u]

LEMMA FoldIsTotal == \A u : FoldFunction(+, 0, u) = Total(u)
BY DEF FoldFunction, FoldFunctionOnSet, MapThenFoldSet, Total, PartSums, Member

PartsAdd(u, S) ==
  /\ PartSums(u) \in [SUBSET S -> Int]
  /\ \A s \in SUBSET S :
       PartSums(u)[s] = IF s = {} THEN 0 ELSE u[Member(s)] + PartSums(u)[s \ {Member(s)}]

LEMMA PartSumsDefined ==
  ASSUME NEW S, IsFiniteSet(S), NEW u \in [S -> Int]
  PROVE  PartsAdd(u, S)
<1> DEFINE UpTo(n) == {s \in SUBSET S : Cardinality(s) <= n}
           Adds(g, D) == g = [s \in D |-> IF s = {} THEN 0 ELSE u[Member(s)] + g[s \ {Member(s)}]]
           Missing == {n \in Nat : ~\E g \in [UpTo(n) -> Int] : Adds(g, UpTo(n))}
<1>1. ASSUME NEW s \in SUBSET S
      PROVE  /\ Cardinality(s) \in Nat
             /\ Cardinality(s) <= Cardinality(S) /\ Cardinality(S) \in Nat
             /\ Cardinality(s) = 0 <=> s = {}
             /\ s # {} => /\ Member(s) \in s
                          /\ s \ {Member(s)} \in SUBSET S
                          /\ Cardinality(s \ {Member(s)}) = Cardinality(s) - 1
  <2>1. IsFiniteSet(s)
    BY FS_Subset
  <2>2. s # {} => Member(s) \in s
    BY DEF Member
  <2> QED
    BY <2>1, <2>2, FS_Subset, FS_CardinalityType, FS_EmptySet, FS_RemoveElement
<1>2. Missing = {}
  <2>1. SUFFICES ASSUME Missing # {}
                 PROVE  FALSE
    OBVIOUS
  <2>2. PICK n \in Missing : \A m \in Missing : n <= m
    <3>1. Missing \subseteq Nat
      OBVIOUS
    <3> HIDE DEF Missing
    <3> QED
      BY <2>1, <3>1, LeastNumber
  <2>3. n # 0
    <3>1. UpTo(0) = {{}}
      <4>1. ASSUME NEW s \in UpTo(0)
            PROVE  s = {}
        <5>1. s \in SUBSET S /\ Cardinality(s) <= 0
          OBVIOUS
        <5>2. Cardinality(s) \in Nat
          BY <1>1, <5>1
        <5>3. Cardinality(s) = 0
          BY <5>1, <5>2
        <5> QED
          BY <1>1, <5>1, <5>3
      <4>2. {} \in UpTo(0)
        BY FS_EmptySet
      <4> QED
        BY <4>1, <4>2
    <3> DEFINE g == [s \in UpTo(0) |-> 0]
    <3>2. g \in [UpTo(0) -> Int]
      OBVIOUS
    <3>3. Adds(g, UpTo(0))
      BY <3>1
    <3>4. 0 \notin Missing
      <4> HIDE DEF g, UpTo
      <4> QED
        BY <3>2, <3>3
    <3> QED
      BY <2>2, <3>4
  <2>4. n \in Nat /\ n - 1 \in Nat /\ n - 1 \notin Missing
    <3>1. n \in Nat
      OBVIOUS
    <3>2. n - 1 \in Nat
      BY <2>3, <3>1
    <3> HIDE DEF Missing
    <3>3. n - 1 \notin Missing
      BY <2>2, <3>1
    <3> QED
      BY <3>1, <3>2, <3>3
  <2>5. PICK g \in [UpTo(n - 1) -> Int] : Adds(g, UpTo(n - 1))
    BY <2>4
  <2> DEFINE h == [s \in UpTo(n) |-> IF s = {} THEN 0 ELSE u[Member(s)] + g[s \ {Member(s)}]]
  <2>6. ASSUME NEW s \in UpTo(n), s # {}
        PROVE  s \ {Member(s)} \in UpTo(n - 1) /\ u[Member(s)] \in Int
    <3>1. /\ s \in SUBSET S /\ Cardinality(s) <= n
          /\ Member(s) \in s /\ s \ {Member(s)} \in SUBSET S
          /\ Cardinality(s \ {Member(s)}) = Cardinality(s) - 1
          /\ Cardinality(s) \in Nat
      BY <1>1, <2>6
    <3>2. s \ {Member(s)} \in UpTo(n - 1)
      BY <2>4, <3>1
    <3> QED
      BY <3>1, <3>2
  <2>7. h \in [UpTo(n) -> Int]
    BY <2>6
  <2>8. ASSUME NEW s \in UpTo(n - 1)
        PROVE  s \in UpTo(n) /\ h[s] = g[s]
    <3>1. s \in UpTo(n)
      <4>1. s \in SUBSET S /\ Cardinality(s) <= n - 1
        OBVIOUS
      <4>2. Cardinality(s) \in Nat
        BY <1>1, <4>1
      <4> QED
        BY <2>4, <4>1, <4>2
    <3>2. g[s] = IF s = {} THEN 0 ELSE u[Member(s)] + g[s \ {Member(s)}]
      BY <2>5
    <3>3. h[s] = IF s = {} THEN 0 ELSE u[Member(s)] + g[s \ {Member(s)}]
      BY <3>1
    <3> QED
      BY <3>1, <3>2, <3>3
  <2>9. Adds(h, UpTo(n))
    BY <2>6, <2>8
  <2> QED
    BY <2>2, <2>7, <2>9
<1>3. UpTo(Cardinality(S)) = SUBSET S /\ Cardinality(S) \notin Missing
  BY <1>1, <1>2
<1>4. PICK g \in [SUBSET S -> Int] : Adds(g, SUBSET S)
  <2> HIDE DEF UpTo
  <2>1. Cardinality(S) \in Nat
    BY <1>1
  <2> QED
    BY <1>3, <2>1
<1>5. Adds(PartSums(u), SUBSET S)
  <2>1. DOMAIN u = S
    OBVIOUS
  <2> QED
    BY <1>4, <2>1 DEF PartSums
<1>6. \A s \in SUBSET S : PartSums(u)[s] \in Int
  <2> DEFINE Bad == {n \in Nat : \E s \in SUBSET S : Cardinality(s) = n /\ PartSums(u)[s] \notin Int}
  <2>1. SUFFICES ASSUME Bad # {}
                 PROVE  FALSE
    BY <1>1
  <2>2. PICK n \in Bad : \A m \in Bad : n <= m
    <3>1. Bad \subseteq Nat
      OBVIOUS
    <3> HIDE DEF Bad
    <3> QED
      BY <2>1, <3>1, LeastNumber
  <2>3. PICK s \in SUBSET S : Cardinality(s) = n /\ PartSums(u)[s] \notin Int
    BY <2>2
  <2>4. PartSums(u)[s] = IF s = {} THEN 0 ELSE u[Member(s)] + PartSums(u)[s \ {Member(s)}]
    BY <1>5
  <2>5. s # {} /\ u[Member(s)] \in Int
    BY <1>1, <2>3, <2>4
  <2>6. PartSums(u)[s \ {Member(s)}] \notin Int
    BY <2>3, <2>4, <2>5
  <2>7. n - 1 \in Bad
    <3>1. s \ {Member(s)} \in SUBSET S /\ Cardinality(s \ {Member(s)}) = n - 1
      BY <1>1, <2>3, <2>5
    <3>2. n - 1 \in Nat
      <4>1. Cardinality(s \ {Member(s)}) \in Nat
        BY <1>1, <3>1
      <4> QED
        BY <3>1, <4>1
    <3> QED
      BY <2>6, <3>1, <3>2
  <2> QED
    BY <2>2, <2>7
<1>7. PartSums(u) \in [SUBSET S -> Int]
  <2>1. PartSums(u) = [s \in SUBSET S |-> PartSums(u)[s]]
    BY <1>5
  <2> QED
    BY <1>6, <2>1
<1> QED
  BY <1>5, <1>7 DEF PartsAdd

LEMMA TotalType ==
  ASSUME NEW S, IsFiniteSet(S), NEW u \in [S -> Int]
  PROVE  Total(u) \in Int
<1>1. DOMAIN u = S
  OBVIOUS
<1>2. PartSums(u) \in [SUBSET S -> Int]
  BY PartSumsDefined DEF PartsAdd
<1>3. PartSums(u)[S] \in Int
  BY <1>2
<1> QED
  BY <1>1, <1>3 DEF Total

LEMMA TotalOfZeros ==
  ASSUME NEW S, IsFiniteSet(S)
  PROVE  Total([i \in S |-> 0]) = 0
<1> DEFINE u == [i \in S |-> 0]
<1>1. u \in [S -> Int] /\ DOMAIN u = S
  OBVIOUS
<1> HIDE DEF u
<1>2. PartsAdd(u, S)
  BY <1>1, PartSumsDefined
<1> DEFINE Bad == {n \in Nat : \E s \in SUBSET S : Cardinality(s) = n /\ PartSums(u)[s] # 0}
<1>3. Bad = {}
  <2>1. SUFFICES ASSUME Bad # {}
                 PROVE  FALSE
    OBVIOUS
  <2>2. PICK n \in Bad : \A m \in Bad : n <= m
    <3>1. Bad \subseteq Nat
      OBVIOUS
    <3> HIDE DEF Bad
    <3> QED
      BY <2>1, <3>1, LeastNumber
  <2>3. PICK s \in SUBSET S : Cardinality(s) = n /\ PartSums(u)[s] # 0
    BY <2>2
  <2>4. PartSums(u)[s] = IF s = {} THEN 0 ELSE u[Member(s)] + PartSums(u)[s \ {Member(s)}]
    BY <1>2 DEF PartsAdd
  <2>5. s # {} /\ Member(s) \in s /\ Member(s) \in S
    BY <2>3, <2>4 DEF Member
  <2>6. u[Member(s)] = 0
    BY <2>5 DEF u
  <2>7. PartSums(u)[s \ {Member(s)}] # 0
    BY <1>2, <2>3, <2>4, <2>5, <2>6 DEF PartsAdd
  <2>8. Cardinality(s \ {Member(s)}) = n - 1 /\ n - 1 \in Nat
    <3>1. IsFiniteSet(s) /\ IsFiniteSet(s \ {Member(s)})
      BY FS_Subset
    <3>2. Cardinality(s \ {Member(s)}) = n - 1 /\ Cardinality(s \ {Member(s)}) \in Nat
      BY <2>3, <2>5, <3>1, FS_RemoveElement, FS_CardinalityType
    <3> QED
      BY <3>2
  <2>9. n - 1 \in Bad /\ n \in Nat
    BY <2>7, <2>8
  <2> QED
    BY <2>2, <2>9
<1>4. Cardinality(S) \in Nat
  BY FS_CardinalityType
<1>5. PartSums(u)[S] = 0
  <2>1. Cardinality(S) \notin Bad /\ S \in SUBSET S
    BY <1>3
  <2> QED
    BY <1>4, <2>1
<1> QED
  BY <1>1, <1>5 DEF Total, u

LEMMA TotalStep ==
  ASSUME NEW S, IsFiniteSet(S), NEW u \in [S -> Int], NEW v \in [S -> Int],
         NEW i \in S, NEW d \in Int, v[i] = u[i] + d,
         \A j \in S : j # i => v[j] = u[j]
  PROVE  Total(v) = Total(u) + d
<1> DEFINE Moved(s) == IF i \in s THEN d ELSE 0
           Bad == {n \in Nat : \E s \in SUBSET S :
                     Cardinality(s) = n /\ PartSums(v)[s] # PartSums(u)[s] + Moved(s)}
<1>1. PartsAdd(u, S)
  BY PartSumsDefined
<1>2. PartsAdd(v, S)
  BY PartSumsDefined
<1>3. Bad = {}
  <2>1. SUFFICES ASSUME Bad # {}
                 PROVE  FALSE
    OBVIOUS
  <2>2. PICK n \in Bad : \A m \in Bad : n <= m
    <3>1. Bad \subseteq Nat
      OBVIOUS
    <3> HIDE DEF Bad
    <3> QED
      BY <2>1, <3>1, LeastNumber
  <2>3. PICK s \in SUBSET S :
          Cardinality(s) = n /\ PartSums(v)[s] # PartSums(u)[s] + Moved(s)
    BY <2>2
  <2>4. /\ PartSums(u)[s] = IF s = {} THEN 0 ELSE u[Member(s)] + PartSums(u)[s \ {Member(s)}]
        /\ PartSums(v)[s] = IF s = {} THEN 0 ELSE v[Member(s)] + PartSums(v)[s \ {Member(s)}]
    BY <1>1, <1>2 DEF PartsAdd
  <2>5. s # {}
    BY <2>3, <2>4
  <2>6. PICK x \in s : x = Member(s)
    BY <2>5 DEF Member
  <2>7. /\ PartSums(u)[s] = u[x] + PartSums(u)[s \ {x}]
        /\ PartSums(v)[s] = v[x] + PartSums(v)[s \ {x}]
    BY <2>4, <2>5, <2>6
  <2>8. /\ u[x] \in Int /\ v[x] \in Int
        /\ PartSums(u)[s \ {x}] \in Int /\ PartSums(v)[s \ {x}] \in Int
    BY <1>1, <1>2 DEF PartsAdd
  <2>9. Cardinality(s \ {x}) = n - 1 /\ n - 1 \in Nat
    <3>1. IsFiniteSet(s) /\ IsFiniteSet(s \ {x})
      BY FS_Subset
    <3>2. Cardinality(s \ {x}) = n - 1 /\ Cardinality(s \ {x}) \in Nat
      BY <2>3, <3>1, FS_RemoveElement, FS_CardinalityType
    <3> QED
      BY <3>2
  <2>10. PartSums(v)[s \ {x}] # PartSums(u)[s \ {x}] + Moved(s \ {x})
    <3>1. CASE x = i
      <4>1. Moved(s) = d /\ Moved(s \ {x}) = 0 /\ v[x] = u[x] + d
        BY <3>1
      <4> HIDE DEF Moved
      <4> QED
        BY <2>3, <2>7, <2>8, <4>1
    <3>2. CASE x # i
      <4>1. Moved(s \ {x}) = Moved(s) /\ v[x] = u[x] /\ Moved(s) \in Int
        BY <3>2
      <4> HIDE DEF Moved
      <4> QED
        BY <2>3, <2>7, <2>8, <4>1
    <3> QED
      BY <3>1, <3>2
  <2>11. n - 1 \in Bad /\ n \in Nat
    <3> HIDE DEF Moved
    <3> QED
      BY <2>9, <2>10
  <2> QED
    BY <2>2, <2>11
<1>4. Cardinality(S) \in Nat
  BY FS_CardinalityType
<1>5. PartSums(v)[S] = PartSums(u)[S] + d
  <2>1. Moved(S) = d
    OBVIOUS
  <2>2. Cardinality(S) \notin Bad /\ S \in SUBSET S
    BY <1>3
  <2> HIDE DEF Moved
  <2>3. PartSums(v)[S] = PartSums(u)[S] + Moved(S)
    BY <1>4, <2>2
  <2> QED
    BY <2>1, <2>3
<1>6. DOMAIN u = S /\ DOMAIN v = S
  <2>1. u \in [S -> Int] /\ v \in [S -> Int]
    OBVIOUS
  <2> HIDE DEF Bad
  <2> QED
    BY <2>1
<1> QED
  BY <1>5, <1>6 DEF Total
-----------------------------------------------------------------------------
(* The function inside FlattenSeq: what the first i rows make when joined.  *)
Joins(g, rows, n) ==
  g = [i \in 1 .. n |-> IF i = 1 THEN rows[i] ELSE g[i - 1] \o rows[i]]
Joined(rows) == CHOOSE g : Joins(g, rows, Len(rows))

LEMMA FlattenIsJoined ==
  \A rows : FlattenSeq(rows) =
              IF Len(rows) = 0 THEN rows ELSE Joined(rows)[Len(rows)]
BY DEF FlattenSeq, Joined, Joins

LEMMA JoinedDefined ==
  ASSUME NEW T, NEW rows \in Seq(Seq(T))
  PROVE  Joins(Joined(rows), rows, Len(rows))
<1> DEFINE Missing == {n \in 0 .. Len(rows) : ~\E g \in [1 .. n -> Seq(T)] : Joins(g, rows, n)}
<1>1. Missing = {}
  <2>1. SUFFICES ASSUME Missing # {}
                 PROVE  FALSE
    OBVIOUS
  <2>2. PICK n \in Missing : \A m \in Missing : n <= m
    <3>1. Missing \subseteq Nat
      OBVIOUS
    <3> HIDE DEF Missing
    <3> QED
      BY <2>1, <3>1, LeastNumber
  <2>3. n # 0
    <3> DEFINE g == [i \in 1 .. 0 |-> rows[i]]
    <3>1. g \in [1 .. 0 -> Seq(T)]
      OBVIOUS
    <3>2. Joins(g, rows, 0)
      BY DEF Joins
    <3>3. 0 \notin Missing
      <4> HIDE DEF g
      <4> QED
        BY <3>1, <3>2
    <3> QED
      BY <2>2, <3>3
  <2>4. n \in 1 .. Len(rows) /\ n - 1 \in 0 .. Len(rows) /\ n - 1 \notin Missing
    <3>1. n \in 0 .. Len(rows)
      OBVIOUS
    <3>2. n \in 1 .. Len(rows) /\ n - 1 \in 0 .. Len(rows)
      BY <2>3, <3>1
    <3> HIDE DEF Missing
    <3>3. n - 1 \notin Missing
      BY <2>2, <3>2
    <3> QED
      BY <3>2, <3>3
  <2>5. PICK g \in [1 .. n - 1 -> Seq(T)] : Joins(g, rows, n - 1)
    BY <2>4
  <2> DEFINE h == [i \in 1 .. n |-> IF i = 1 THEN rows[i] ELSE g[i - 1] \o rows[i]]
  <2>6. ASSUME NEW i \in 1 .. n
        PROVE  h[i] \in Seq(T)
    <3>1. i \in 1 .. Len(rows)
      BY <2>4
    <3>2. rows[i] \in Seq(T)
      BY <3>1, ElementOfSeq
    <3>3. ASSUME i # 1
          PROVE  g[i - 1] \o rows[i] \in Seq(T)
      <4>1. i - 1 \in 1 .. n - 1
        BY <2>4, <3>3
      <4>2. g[i - 1] \in Seq(T)
        BY <4>1
      <4> QED
        BY <3>2, <4>2, ConcatProperties
    <3> QED
      BY <3>2, <3>3
  <2>7. h \in [1 .. n -> Seq(T)]
    BY <2>6
  <2>8. ASSUME NEW i \in 1 .. n - 1
        PROVE  h[i] = g[i]
    <3>1. g[i] = IF i = 1 THEN rows[i] ELSE g[i - 1] \o rows[i]
      BY <2>5 DEF Joins
    <3>2. i \in 1 .. n
      BY <2>4
    <3> QED
      BY <3>1, <3>2
  <2>9. Joins(h, rows, n)
    <3>1. ASSUME NEW i \in 1 .. n, i # 1
          PROVE  h[i - 1] = g[i - 1]
      <4>1. i - 1 \in 1 .. n - 1
        BY <2>4, <3>1
      <4> HIDE DEF h
      <4> QED
        BY <2>8, <4>1
    <3>2. \A i \in 1 .. n : h[i] = IF i = 1 THEN rows[i] ELSE h[i - 1] \o rows[i]
      BY <3>1
    <3>3. h = [i \in 1 .. n |-> h[i]]
      OBVIOUS
    <3> HIDE DEF h
    <3> QED
      BY <3>2, <3>3 DEF Joins
  <2> QED
    <3> HIDE DEF h
    <3> QED
      BY <2>7, <2>9
<1>2. \E g : Joins(g, rows, Len(rows))
  <2>1. Len(rows) \in 0 .. Len(rows)
    OBVIOUS
  <2> QED
    BY <1>1, <2>1
<1> QED
  BY <1>2 DEF Joined
=============================================================================
