--------------------------- MODULE FreeInodesProofs --------------------------
(***************************************************************************)
(* For every number of inodes and every size of the table: an inode no     *)
(* file has stays blank on disk, and the table is exact until its first    *)
(* refill.                                                                 *)
(***************************************************************************)
EXTENDS FreeInodes, CountingProofs, FiniteSetTheorems, TLAPS

IInv ==
  /\ uses \in [Inodes -> Nat]
  /\ ialloc \in [Inodes -> BOOLEAN]
  /\ ~refilled => /\ s_inode \in [Slots -> Nat]
                  /\ s_ninode \in 1 .. SUPERBLOCK_FREE_INODE
  /\ ExactBeforeRefill
  /\ UnusedIsBlank

(* While every inode is blank, the one at place k of the table is k + 1.   *)
LEMMA FreshTable ==
  ASSUME Init
  PROVE  /\ s_ninode = SUPERBLOCK_FREE_INODE
         /\ s_inode = [k \in Slots |-> k + 1]
<1>1. Blank = Inodes
  BY DEF Init, Blank
<1>2. IsFiniteSet(Inodes) /\ Cardinality(Inodes) = INODE_COUNT - 1
  BY InodesAssumption, FS_Interval DEF Inodes
<1>3. FilledCount = SUPERBLOCK_FREE_INODE
  BY <1>1, <1>2, InodesAssumption DEF FilledCount
<1>4. ASSUME NEW i \in Inodes
      PROVE  Rank(i) = i - 1
  <2>1. {j \in Inodes : j < i} = 1 .. i - 1
    BY InodesAssumption DEF Inodes
  <2>2. Cardinality(1 .. i - 1) = i - 1
    BY InodesAssumption, FS_Interval DEF Inodes
  <2> QED
    BY <1>1, <2>1, <2>2 DEF Rank
<1>5. ASSUME NEW k \in Slots
      PROVE  (CHOOSE i \in Blank : Rank(i) = k) = k + 1
  <2>1. k + 1 \in Inodes
    BY InodesAssumption DEF Slots, Inodes
  <2>2. \A i \in Inodes : Rank(i) = k <=> i = k + 1
    BY <1>4, InodesAssumption DEF Slots, Inodes
  <2> QED
    BY <1>1, <2>1, <2>2
<1>6. s_inode = Filled([k \in Slots |-> 0]) /\ s_ninode = FilledCount
  BY DEF Init
<1>7. \A k \in Slots : k < FilledCount
  BY <1>3, InodesAssumption DEF Slots
<1> QED
  BY <1>3, <1>5, <1>6, <1>7 DEF Filled

LEMMA InitIInv ==
  ASSUME Init
  PROVE  IInv
<1>1. /\ s_ninode = SUPERBLOCK_FREE_INODE
      /\ s_inode = [k \in Slots |-> k + 1]
  BY FreshTable
<1>2. \A k \in Live : k \in Slots /\ s_inode[k] = k + 1 /\ k + 1 \in Inodes
  BY <1>1, InodesAssumption DEF Live, Slots, Inodes
<1>3. ExactBeforeRefill
  BY <1>2, InodesAssumption DEF Init, ExactBeforeRefill, Live
<1>4. s_inode \in [Slots -> Nat] /\ s_ninode \in 1 .. SUPERBLOCK_FREE_INODE
  BY <1>1, InodesAssumption DEF Slots
<1> QED
  BY <1>3, <1>4 DEF Init, IInv, UnusedIsBlank

LEMMA CreateKeeps ==
  ASSUME IInv, Create
  PROVE  IInv'
<1>0. PICK new : new = NextInode
  OBVIOUS
<1>1. /\ ialloc' = [ialloc EXCEPT ![new] = TRUE]
      /\ uses' = [uses EXCEPT ![new] = @ + 1]
      /\ uses \in [Inodes -> Nat] /\ ialloc \in [Inodes -> BOOLEAN]
  BY <1>0 DEF Create, IInv
<1>2. uses' \in [Inodes -> Nat] /\ ialloc' \in [Inodes -> BOOLEAN]
  <2>1. uses' = [i \in Inodes |-> IF i = new THEN uses[i] + 1 ELSE uses[i]]
    BY <1>1
  <2>2. \A i \in Inodes : uses[i] + 1 \in Nat
    BY <1>1
  <2>3. uses' \in [Inodes -> Nat]
    BY <1>1, <2>1, <2>2
  <2>4. ialloc' \in [Inodes -> BOOLEAN]
    BY <1>1
  <2> QED
    BY <2>3, <2>4
<1>3. UnusedIsBlank'
  <2>1. \A i \in Inodes : i = new => uses'[i] # 0
    BY <1>1
  <2>2. \A i \in Inodes : i # new => uses'[i] = uses[i] /\ ialloc'[i] = ialloc[i]
    BY <1>1 DEF IInv
  <2> QED
    BY <2>1, <2>2 DEF IInv, UnusedIsBlank
<1>4. CASE TakeLastEntry
  BY <1>2, <1>3, <1>4 DEF TakeLastEntry, IInv, ExactBeforeRefill
<1>5. CASE TakeEntry /\ refilled
  BY <1>2, <1>3, <1>5 DEF TakeEntry, IInv, ExactBeforeRefill
<1>6. CASE TakeEntry /\ ~refilled
  <2>1. /\ s_inode' = s_inode /\ s_ninode' = s_ninode - 1 /\ ~refilled'
        /\ s_inode \in [Slots -> Nat]
        /\ s_ninode \in 2 .. SUPERBLOCK_FREE_INODE
        /\ s_ninode' \in 1 .. SUPERBLOCK_FREE_INODE
    BY <1>6, InodesAssumption DEF TakeEntry, IInv
  <2>2. /\ s_ninode - 1 \in Live /\ Live' = Live \ {s_ninode - 1}
        /\ new = s_inode[s_ninode - 1]
    BY <1>0, <2>1, InodesAssumption DEF Live, NextInode, Slot
  <2>3. /\ \A k \in Live : s_inode[k] \in Inodes /\ uses[s_inode[k]] = 0
        /\ \A k, l \in Live : s_inode[k] = s_inode[l] => k = l
        /\ \A i \in Inodes : uses[i] = IF ialloc[i] THEN 1 ELSE 0
    BY <1>6 DEF IInv, ExactBeforeRefill
  <2>4. new \in Inodes /\ uses[new] = 0
    BY <2>2, <2>3
  <2>5. \A k \in Live' : s_inode'[k] \in Inodes /\ uses'[s_inode'[k]] = 0
    <3>1. \A k \in Live' : s_inode[k] # new
      BY <2>2, <2>3
    <3> QED
      BY <1>1, <2>1, <2>2, <2>3, <3>1 DEF IInv
  <2>6. \A k, l \in Live' : s_inode'[k] = s_inode'[l] => k = l
    BY <2>1, <2>2, <2>3
  <2>7. \A i \in Inodes : uses'[i] = IF ialloc'[i] THEN 1 ELSE 0
    BY <1>1, <2>3, <2>4 DEF IInv
  <2>8. ExactBeforeRefill'
    BY <2>5, <2>6, <2>7 DEF ExactBeforeRefill
  <2> QED
    BY <1>2, <1>3, <2>1, <2>8 DEF IInv
<1> QED
  BY <1>4, <1>5, <1>6 DEF Create

LEMMA ReleaseKeeps ==
  ASSUME IInv, NEW i \in Inodes, Release(i)
  PROVE  IInv'
<1>1. /\ uses[i] > 0
      /\ ialloc' = [ialloc EXCEPT ![i] = FALSE]
      /\ uses' = [uses EXCEPT ![i] = @ - 1]
      /\ refilled' = refilled
      /\ Remember(i) \/ Forget
  BY DEF Release, ClearIALLOC
<1>2. uses' \in [Inodes -> Nat] /\ ialloc' \in [Inodes -> BOOLEAN]
  BY <1>1 DEF IInv
<1>3. UnusedIsBlank'
  BY <1>1 DEF IInv, UnusedIsBlank
<1>4. CASE refilled
  BY <1>1, <1>2, <1>3, <1>4 DEF IInv, ExactBeforeRefill
<1>5. CASE ~refilled
  <2>1. /\ s_inode \in [Slots -> Nat]
        /\ s_ninode \in 1 .. SUPERBLOCK_FREE_INODE
        /\ \A k \in Live : s_inode[k] \in Inodes /\ uses[s_inode[k]] = 0
        /\ \A k, l \in Live : s_inode[k] = s_inode[l] => k = l
        /\ \A j \in Inodes : uses[j] = IF ialloc[j] THEN 1 ELSE 0
    BY <1>5 DEF IInv, ExactBeforeRefill
  <2>2. uses'[i] = 0 /\ \A j \in Inodes : uses'[j] = IF ialloc'[j] THEN 1 ELSE 0
    BY <1>1, <2>1 DEF IInv
  <2>3. \A k \in Live : s_inode[k] # i /\ uses'[s_inode[k]] = 0
    BY <1>1, <2>1 DEF IInv
  <2>4. CASE Remember(i)
    <3>0. s_ninode < INODE_PER_BLOCK /\ Slot(s_ninode) = s_ninode
      BY <2>1, <2>4, InodesAssumption DEF Remember, Slot
    <3>1. /\ s_ninode \in Slots
          /\ s_inode' = [s_inode EXCEPT ![s_ninode] = i]
          /\ s_ninode' = s_ninode + 1
          /\ s_ninode' \in 1 .. SUPERBLOCK_FREE_INODE
      BY <2>1, <2>4, <3>0, InodesAssumption DEF Remember, Slots
    <3>6. /\ Live' = Live \cup {s_ninode} /\ s_ninode \notin Live
          /\ Live \subseteq Slots
      BY <2>1, <3>1, InodesAssumption DEF Slots, Live
    <3>2. /\ s_inode' \in [Slots -> Nat] /\ s_inode'[s_ninode] = i
          /\ \A k \in Live : s_inode'[k] = s_inode[k]
      BY <2>1, <3>1, <3>6, InodesAssumption DEF Inodes
    <3>3. \A k \in Live' : s_inode'[k] \in Inodes /\ uses'[s_inode'[k]] = 0
      BY <2>1, <2>2, <2>3, <3>1, <3>2, <3>6
    <3>4. \A k, l \in Live' : s_inode'[k] = s_inode'[l] => k = l
      BY <2>1, <2>3, <3>1, <3>2, <3>6
    <3>5. ExactBeforeRefill'
      BY <2>2, <3>3, <3>4 DEF ExactBeforeRefill
    <3> QED
      BY <1>2, <1>3, <3>1, <3>2, <3>5 DEF IInv
  <2>5. CASE Forget
    <3>1. s_inode' = s_inode /\ s_ninode' = s_ninode /\ Live' = Live
      BY <2>5 DEF Forget, Live
    <3>2. ExactBeforeRefill'
      BY <2>1, <2>2, <2>3, <3>1 DEF ExactBeforeRefill
    <3> QED
      BY <1>2, <1>3, <2>1, <3>1, <3>2 DEF IInv
  <2> QED
    BY <1>1, <2>4, <2>5
<1> QED
  BY <1>4, <1>5

(* The invariant that the two results below rest on.                        *)
THEOREM Invariance == Spec => []IInv
<1>1. Init => IInv
  BY InitIInv
<1>2. IInv /\ [Next]_vars => IInv'
  <2>1. ASSUME IInv, UNCHANGED vars
        PROVE  IInv'
    BY <2>1 DEF vars, IInv, ExactBeforeRefill, UnusedIsBlank, Live
  <2> QED
    BY <2>1, CreateKeeps, ReleaseKeeps DEF Next
<1> QED
  BY <1>1, <1>2, PTL DEF Spec

(* On a disk of any size, a refill can find every inode no file has.        *)
THEOREM UnusedStaysBlank == Spec => []UnusedIsBlank
<1>1. IInv => UnusedIsBlank
  BY DEF IInv
<1> QED
  BY <1>1, Invariance, PTL

(* No inode is given to two files before the first refill of the table.     *)
THEOREM ExactUntilRefill == Spec => []ExactBeforeRefill
<1>1. IInv => ExactBeforeRefill
  BY DEF IInv
<1> QED
  BY <1>1, Invariance, PTL
-----------------------------------------------------------------------------
(* A refill finds an inode for every place of the table below FilledCount:  *)
(* some blank inode has exactly k blank ones before it.                     *)
LEMMA RankReached ==
  ASSUME ialloc \in [Inodes -> BOOLEAN],
         NEW k \in Nat, k < Cardinality(Blank)
  PROVE  \E i \in Blank : Rank(i) = k
<1> DEFINE Below(n) == {j \in Blank : j < n}
           T == {n \in Nat : k < Cardinality(Below(n))}
<1>1. /\ IsFiniteSet(Blank) /\ Cardinality(Blank) \in Nat
      /\ \A n \in Nat : IsFiniteSet(Below(n)) /\ Cardinality(Below(n)) \in Nat
  <2>1. IsFiniteSet(Inodes)
    BY InodesAssumption, FS_Interval DEF Inodes
  <2>2. IsFiniteSet(Blank)
    BY <2>1, FS_Subset DEF Blank
  <2>3. \A n \in Nat : Below(n) \subseteq Blank
    OBVIOUS
  <2> QED
    BY <2>2, <2>3, FS_Subset, FS_CardinalityType
<1>2. Below(INODE_COUNT) = Blank
  BY InodesAssumption DEF Blank, Inodes
<1>3. INODE_COUNT \in T
  BY <1>2, InodesAssumption
<1>4. PICK n \in T : \A m \in T : n <= m
  <2> HIDE DEF T
  <2>1. T \subseteq Nat
    BY DEF T
  <2> QED
    BY <1>3, <2>1, LeastNumber
<1>5. n # 0
  <2>1. Below(0) = {}
    BY InodesAssumption DEF Blank, Inodes
  <2> QED
    BY <1>4, <2>1, FS_EmptySet
<1>6. n - 1 \in Nat /\ Cardinality(Below(n - 1)) <= k
  <2>1. n - 1 \in Nat /\ n - 1 \notin T
    BY <1>4, <1>5
  <2> QED
    BY <1>1, <2>1
<1>7. Below(n) = Below(n - 1) \cup ({n - 1} \cap Blank)
  BY <1>6 DEF Blank, Inodes
<1>8. n - 1 \in Blank /\ n - 1 \notin Below(n - 1)
  <2>1. Cardinality(Below(n)) > Cardinality(Below(n - 1))
    BY SMTT(30), <1>1, <1>4, <1>6
  <2>2. Below(n) # Below(n - 1)
    BY <1>1, <1>6, <2>1
  <2> QED
    BY <1>6, <1>7, <2>2
<1>9. Cardinality(Below(n)) = Cardinality(Below(n - 1)) + 1
  <2>1. Below(n) = Below(n - 1) \cup {n - 1}
    BY <1>7, <1>8
  <2> HIDE DEF Below
  <2> QED
    BY <1>1, <1>6, <1>8, <2>1, FS_AddElement
<1>10. Rank(n - 1) = Cardinality(Below(n - 1))
  BY DEF Rank
<1>11. k < Cardinality(Below(n)) /\ Cardinality(Below(n - 1)) \in Nat
  BY <1>1, <1>4, <1>6
<1>12. Cardinality(Below(n - 1)) = k
  <2> HIDE DEF Below
  <2> QED
    BY <1>6, <1>9, <1>11
<1> QED
  BY <1>8, <1>10, <1>12

LEMMA FilledType ==
  ASSUME ialloc \in [Inodes -> BOOLEAN],
         s_inode \in [Slots -> Inodes]
  PROVE  /\ Filled(s_inode) \in [Slots -> Inodes]
         /\ FilledCount \in 0 .. SUPERBLOCK_FREE_INODE
<1>1. IsFiniteSet(Blank) /\ Cardinality(Blank) \in Nat
  <2>1. IsFiniteSet(Inodes) /\ Blank \subseteq Inodes
    BY InodesAssumption, FS_Interval DEF Inodes, Blank
  <2> QED
    BY <2>1, FS_Subset, FS_CardinalityType
<1>2. FilledCount \in 0 .. SUPERBLOCK_FREE_INODE /\ FilledCount <= Cardinality(Blank)
  BY <1>1, InodesAssumption DEF FilledCount
<1>3. ASSUME NEW k \in Slots, k < FilledCount
      PROVE  (CHOOSE i \in Blank : Rank(i) = k) \in Inodes
  <2>1. k \in Nat /\ k < Cardinality(Blank)
    BY <1>1, <1>2, <1>3, InodesAssumption DEF Slots
  <2>2. \E i \in Blank : Rank(i) = k
    BY <2>1, RankReached
  <2> QED
    BY <2>2 DEF Blank
<1> QED
  BY <1>2, <1>3 DEF Filled

(* The type invariant holds together with two facts: the table holds inode *)
(* numbers only, so that every allocation is counted for some inode, and   *)
(* the count is what the uses leave.                                       *)
TableInv ==
  /\ TypeOK
  /\ s_inode \in [Slots -> Inodes]
  /\ CountFollowsUses

LEMMA InodesFinite == IsFiniteSet(Inodes) /\ Cardinality(Inodes) = INODE_COUNT - 1
BY InodesAssumption, FS_Interval DEF Inodes

LEMMA CountIsTotal ==
  /\ CountFollowsUses <=> ffree = Cardinality(Inodes) - Total(uses)
  /\ CountFollowsUses' <=> ffree' = Cardinality(Inodes) - Total(uses')
<1>1. CountFollowsUses <=> ffree = Cardinality(Inodes) - Total(uses)
  BY DEF CountFollowsUses, FoldFunction, FoldFunctionOnSet, MapThenFoldSet, Total, PartSums, Member
<1>2. CountFollowsUses' <=> ffree' = Cardinality(Inodes) - Total(uses')
  BY DEF CountFollowsUses, FoldFunction, FoldFunctionOnSet, MapThenFoldSet, Total, PartSums, Member
<1> QED
  BY <1>1, <1>2

LEMMA InitTableInv ==
  ASSUME Init
  PROVE  TableInv
<1>1. /\ s_ninode = SUPERBLOCK_FREE_INODE
      /\ s_inode = [k \in Slots |-> k + 1]
  BY FreshTable
<1>2. s_inode \in [Slots -> Inodes] /\ Inodes \subseteq Nat
  BY <1>1, InodesAssumption DEF Slots, Inodes
<1>3. TypeOK
  <2>1. s_ninode \in -SUPERBLOCK_FREE_INODE .. SUPERBLOCK_FREE_INODE
    BY <1>1, InodesAssumption
  <2>2. ffree \in Int /\ uses \in [Inodes -> 0 .. MAX_USES]
    BY InodesAssumption DEF Init
  <2>3. ialloc \in [Inodes -> BOOLEAN] /\ refilled \in BOOLEAN
    BY DEF Init
  <2> QED
    BY <1>2, <2>1, <2>2, <2>3 DEF TypeOK
<1>4. CountFollowsUses
  <2>1. Total([i \in Inodes |-> 0]) = 0
    BY InodesFinite, TotalOfZeros
  <2>2. ffree = Cardinality(Inodes) - Total(uses)
    BY <2>1, InodesFinite, InodesAssumption DEF Init
  <2> QED
    BY <2>2, CountIsTotal
<1> QED
  BY <1>2, <1>3, <1>4 DEF TableInv

LEMMA CreateKeepsTable ==
  ASSUME TableInv, Create
  PROVE  TableInv'
<1>1. NextInode \in Inodes
  <2>1. s_ninode \in -SUPERBLOCK_FREE_INODE + 1 .. SUPERBLOCK_FREE_INODE
    BY InodesAssumption DEF TableInv, TypeOK, Create, TakeEntry, TakeLastEntry
  <2>2. Slot(s_ninode - 1) \in Slots
    BY <2>1, InodesAssumption DEF Slot, Slots
  <2> QED
    BY <2>2 DEF TableInv, NextInode
<1>2. PICK new \in Inodes : new = NextInode
  BY <1>1
<1>3. /\ uses' = [uses EXCEPT ![new] = @ + 1]
      /\ ialloc' = [ialloc EXCEPT ![new] = TRUE]
      /\ ffree' = ffree - 1
      /\ uses[new] < MAX_USES
      /\ uses \in [Inodes -> 0 .. MAX_USES]
  BY <1>2 DEF Create, TableInv, TypeOK
<1>4. uses' \in [Inodes -> 0 .. MAX_USES]
  BY <1>3, InodesAssumption
<1>5. ialloc' \in [Inodes -> BOOLEAN]
  BY <1>3 DEF TableInv, TypeOK
<1>6. ffree' \in Int
  BY <1>3 DEF TableInv, TypeOK
<1>7. CountFollowsUses'
  <2>2. uses \in [Inodes -> Int]
    BY <1>3, InodesAssumption
  <2>3. Total(uses') = Total(uses) + 1
    <3>1. uses' = [uses EXCEPT ![new] = @ + 1]
      BY <1>1, <1>3
    <3>2. uses' \in [Inodes -> Int]
      BY <3>1, <2>2
    <3>3. PICK u \in [Inodes -> Int], v \in [Inodes -> Int] : u = uses /\ v = uses'
      BY <2>2, <3>2
    <3>4. v[new] = u[new] + 1 /\ \A j \in Inodes : j # new => v[j] = u[j]
      BY <3>1, <3>3
    <3>5. Total(v) = Total(u) + 1
      BY <3>4, InodesFinite, TotalStep
    <3> QED
      BY <3>3, <3>5
  <2>4. /\ ffree = Cardinality(Inodes) - Total(uses)
        /\ ffree \in Int /\ Cardinality(Inodes) \in Int
    BY CountIsTotal, InodesFinite, InodesAssumption DEF TableInv, TypeOK
  <2>5. Total(uses) \in Int
    BY <1>1, <1>3, InodesFinite, <2>2, TotalType
  <2>6. ffree' = Cardinality(Inodes) - Total(uses')
    BY <1>1, <1>3, <2>3, <2>4, <2>5
  <2> QED
    BY <2>6, CountIsTotal
<1>8. /\ s_inode' \in [Slots -> Inodes]
      /\ s_ninode' \in -SUPERBLOCK_FREE_INODE .. SUPERBLOCK_FREE_INODE
      /\ refilled' \in BOOLEAN
  <2>1. CASE TakeEntry
    BY <2>1, InodesAssumption DEF TakeEntry, TableInv, TypeOK
  <2>2. CASE TakeLastEntry
    <3>1. /\ Filled(s_inode) \in [Slots -> Inodes]
          /\ FilledCount \in 0 .. SUPERBLOCK_FREE_INODE
      BY FilledType DEF TableInv, TypeOK
    <3>2. FilledCount \in -SUPERBLOCK_FREE_INODE .. SUPERBLOCK_FREE_INODE
      BY <3>1, InodesAssumption
    <3> QED
      BY <2>2, <3>1, <3>2 DEF TakeLastEntry
  <2> QED
    BY <2>1, <2>2 DEF Create
<1>9. s_inode' \in [Slots -> Nat]
  BY <1>8, InodesAssumption DEF Inodes
<1> QED
  BY <1>4, <1>5, <1>6, <1>7, <1>8, <1>9 DEF TableInv, TypeOK

LEMMA ReleaseKeepsTable ==
  ASSUME TableInv, NEW i \in Inodes, Release(i)
  PROVE  TableInv'
<1>1. /\ uses' = [uses EXCEPT ![i] = @ - 1]
      /\ uses[i] > 0
      /\ ialloc' = [ialloc EXCEPT ![i] = FALSE]
      /\ ffree' = ffree + 1
      /\ refilled' = refilled
      /\ uses \in [Inodes -> 0 .. MAX_USES]
  BY DEF Release, ClearIALLOC, CountReleased, TableInv, TypeOK
<1>2. uses' \in [Inodes -> 0 .. MAX_USES]
  BY <1>1, InodesAssumption
<1>3. ialloc' \in [Inodes -> BOOLEAN] /\ refilled' \in BOOLEAN
  BY <1>1 DEF TableInv, TypeOK
<1>4. ffree' \in Int
  BY <1>1 DEF TableInv, TypeOK
<1>5. CountFollowsUses'
  <2>1. uses \in [Inodes -> Int]
    BY <1>1, InodesAssumption
  <2>2. uses' = [uses EXCEPT ![i] = @ + (-1)]
    BY <1>1, <2>1
  <2>3. Total(uses') = Total(uses) + (-1)
    <3>1. uses' = [uses EXCEPT ![i] = @ + (-1)]
      BY <1>1, <1>3, <2>2
    <3>2. uses' \in [Inodes -> Int]
      BY <3>1, <2>1
    <3>3. PICK u \in [Inodes -> Int], v \in [Inodes -> Int] : u = uses /\ v = uses'
      BY <2>1, <3>2
    <3>4. v[i] = u[i] + (-1) /\ \A j \in Inodes : j # i => v[j] = u[j]
      BY <3>1, <3>3
    <3>5. Total(v) = Total(u) + (-1)
      BY <3>4, InodesFinite, TotalStep
    <3> QED
      BY <3>3, <3>5
  <2>4. /\ ffree = Cardinality(Inodes) - Total(uses)
        /\ ffree \in Int /\ Cardinality(Inodes) \in Int
    BY CountIsTotal, InodesFinite, InodesAssumption DEF TableInv, TypeOK
  <2>5. Total(uses) \in Int
    BY <1>1, <1>3, InodesFinite, <2>1, <2>2, TotalType
  <2>6. ffree' = Cardinality(Inodes) - Total(uses')
    BY <1>1, <1>3, <2>3, <2>4, <2>5
  <2> QED
    BY <2>6, CountIsTotal
<1>6. /\ s_inode' \in [Slots -> Inodes]
      /\ s_ninode' \in -SUPERBLOCK_FREE_INODE .. SUPERBLOCK_FREE_INODE
  <2>1. CASE Remember(i)
    <3>1. PICK slot : s_inode' = [s_inode EXCEPT ![slot] = i]
      BY <2>1 DEF Remember
    <3>2. s_inode' \in [Slots -> Inodes]
      BY <3>1 DEF TableInv
    <3>3. s_ninode' \in -SUPERBLOCK_FREE_INODE .. SUPERBLOCK_FREE_INODE
      BY <2>1, InodesAssumption DEF Remember, TableInv, TypeOK
    <3> QED
      BY <3>2, <3>3
  <2>2. CASE Forget
    BY <2>2 DEF Forget, TableInv, TypeOK
  <2> QED
    BY <2>1, <2>2 DEF Release
<1>7. s_inode' \in [Slots -> Nat]
  BY <1>6, InodesAssumption DEF Inodes
<1> QED
  BY <1>2, <1>3, <1>4, <1>5, <1>6, <1>7 DEF TableInv, TypeOK

(* The table, the counts and the type invariant, for every disk and table.  *)
THEOREM TableInvariance == Spec => []TableInv
<1>1. Init => TableInv
  BY InitTableInv
<1>2. TableInv /\ [Next]_vars => TableInv'
  <2>1. ASSUME TableInv, UNCHANGED vars
        PROVE  TableInv'
    <3>1. TypeOK' /\ s_inode' \in [Slots -> Inodes]
      BY <2>1 DEF vars, TableInv, TypeOK
    <3>2. ffree' = ffree /\ uses' = uses
      BY <2>1 DEF vars
    <3>3. CountFollowsUses'
      BY <2>1, <3>2, CountIsTotal DEF TableInv
    <3> QED
      BY <3>1, <3>3 DEF TableInv
  <2> QED
    BY <2>1, CreateKeepsTable, ReleaseKeepsTable DEF Next
<1> QED
  BY <1>1, <1>2, PTL DEF Spec

(* The table's cursor stays where the code can read the table, the table   *)
(* holds numbers after every refill, and uses do not become negative.      *)
THEOREM TypeCorrect == Spec => []TypeOK
<1>1. TableInv => TypeOK
  BY DEF TableInv
<1> QED
  BY <1>1, TableInvariance, PTL

(* The count for statfs is what creates and unlinks leave, also when the   *)
(* table has run empty and hands out stale entries.                        *)
THEOREM CountCorrect == Spec => []CountFollowsUses
<1>1. TableInv => CountFollowsUses
  BY DEF TableInv
<1> QED
  BY <1>1, TableInvariance, PTL
=============================================================================
