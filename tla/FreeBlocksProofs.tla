--------------------------- MODULE FreeBlocksProofs --------------------------
(***************************************************************************)
(* Proofs about FreeBlocks for every disk size, table size and whatever    *)
(* callers write: IInv is inductive, and the free list implements          *)
(* BlockPool, and BlockStack while its chain of tables is read in order.   *)
(***************************************************************************)
EXTENDS FreeBlocksLifo, CountingProofs, TLAPS

LEMMA Geometry ==
  /\ 0 \notin Blocks
  /\ Blocks \subseteq Nat
  /\ IsFiniteSet(Blocks)
  /\ 0 \in Slots
  /\ ZeroTable \in Table
<1>1. IsFiniteSet(Blocks)
  BY GeometryAssumption, FS_Interval DEF Blocks
<1> QED
  BY <1>1, GeometryAssumption DEF Blocks, Slots, ZeroTable, ZeroSlots, Table

-----------------------------------------------------------------------------
(* The chain. *)

LEMMA SpilledClosed == Closed(Spilled)
BY DEF Closed, Spilled

LEMMA SpilledLeast ==
  ASSUME NEW L \in SUBSET Blocks, Closed(L)
  PROVE  Spilled \subseteq L
BY DEF Spilled

(* A spilled block is named in slot 0 of some table. *)
LEMMA SpilledIsLink ==
  ASSUME NEW b \in Spilled
  PROVE  \E t \in Tables : TableOf(t).s_free[0] = b
<1> DEFINE L == {x \in Spilled : \E t \in Tables : TableOf(t).s_free[0] = x}
<1>1. L \in SUBSET Blocks
  BY DEF Spilled
<1>2. Closed(L)
  BY SpilledClosed DEF Closed, Tables
<1> QED
  BY <1>1, <1>2, SpilledLeast

LEMMA SpilledListed ==
  ASSUME TypeOK, SpilledFull
  PROVE  Spilled \subseteq Listed
<1>1. ASSUME NEW b \in Spilled
      PROVE  b \in Listed
  <2>1. PICK t \in Tables : TableOf(t).s_free[0] = b
    BY SpilledIsLink
  <2>2. TableOf(t).s_nfree \in Nat \ {0}
    BY GeometryAssumption DEF TypeOK, SpilledFull, Tables, TableOf
  <2>3. 0 \in Live(t)
    BY <2>2 DEF Live
  <2>4. b # 0
    BY Geometry DEF Spilled
  <2> QED
    BY <2>1, <2>3, <2>4 DEF Listed, Entries
<1> QED
  BY <1>1

(* Tables, entries and the list have the shape that later steps use. *)
LEMMA Shape ==
  ASSUME IInv
  PROVE  /\ Spilled \subseteq Blocks
         /\ \A t \in Tables : /\ TableOf(t) \in Table
                              /\ TableOf(t).s_nfree \in 1 .. FREE_INDEX_PER_BLOCK
                              /\ 0 \in Live(t)
                              /\ Live(t) \subseteq Slots
         /\ Listed \subseteq Blocks
         /\ Spilled \cap held = {}
<1>1. Spilled \subseteq Blocks
  BY DEF Spilled
<1>2. ASSUME NEW t \in Tables
      PROVE  /\ TableOf(t) \in Table
             /\ TableOf(t).s_nfree \in 1 .. FREE_INDEX_PER_BLOCK
             /\ 0 \in Live(t)
             /\ Live(t) \subseteq Slots
  <2>1. TableOf(t) \in Table /\ TableOf(t).s_nfree \in 1 .. FREE_INDEX_PER_BLOCK
    BY <1>1, GeometryAssumption
       DEF IInv, TypeOK, SpilledFull, Tables, TableOf, Table
  <2> QED
    BY <2>1, GeometryAssumption DEF Live, Slots
<1>3. Listed \subseteq Blocks /\ Spilled \cap held = {}
  BY SpilledListed DEF IInv, Partition
<1> QED
  BY <1>1, <1>2, <1>3

(* Steps that leave slot 0 and the spilled tables alone keep the chain. *)
LEMMA SameChain ==
  ASSUME IInv,
         \A t \in Tables : TableOf(t)'.s_free[0] = TableOf(t).s_free[0]
  PROVE  Spilled' = Spilled
<1>1. PICK S \in SUBSET Blocks : S = Spilled
  BY Shape
<1>2. Closed(S)'
  BY <1>1, SpilledClosed DEF Closed, Tables
<1>3. Spilled' \subseteq S
  BY <1>2, <1>1 DEF Spilled
<1>4. ASSUME NEW L \in SUBSET Blocks, Closed(L)'
      PROVE  S \subseteq L
  <2>1. Closed(L \cap S)
    BY <1>1, <1>4, SpilledClosed DEF Closed, Tables
  <2> QED
    BY <2>1, <1>1, SpilledLeast
<1>5. S \subseteq Spilled'
  BY <1>4, <1>1 DEF Spilled
<1> QED
  BY <1>1, <1>3, <1>5
-----------------------------------------------------------------------------
(* The list, its complement and its count move together. *)

LEMMA CountBound ==
  ASSUME NEW S \in SUBSET Blocks
  PROVE  /\ IsFiniteSet(S)
         /\ Cardinality(S) \in 0 .. DISK_BLOCKS
<1>1. Cardinality(Blocks) \in Nat /\ Cardinality(Blocks) <= DISK_BLOCKS
  <2>1. /\ DATA_START \in Int /\ DISK_BLOCKS - 1 \in Int
        /\ ~(DATA_START > DISK_BLOCKS - 1)
        /\ (DISK_BLOCKS - 1) - DATA_START + 1 \in 0 .. DISK_BLOCKS
    BY GeometryAssumption
  <2>2. Cardinality(Blocks) = (DISK_BLOCKS - 1) - DATA_START + 1
    BY <2>1, FS_Interval DEF Blocks
  <2> QED
    BY <2>1, <2>2, GeometryAssumption
<1>2. IsFiniteSet(S) /\ Cardinality(S) \in Nat /\ Cardinality(S) <= Cardinality(Blocks)
  BY Geometry, FS_Subset, FS_CardinalityType
<1> QED
  BY <1>1, <1>2, GeometryAssumption

LEMMA ListGrows ==
  ASSUME IInv, NEW b \in held,
         Listed' = Listed \cup {b}, held' = held \ {b}, bfree' = bfree + 1
  PROVE  /\ Partition' /\ CountExact'
         /\ held' \in SUBSET Blocks
         /\ bfree' \in 0 .. DISK_BLOCKS
<1>1. b \in Blocks /\ b \notin Listed /\ Listed \subseteq Blocks
  BY DEF IInv, TypeOK, Partition
<1>2. Partition' /\ held' \in SUBSET Blocks
  BY <1>1 DEF IInv, TypeOK, Partition
<1>3. Cardinality(Listed \cup {b}) = Cardinality(Listed) + 1
  BY <1>1, CountBound, FS_AddElement
<1>4. Cardinality(Listed \cup {b}) \in 0 .. DISK_BLOCKS
  BY <1>1, CountBound
<1> QED
  BY <1>2, <1>3, <1>4 DEF IInv, CountExact

LEMMA ListShrinks ==
  ASSUME IInv, NEW b \in Listed,
         Listed' = Listed \ {b}, held' = held \cup {b}, bfree' = bfree - 1
  PROVE  /\ Partition' /\ CountExact'
         /\ held' \in SUBSET Blocks
         /\ bfree' \in 0 .. DISK_BLOCKS
<1>1. b \in Blocks /\ b \notin held /\ Listed \subseteq Blocks
  BY DEF IInv, TypeOK, Partition
<1>2. Partition' /\ held' \in SUBSET Blocks
  BY <1>1 DEF IInv, TypeOK, Partition
<1>3. Cardinality(Listed \ {b}) = Cardinality(Listed) - 1
  BY <1>1, CountBound, FS_RemoveElement
<1>4. Cardinality(Listed \ {b}) \in 0 .. DISK_BLOCKS
  BY <1>1, CountBound
<1> QED
  BY <1>2, <1>3, <1>4 DEF IInv, CountExact

-----------------------------------------------------------------------------
(* release_block *)

LEMMA IntoTableKeeps ==
  ASSUME IInv, NEW b \in held, ReleaseIntoTable(b)
  PROVE  /\ Spilled' = Spilled
         /\ Listed' = Listed \cup {b}
         /\ ListedOnce' /\ SpilledFull'
         /\ s_nfree' \in 1 .. FREE_INDEX_PER_BLOCK
         /\ s_free' \in [Slots -> Nat]
         /\ disk' = disk
<1>1. /\ s_nfree \in Slots /\ s_nfree \in Nat \ {0}
      /\ b \in Blocks /\ b \in Nat /\ b # 0 /\ b \notin Listed
  BY Geometry, GeometryAssumption DEF IInv, TypeOK, Slots, ReleaseIntoTable, Partition
<1>2. /\ s_nfree' = s_nfree + 1 /\ s_nfree' \in 1 .. FREE_INDEX_PER_BLOCK
      /\ s_free' \in [Slots -> Nat] /\ disk' = disk
      /\ \A i \in Slots : s_free'[i] = IF i = s_nfree THEN b ELSE s_free[i]
  <2>1. s_free \in [Slots -> Nat]
    BY DEF IInv, TypeOK
  <2>2. s_nfree < FREE_INDEX_PER_BLOCK /\ s_nfree' = s_nfree + 1
    BY DEF ReleaseIntoTable
  <2>3. s_nfree' \in 1 .. FREE_INDEX_PER_BLOCK
    BY <1>1, <2>2, GeometryAssumption
  <2> QED
    BY <1>1, <2>1, <2>2, <2>3 DEF ReleaseIntoTable
<1>3. Spilled \subseteq Blocks /\ 0 \notin Spilled
  BY Shape, Geometry
<1>4. \A t \in Spilled : TableOf(t)' = TableOf(t)
  BY <1>2, <1>3 DEF TableOf
<1>5. TableOf(0)' = [s_nfree |-> s_nfree + 1, s_free |-> s_free']
  BY <1>2 DEF TableOf
<1>6. Spilled' = Spilled
  <2>1. TableOf(0)'.s_free[0] = TableOf(0).s_free[0]
    BY <1>1, <1>2, <1>5, Geometry DEF TableOf
  <2> QED
    BY <2>1, <1>4, SameChain DEF Tables
<1>7. \A t \in Tables : Live(t)' = IF t = 0 THEN Live(0) \cup {s_nfree} ELSE Live(t)
  <2>1. Live(0)' = 0 .. s_nfree /\ Live(0) = 0 .. s_nfree - 1
    BY <1>1, <1>5 DEF Live, TableOf
  <2>2. Live(0)' = Live(0) \cup {s_nfree}
    BY <2>1, <1>1
  <2>3. \A t \in Spilled : Live(t)' = Live(t)
    BY <1>4 DEF Live
  <2> QED
    BY <2>2, <2>3, <1>3 DEF Tables
<1>8. \A t \in Tables : \A i \in Live(t)' :
        TableOf(t)'.s_free[i] =
          IF t = 0 /\ i = s_nfree THEN b ELSE TableOf(t).s_free[i]
  <2>1. ASSUME NEW i \in Live(0)'
        PROVE  TableOf(0)'.s_free[i] =
                 IF i = s_nfree THEN b ELSE TableOf(0).s_free[i]
    <3>1. TableOf(0)'.s_free = s_free' /\ TableOf(0).s_free = s_free
      BY <1>5 DEF TableOf
    <3>2. i \in Slots
      BY <1>1, <1>5, GeometryAssumption DEF Live, Slots
    <3> QED
      BY <1>1, <1>2, <3>1, <3>2
  <2>2. ASSUME NEW t \in Spilled, NEW i \in Live(t)'
        PROVE  TableOf(t)'.s_free[i] = TableOf(t).s_free[i]
    BY <1>4
  <2> QED
    BY <2>1, <2>2, <1>3 DEF Tables
<1>9. 0 \in Tables /\ s_nfree \in Live(0)' /\ s_nfree \notin Live(0)
  <2>1. Live(0)' = 0 .. s_nfree /\ Live(0) = 0 .. s_nfree - 1
    BY <1>1, <1>5 DEF Live, TableOf
  <2> QED
    BY <2>1, <1>1 DEF Tables
<1>10. Listed' = Listed \cup {b}
  <2>1. Tables' = Tables
    BY <1>6 DEF Tables
  <2>2. \A t \in Tables : Entries(t)' =
          IF t = 0 THEN Entries(0) \cup {b} ELSE Entries(t)
    BY <1>7, <1>8, <1>9 DEF Entries
  <2> QED
    BY <2>1, <2>2, <1>1, <1>9 DEF Listed
<1>11. ListedOnce'
  <2>1. \A t \in Tables : \A i \in Live(t) : TableOf(t).s_free[i] # b
    BY <1>1 DEF Listed, Entries
  <2>2. Tables' = Tables
    BY <1>6 DEF Tables
  <2> QED
    BY <2>1, <2>2, <1>1, <1>7, <1>8, <1>9 DEF IInv, ListedOnce
<1>12. SpilledFull'
  BY <1>4, <1>6 DEF IInv, SpilledFull
<1> QED
  BY <1>2, <1>6, <1>10, <1>11, <1>12

LEMMA SpillingKeeps ==
  ASSUME IInv, NEW b \in held, ReleaseSpilling(b)
  PROVE  /\ Spilled' = Spilled \cup {b}
         /\ Listed' = Listed \cup {b}
         /\ ListedOnce' /\ SpilledFull'
         /\ s_nfree' \in 1 .. FREE_INDEX_PER_BLOCK
         /\ s_free' \in [Slots -> Nat]
         /\ disk' \in [Blocks -> Table]
<1>1. /\ b \in Blocks /\ b \in Nat /\ b # 0
      /\ b \notin Listed /\ b \notin Spilled /\ 0 \notin Spilled
      /\ Spilled \subseteq Blocks
      /\ 0 \in Slots
      /\ s_nfree = FREE_INDEX_PER_BLOCK
  <2>1. b \in Blocks /\ b \notin Listed
    BY DEF IInv, TypeOK, Partition
  <2>2. b \in Nat /\ b # 0 /\ 0 \in Slots
    BY <2>1, Geometry
  <2>3. s_nfree = FREE_INDEX_PER_BLOCK
    BY GeometryAssumption DEF IInv, TypeOK, ReleaseSpilling
  <2>4. b \notin Spilled /\ 0 \notin Spilled /\ Spilled \subseteq Blocks
    BY <2>1, Shape, Geometry
  <2> QED
    BY <2>1, <2>2, <2>3, <2>4
<1>2. /\ s_nfree' = 1 /\ s_nfree' \in 1 .. FREE_INDEX_PER_BLOCK
      /\ s_free' \in [Slots -> Nat] /\ s_free'[0] = b
  BY <1>1, GeometryAssumption DEF ReleaseSpilling, ZeroSlots
<1>3. disk' \in [Blocks -> Table]
  BY <1>1, GeometryAssumption DEF IInv, TypeOK, ReleaseSpilling, Table
<1>4. /\ TableOf(b)' = TableOf(0)
      /\ TableOf(0)' = [s_nfree |-> 1, s_free |-> s_free']
      /\ \A t \in Blocks \ {b} : TableOf(t)' = TableOf(t)
  <2>1. 0 \notin Blocks
    BY Geometry
  <2> QED
    BY <1>1, <1>2, <2>1 DEF IInv, TypeOK, ReleaseSpilling, TableOf
<1>5. PICK S \in SUBSET Blocks : S = Spilled
  BY <1>1
<1>6. Spilled' = S \cup {b}
  <2>1. Closed(S \cup {b})'
    <3> SUFFICES ASSUME NEW t \in S \cup {b, 0}, TableOf(t)'.s_free[0] \in Blocks
                 PROVE  TableOf(t)'.s_free[0] \in S \cup {b}
      BY DEF Closed
    <3>1. CASE t = 0
      BY <3>1, <1>2, <1>4
    <3>2. CASE t = b
      BY <3>2, <1>4, <1>5, SpilledClosed DEF Closed
    <3>3. CASE t \in S \ {b}
      BY <3>3, <1>4, <1>5, SpilledClosed DEF Closed
    <3> QED
      BY <3>1, <3>2, <3>3
  <2>2. Spilled' \subseteq S \cup {b}
    BY <2>1, <1>1, <1>5 DEF Spilled
  <2>3. ASSUME NEW L \in SUBSET Blocks, Closed(L)'
        PROVE  S \cup {b} \subseteq L
    <3>1. b \in L
      BY <2>3, <1>1, <1>2, <1>4 DEF Closed
    <3>2. Closed(L \cap S)
      <4> SUFFICES ASSUME NEW t \in (L \cap S) \cup {0}, TableOf(t).s_free[0] \in Blocks
                   PROVE  TableOf(t).s_free[0] \in L \cap S
        BY DEF Closed
      <4>1. TableOf(t).s_free[0] \in S
        BY <1>5, SpilledClosed DEF Closed
      <4>2. CASE t = 0
        BY <4>1, <4>2, <3>1, <2>3, <1>4 DEF Closed
      <4>3. CASE t \in L \cap S
        BY <4>1, <4>3, <2>3, <1>1, <1>4, <1>5 DEF Closed
      <4> QED
        BY <4>2, <4>3
    <3> QED
      BY <3>1, <3>2, <1>5, SpilledLeast
  <2>4. S \cup {b} \subseteq Spilled'
    BY <2>3, <1>1, <1>5 DEF Spilled
  <2> QED
    BY <2>2, <2>4
<1>7. Tables' = Tables \cup {b} /\ b \notin Tables
  BY <1>1, <1>5, <1>6 DEF Tables
<1>8. /\ Live(b)' = Live(0) /\ Live(0)' = {0}
      /\ \A t \in Spilled : Live(t)' = Live(t)
  BY <1>1, <1>4 DEF Live
<1>9. Listed' = Listed \cup {b}
  <2>1. Entries(0)' = {b}
    BY <1>2, <1>4, <1>8 DEF Entries
  <2>2. Entries(b)' = Entries(0)
    BY <1>4, <1>8 DEF Entries
  <2>3. \A t \in Spilled : Entries(t)' = Entries(t)
    BY <1>1, <1>4, <1>8 DEF Entries
  <2>4. ASSUME NEW x
        PROVE  (\E t \in Tables' : x \in Entries(t)')
                 <=> x = b \/ \E t \in Tables : x \in Entries(t)
    <3>1. Tables' = Spilled \cup {0, b} /\ Tables = Spilled \cup {0}
      BY <1>7 DEF Tables
    <3> QED
      BY <3>1, <2>1, <2>2, <2>3
  <2> QED
    BY <2>4, <1>1 DEF Listed
<1>10. ListedOnce'
  <2> DEFINE old(t) == IF t = b THEN 0 ELSE t
  <2>1. \A t \in Tables : \A i \in Live(t) : TableOf(t).s_free[i] # b
    BY <1>1 DEF Listed, Entries
  <2>2. \A t \in Tables' \ {0} : /\ old(t) \in Tables
                                 /\ Live(t)' = Live(old(t))
                                 /\ TableOf(t)' = TableOf(old(t))
    BY <1>1, <1>4, <1>7, <1>8 DEF Tables
  <2>3. \A t, u \in Tables' \ {0} : old(t) = old(u) => t = u
    BY <1>1 DEF Tables
  <2>4. /\ Live(0)' = {0} /\ TableOf(0)'.s_free[0] = b
    BY <1>2, <1>4, <1>8
  <2>5. ASSUME NEW t \in Tables', NEW u \in Tables',
               NEW i \in Live(t)', NEW j \in Live(u)',
               TableOf(t)'.s_free[i] = TableOf(u)'.s_free[j]
        PROVE  t = u /\ i = j
    <3>1. CASE t # 0 /\ u # 0
      <4>1. old(t) = old(u) /\ i = j
        BY <3>1, <2>2, <2>5 DEF IInv, ListedOnce
      <4> QED
        BY <4>1, <3>1, <2>3
    <3>2. CASE t = 0 \/ u = 0
      BY <3>2, <2>1, <2>2, <2>4, <2>5
    <3> QED
      BY <3>1, <3>2
  <2>6. ASSUME NEW t \in Tables', NEW i \in Live(t)'
        PROVE  \/ TableOf(t)'.s_free[i] \in Blocks
               \/ i = 0 /\ TableOf(t)'.s_free[i] = 0
    <3>1. CASE t # 0
      BY <3>1, <2>2 DEF IInv, ListedOnce
    <3>2. CASE t = 0
      BY <3>2, <2>4, <1>1
    <3> QED
      BY <3>1, <3>2
  <2> QED
    BY <2>5, <2>6 DEF ListedOnce
<1>11. SpilledFull'
  <2>1. TableOf(b)'.s_nfree = FREE_INDEX_PER_BLOCK
    BY <1>1, <1>4 DEF TableOf
  <2>2. \A t \in Spilled : TableOf(t)'.s_nfree = FREE_INDEX_PER_BLOCK
    BY <1>1, <1>4 DEF IInv, SpilledFull
  <2> QED
    BY <2>1, <2>2, <1>5, <1>6 DEF SpilledFull
<1> QED
  BY <1>2, <1>3, <1>5, <1>6, <1>9, <1>10, <1>11
-----------------------------------------------------------------------------
(* allocate_block *)

(* Writing a block that stores no spilled table changes nothing of the list. *)
LEMMA OffChainWrite ==
  ASSUME IInv, NEW b \in Blocks \ Spilled, NEW data \in Table,
         disk' = [disk EXCEPT ![b] = data]
  PROVE  \A t \in Spilled : TableOf(t)' = TableOf(t)
BY Shape, Geometry DEF IInv, TypeOK, TableOf

LEMMA ClearedWrite ==
  ASSUME IInv, NEW b \in Blocks \ Spilled, NEW zero \in BOOLEAN,
         disk' = Cleared(b, zero)
  PROVE  /\ \A t \in Spilled : TableOf(t)' = TableOf(t)
         /\ disk' \in [Blocks -> Table]
<1>1. CASE zero
  BY <1>1, OffChainWrite, Geometry DEF Cleared, IInv, TypeOK
<1>2. CASE ~zero
  BY <1>2, Geometry DEF Cleared, IInv, TypeOK, TableOf, Spilled
<1> QED
  BY <1>1, <1>2

LEMMA FromTableKeeps ==
  ASSUME IInv, NEW zero \in BOOLEAN, AllocateFromTable(zero)
  PROVE  /\ s_free[s_nfree - 1] \in Listed
         /\ Spilled' = Spilled
         /\ Listed' = Listed \ {s_free[s_nfree - 1]}
         /\ held' = held \cup {s_free[s_nfree - 1]}
         /\ ListedOnce' /\ SpilledFull'
         /\ s_nfree' \in 1 .. FREE_INDEX_PER_BLOCK
         /\ s_free' \in [Slots -> Nat]
         /\ disk' \in [Blocks -> Table]
<1> DEFINE b == s_free[s_nfree - 1]
<1>1. /\ s_nfree - 1 \in Live(0) /\ s_nfree - 1 # 0
      /\ 0 \in Tables /\ 0 \notin Spilled /\ 0 \notin Blocks
      /\ s_nfree - 1 \in 1 .. FREE_INDEX_PER_BLOCK
      /\ Spilled \subseteq Blocks
      /\ TableOf(0).s_free[s_nfree - 1] = b
  BY Shape, Geometry, GeometryAssumption
     DEF IInv, TypeOK, AllocateFromTable, Live, TableOf, Tables
<1>2. b \in Blocks /\ b # 0
  BY <1>1 DEF IInv, ListedOnce
<1>3. b \in Listed
  BY <1>1, <1>2 DEF Listed, Entries
<1>4. b \notin Spilled
  <2>1. SUFFICES ASSUME b \in Spilled
                 PROVE  FALSE
    OBVIOUS
  <2>2. PICK t \in Tables : TableOf(t).s_free[0] = b
    BY <2>1, SpilledIsLink
  <2>3. 0 \in Live(t)
    BY Shape
  <2> QED
    BY <1>1, <2>2, <2>3 DEF IInv, ListedOnce
<1>5. /\ s_nfree' = s_nfree - 1 /\ s_free' = s_free
      /\ s_nfree' \in 1 .. FREE_INDEX_PER_BLOCK
      /\ s_free' \in [Slots -> Nat]
      /\ held' = held \cup {b}
      /\ disk' = Cleared(b, zero)
  BY <1>1 DEF IInv, TypeOK, AllocateFromTable
<1>6. disk' \in [Blocks -> Table] /\ \A t \in Spilled : TableOf(t)' = TableOf(t)
  BY <1>2, <1>4, <1>5, ClearedWrite
<1>7. TableOf(0)' = [s_nfree |-> s_nfree - 1, s_free |-> s_free]
  BY <1>5 DEF TableOf
<1>8. \A t \in Tables : TableOf(t)'.s_free = TableOf(t).s_free
  BY <1>6, <1>7 DEF Tables, TableOf
<1>9. Spilled' = Spilled /\ Tables' = Tables
  BY <1>8, SameChain DEF Tables
<1>10. \A t \in Tables :
         Live(t)' = IF t = 0 THEN Live(0) \ {s_nfree - 1} ELSE Live(t)
  <2>1. Live(0)' = 0 .. s_nfree - 2 /\ Live(0) = 0 .. s_nfree - 1
    BY <1>7, <1>5, GeometryAssumption DEF Live, TableOf, IInv, TypeOK
  <2>2. Live(0)' = Live(0) \ {s_nfree - 1}
    BY <2>1 DEF IInv, TypeOK
  <2>3. \A t \in Spilled : Live(t)' = Live(t)
    BY <1>6 DEF Live
  <2> QED
    BY <2>2, <2>3, <1>1 DEF Tables
<1>11. \A t \in Tables : Entries(t)' = Entries(t) \ {b}
  <2>1. ASSUME NEW t \in Tables
        PROVE  Entries(t)' = Entries(t) \ {b}
    <3>1. \A i \in Live(t) : TableOf(t).s_free[i] = b <=> t = 0 /\ i = s_nfree - 1
      BY <1>1 DEF IInv, ListedOnce
    <3> HIDE DEF b
    <3> QED
      BY <3>1, <1>8, <1>10 DEF Entries
  <2> QED
    BY <2>1
<1>12. Listed' = Listed \ {b}
  BY <1>9, <1>11 DEF Listed
<1>13. ListedOnce'
  BY <1>8, <1>9, <1>10 DEF IInv, ListedOnce
<1>14. SpilledFull'
  BY <1>6, <1>9 DEF IInv, SpilledFull
<1> QED
  BY <1>3, <1>5, <1>6, <1>9, <1>12, <1>13, <1>14

LEMMA ReloadingKeeps ==
  ASSUME IInv, NEW zero \in BOOLEAN, AllocateReloading(zero), ~NoFreeBlock
  PROVE  /\ s_free[0] \in Listed
         /\ Spilled' = Spilled \ {s_free[0]}
         /\ Listed' = Listed \ {s_free[0]}
         /\ held' = held \cup {s_free[0]}
         /\ ListedOnce' /\ SpilledFull'
         /\ s_nfree' \in 1 .. FREE_INDEX_PER_BLOCK
         /\ s_free' \in [Slots -> Nat]
         /\ disk' \in [Blocks -> Table]
<1>0. PICK b : b = s_free[0]
  OBVIOUS
<1>1. /\ s_nfree = 1 /\ Live(0) = {0} /\ TableOf(0).s_free[0] = b
      /\ 0 \in Tables /\ 0 \notin Blocks /\ 0 \notin Spilled
      /\ Spilled \subseteq Blocks
  BY <1>0, Shape, Geometry DEF AllocateReloading, Live, TableOf, Tables
<1>2. b \in Blocks /\ b # 0
  BY <1>0, <1>1 DEF IInv, ListedOnce, NoFreeBlock
<1>3. b \in Listed /\ b \in Spilled /\ b \in Tables
  BY <1>1, <1>2, SpilledClosed DEF Listed, Entries, Closed, Tables
<1>4. \A t \in Tables : TableOf(t).s_free[0] = b <=> t = 0
  BY <1>1, Shape DEF IInv, ListedOnce
<1>5. TableOf(0)' = disk[b] /\ TableOf(b) = disk[b]
  <2>1. disk[b] \in Table
    BY <1>2 DEF IInv, TypeOK
  <2> QED
    BY <1>0, <1>2, <2>1 DEF AllocateReloading, TableOf, Table
<1>6. /\ disk' \in [Blocks -> Table]
      /\ \A t \in Spilled \ {b} : TableOf(t)' = TableOf(t)
  BY <1>0, <1>1, <1>2, Geometry
     DEF IInv, TypeOK, AllocateReloading, Cleared, TableOf
<1>7. /\ held' = held \cup {b}
      /\ s_nfree' \in 1 .. FREE_INDEX_PER_BLOCK
      /\ s_free' \in [Slots -> Nat]
  <2>1. TableOf(b) \in Table /\ TableOf(b).s_nfree \in 1 .. FREE_INDEX_PER_BLOCK
    BY <1>3, Shape
  <2> QED
    BY <1>0, <2>1, <1>5 DEF AllocateReloading, Table
<1>8. PICK S \in SUBSET Blocks : S = Spilled
  BY <1>1
<1>9. Spilled' = S \ {b}
  <2>1. Closed(S \ {b})'
    <3> SUFFICES ASSUME NEW t \in (S \ {b}) \cup {0}, TableOf(t)'.s_free[0] \in Blocks
                 PROVE  TableOf(t)'.s_free[0] \in S \ {b}
      BY DEF Closed
    <3>1. CASE t = 0
      BY <3>1, <1>2, <1>3, <1>4, <1>5, <1>8, SpilledClosed DEF Closed
    <3>2. CASE t \in S \ {b}
      BY <3>2, <1>1, <1>4, <1>6, <1>8, SpilledClosed DEF Closed, Tables
    <3> QED
      BY <3>1, <3>2
  <2>2. Spilled' \subseteq S \ {b}
    BY <2>1, <1>8 DEF Spilled
  <2>3. ASSUME NEW L \in SUBSET Blocks, Closed(L)'
        PROVE  S \ {b} \subseteq L
    <3>1. Closed((L \cap S) \cup {b})
      <4> SUFFICES ASSUME NEW t \in (L \cap S) \cup {0, b}, TableOf(t).s_free[0] \in Blocks
                   PROVE  TableOf(t).s_free[0] \in (L \cap S) \cup {b}
        BY DEF Closed
      <4>1. TableOf(t).s_free[0] \in S
        BY <1>3, <1>8, SpilledClosed DEF Closed
      <4>2. CASE t = 0
        BY <4>2, <1>1
      <4>3. CASE t = b
        BY <4>1, <4>3, <2>3, <1>5 DEF Closed
      <4>4. CASE t \in (L \cap S) \ {b}
        BY <4>1, <4>4, <2>3, <1>6, <1>8 DEF Closed
      <4> QED
        BY <4>2, <4>3, <4>4
    <3>2. Spilled \subseteq (L \cap S) \cup {b}
      BY <3>1, <1>2, SpilledLeast
    <3> QED
      BY <3>2, <1>8
  <2>4. S \ {b} \subseteq Spilled'
    BY <2>3, <1>8 DEF Spilled
  <2> QED
    BY <2>2, <2>4
<1>10. Tables' = Tables \ {b}
  BY <1>2, <1>8, <1>9 DEF Tables
<1>11. /\ Live(0)' = Live(b)
       /\ \A t \in Spilled \ {b} : Live(t)' = Live(t)
  BY <1>5, <1>6 DEF Live
<1>12. Listed' = Listed \ {b}
  <2>1. Entries(0) = {b}
    BY <1>1 DEF Entries
  <2>2. Entries(0)' = Entries(b)
    BY <1>5, <1>11 DEF Entries
  <2>3. \A t \in Spilled \ {b} : Entries(t)' = Entries(t)
    BY <1>6, <1>11 DEF Entries
  <2>4. \A t \in Spilled : b \notin Entries(t)
    BY <1>1 DEF IInv, ListedOnce, Entries, Tables
  <2>5. ASSUME NEW x
        PROVE  (\E t \in Tables' : x \in Entries(t)')
                 <=> x # b /\ \E t \in Tables : x \in Entries(t)
    <3>1. /\ Tables' = (Spilled \ {b}) \cup {0}
          /\ Tables = (Spilled \ {b}) \cup {0, b}
      BY <1>2, <1>3, <1>10 DEF Tables
    <3> QED
      BY <3>1, <2>1, <2>2, <2>3, <2>4, <1>3
  <2> QED
    BY <2>5 DEF Listed
<1>13. ListedOnce'
  <2> DEFINE old(t) == IF t = 0 THEN b ELSE t
  <2>1. \A t \in Tables' : /\ old(t) \in Tables
                           /\ Live(t)' = Live(old(t))
                           /\ TableOf(t)' = TableOf(old(t))
    BY <1>3, <1>5, <1>6, <1>10, <1>11 DEF Tables
  <2>2. \A t, u \in Tables' : old(t) = old(u) => t = u
    BY <1>2, <1>10 DEF Tables
  <2> HIDE DEF old
  <2> QED
    BY <2>1, <2>2 DEF IInv, ListedOnce
<1>14. SpilledFull'
  BY <1>6, <1>8, <1>9 DEF IInv, SpilledFull
<1> QED
  BY <1>0, <1>3, <1>6, <1>7, <1>8, <1>9, <1>12, <1>13, <1>14
-----------------------------------------------------------------------------
(* The inductive invariant. *)

LEMMA InitIInv == Init => IInv /\ Listed = {}
<1> SUFFICES ASSUME Init
             PROVE  IInv /\ Listed = {}
  OBVIOUS
<1>1. TypeOK
  BY Geometry, GeometryAssumption DEF Init, TypeOK, ZeroSlots
<1>2. TableOf(0).s_free[0] = 0 /\ Live(0) = {0}
  BY Geometry DEF Init, TableOf, ZeroSlots, Live
<1>3. Spilled = {}
  <2>1. Closed({})
    BY <1>2, Geometry DEF Closed
  <2> QED
    BY <2>1, SpilledLeast
<1>4. Tables = {0} /\ Entries(0) = {0} /\ Listed = {}
  BY <1>2, <1>3 DEF Tables, Entries, Listed
<1>5. ListedOnce /\ SpilledFull
  BY <1>2, <1>3, <1>4 DEF ListedOnce, SpilledFull
<1>6. Partition /\ CountExact
  BY <1>4, FS_EmptySet DEF Partition, CountExact, Init
<1>7. next .. DISK_BLOCKS - 1 \subseteq held
  BY DEF Init, Blocks
<1> QED
  BY <1>1, <1>4, <1>5, <1>6, <1>7 DEF IInv

LEMMA ReleaseBlockStep ==
  ASSUME IInv, NEW b \in held, ReleaseBlock(b)
  PROVE  /\ Listed' = Listed \cup {b}
         /\ held' = held \ {b}
         /\ Partition' /\ CountExact' /\ ListedOnce' /\ SpilledFull'
         /\ next' \in DATA_START .. DISK_BLOCKS => TypeOK'
<1>1. held' = held \ {b} /\ bfree' = bfree + 1
  BY DEF ReleaseBlock
<1>2. /\ Listed' = Listed \cup {b} /\ ListedOnce' /\ SpilledFull'
      /\ s_nfree' \in 1 .. FREE_INDEX_PER_BLOCK
      /\ s_free' \in [Slots -> Nat]
      /\ disk' \in [Blocks -> Table]
  <2>1. CASE ReleaseIntoTable(b)
    BY <2>1, IntoTableKeeps DEF IInv, TypeOK
  <2>2. CASE ReleaseSpilling(b)
    BY <2>2, SpillingKeeps
  <2> QED
    BY <2>1, <2>2 DEF ReleaseBlock
<1> QED
  BY <1>1, <1>2, ListGrows DEF TypeOK

LEMMA FormatStepKeeps ==
  ASSUME IInv, FormatStep
  PROVE  IInv' /\ Pool!Release
<1>1. /\ next \in held /\ next' = next + 1
      /\ next' \in DATA_START .. DISK_BLOCKS
      /\ ReleaseBlock(next)
      /\ next \in Nat /\ next' .. DISK_BLOCKS - 1 = (next .. DISK_BLOCKS - 1) \ {next}
  BY GeometryAssumption DEF IInv, TypeOK, FormatStep, Formatted
<1>2. PICK b \in held : b = next
  BY <1>1
<1>3. /\ Listed' = Listed \cup {b} /\ held' = held \ {b}
      /\ Partition' /\ CountExact' /\ ListedOnce' /\ SpilledFull' /\ TypeOK'
  BY <1>1, <1>2, ReleaseBlockStep
<1>4. next' .. DISK_BLOCKS - 1 \subseteq held'
  BY <1>1, <1>2, <1>3 DEF IInv
<1> QED
  BY <1>3, <1>4 DEF IInv, Pool!Release

LEMMA ReleaseKeeps ==
  ASSUME IInv, NEW b \in Blocks, Release(b)
  PROVE  IInv' /\ Pool!Release
<1>1. /\ b \in held /\ ReleaseBlock(b)
      /\ next' = next /\ next' \in DATA_START .. DISK_BLOCKS
      /\ next' .. DISK_BLOCKS - 1 = {}
  BY GeometryAssumption DEF IInv, TypeOK, Release, Formatted
<1>2. /\ Listed' = Listed \cup {b} /\ held' = held \ {b}
      /\ Partition' /\ CountExact' /\ ListedOnce' /\ SpilledFull' /\ TypeOK'
  BY <1>1, ReleaseBlockStep
<1> QED
  BY <1>1, <1>2 DEF IInv, Pool!Release

LEMMA AllocateKeeps ==
  ASSUME IInv, NEW zero \in BOOLEAN, Allocate(zero)
  PROVE  IInv' /\ Pool!Allocate
<1>1. /\ ~NoFreeBlock /\ bfree' = bfree - 1
      /\ next' = next /\ next' \in DATA_START .. DISK_BLOCKS
      /\ next' .. DISK_BLOCKS - 1 = {}
  BY GeometryAssumption DEF IInv, TypeOK, Allocate, Formatted
<1>2. PICK b \in Listed :
        /\ Listed' = Listed \ {b} /\ held' = held \cup {b}
        /\ ListedOnce' /\ SpilledFull'
        /\ s_nfree' \in 1 .. FREE_INDEX_PER_BLOCK
        /\ s_free' \in [Slots -> Nat]
        /\ disk' \in [Blocks -> Table]
  <2>1. CASE AllocateFromTable(zero)
    BY <2>1, FromTableKeeps
  <2>2. CASE AllocateReloading(zero)
    BY <1>1, <2>2, ReloadingKeeps
  <2> QED
    BY <2>1, <2>2 DEF Allocate
<1>3. Partition' /\ CountExact' /\ TypeOK'
  BY <1>1, <1>2, ListShrinks DEF TypeOK
<1> QED
  BY <1>1, <1>2, <1>3 DEF IInv, Pool!Allocate

LEMMA ClientWriteKeeps ==
  ASSUME IInv, NEW b \in Blocks, NEW data \in ClientData, ClientWrite(b, data)
  PROVE  IInv' /\ UNCHANGED <<Listed, held>>
<1>1. /\ b \in Blocks \ Spilled /\ data \in Table
      /\ disk' = [disk EXCEPT ![b] = data]
      /\ UNCHANGED <<s_nfree, s_free, bfree, held, next>>
  BY Shape, ClientDataAssumption DEF ClientWrite
<1>2. \A t \in Tables : TableOf(t)' = TableOf(t)
  <2>1. \A t \in Spilled : TableOf(t)' = TableOf(t)
    BY <1>1, OffChainWrite
  <2>2. TableOf(0)' = TableOf(0)
    BY <1>1 DEF TableOf
  <2> QED
    BY <2>1, <2>2 DEF Tables
<1>3. Spilled' = Spilled /\ Tables' = Tables
  BY <1>2, SameChain DEF Tables
<1>4. \A t \in Tables : Live(t)' = Live(t) /\ Entries(t)' = Entries(t)
  BY <1>2 DEF Live, Entries
<1>5. Listed' = Listed
  BY <1>3, <1>4 DEF Listed
<1>6. ListedOnce'
  BY <1>2, <1>3, <1>4 DEF IInv, ListedOnce
<1>7. SpilledFull'
  BY <1>2, <1>3 DEF IInv, SpilledFull, Tables
<1>8. TypeOK' /\ Partition' /\ CountExact'
  BY <1>1, <1>5 DEF IInv, TypeOK, Partition, CountExact
<1> QED
  BY <1>1, <1>5, <1>6, <1>7, <1>8 DEF IInv

LEMMA UnchangedKeeps ==
  ASSUME IInv, UNCHANGED vars
  PROVE  IInv' /\ UNCHANGED <<Listed, held>>
<1>1. \A t \in Tables : TableOf(t)' = TableOf(t)
  BY DEF vars, TableOf
<1>2. Spilled' = Spilled /\ Tables' = Tables
  BY <1>1, SameChain DEF Tables
<1>3. \A t \in Tables : Live(t)' = Live(t) /\ Entries(t)' = Entries(t)
  BY <1>1 DEF Live, Entries
<1>4. Listed' = Listed
  BY <1>2, <1>3 DEF Listed
<1>5. ListedOnce'
  BY <1>1, <1>2, <1>3 DEF IInv, ListedOnce
<1>6. SpilledFull'
  BY <1>1, <1>2 DEF IInv, SpilledFull, Tables
<1>7. TypeOK' /\ Partition' /\ CountExact'
  BY <1>4 DEF vars, IInv, TypeOK, Partition, CountExact
<1> QED
  BY <1>4, <1>5, <1>6, <1>7 DEF vars, IInv

LEMMA NextKeeps ==
  ASSUME IInv, [Next]_vars
  PROVE  IInv' /\ [Pool!Next]_(Pool!poolVars)
<1>1. CASE FormatStep
  BY <1>1, FormatStepKeeps DEF Pool!Next
<1>2. ASSUME NEW b \in Blocks, Release(b)
      PROVE  IInv' /\ [Pool!Next]_(Pool!poolVars)
  BY <1>2, ReleaseKeeps DEF Pool!Next
<1>3. ASSUME NEW zero \in BOOLEAN, Allocate(zero)
      PROVE  IInv' /\ [Pool!Next]_(Pool!poolVars)
  BY <1>3, AllocateKeeps DEF Pool!Next
<1>4. ASSUME NEW b \in Blocks, NEW data \in ClientData, ClientWrite(b, data)
      PROVE  IInv' /\ [Pool!Next]_(Pool!poolVars)
  BY <1>4, ClientWriteKeeps DEF Pool!poolVars
<1>5. CASE UNCHANGED vars
  BY <1>5, UnchangedKeeps DEF Pool!poolVars
<1> QED
  BY <1>1, <1>2, <1>3, <1>4, <1>5 DEF Next

(* IInv, the conjunction of everything the free list keeps, holds in every  *)
(* reachable state of every disk, format included.                          *)
THEOREM Invariance == Spec => []IInv
<1>1. Init => IInv
  BY InitIInv
<1>2. IInv /\ [Next]_vars => IInv'
  BY NextKeeps
<1> QED
  BY <1>1, <1>2, PTL DEF Spec

(* The types of the superblock's fields, of every block on disk and of the  *)
(* counter: the table never over- or underflows, bfree stays a block count. *)
THEOREM TypeCorrect == Spec => []TypeOK
<1>1. IInv => TypeOK
  BY DEF IInv
<1> QED
  BY <1>1, Invariance, PTL

(* No block, and no end mark, is on the free list twice.                    *)
THEOREM NeverListedTwice == Spec => []ListedOnce
<1>1. IInv => ListedOnce
  BY DEF IInv
<1> QED
  BY <1>1, Invariance, PTL

(* A block in use is never on the free list, and no block is ever lost.     *)
THEOREM NoBlockLostOrShared == Spec => []Partition
<1>1. IInv => Partition
  BY DEF IInv
<1> QED
  BY <1>1, Invariance, PTL

(* The counter bfree that statfs reports is the number of free blocks.      *)
THEOREM CountCorrect == Spec => []CountExact
<1>1. IInv => CountExact
  BY DEF IInv
<1> QED
  BY <1>1, Invariance, PTL

LEMMA FullWhenRefused ==
  ASSUME IInv
  PROVE  DiskFullIsReal
<1>1. ASSUME NoFreeBlock
      PROVE  Listed = {}
  <2>1. Closed({})
    BY <1>1, Geometry DEF NoFreeBlock, Closed, TableOf
  <2>2. Tables = {0}
    BY <2>1, SpilledLeast DEF Tables
  <2>3. Entries(0) = {0}
    BY <1>1 DEF NoFreeBlock, Entries, Live, TableOf
  <2> QED
    BY <2>2, <2>3 DEF Listed
<1>2. ASSUME Listed = {}
      PROVE  NoFreeBlock
  <2>1. 0 \in Live(0) /\ s_nfree - 1 \in Live(0) /\ 0 \in Tables
    BY Shape DEF IInv, TypeOK, Live, TableOf, Tables
  <2>2. \A i \in Live(0) : TableOf(0).s_free[i] = 0
    BY <1>2, <2>1 DEF Listed, Entries
  <2>3. TableOf(0).s_free[0] = TableOf(0).s_free[s_nfree - 1]
    BY <2>1, <2>2
  <2>4. s_nfree - 1 = 0
    <3>1. \A i, j \in Live(0) : TableOf(0).s_free[i] = TableOf(0).s_free[j] => i = j
      BY <2>1 DEF IInv, ListedOnce
    <3> QED
      BY <2>1, <2>3, <3>1
  <2> QED
    BY <2>1, <2>2, <2>4 DEF NoFreeBlock, TableOf, IInv, TypeOK
<1> QED
  BY <1>1, <1>2 DEF DiskFullIsReal

(* allocate_block raises "No free block" exactly when none is left.         *)
THEOREM RefusalCorrect == Spec => []DiskFullIsReal
<1>1. IInv => DiskFullIsReal
  BY FullWhenRefused
<1> QED
  BY <1>1, Invariance, PTL

(* The spilled chain implements the set of free blocks that callers see.    *)
THEOREM ImplementsPool == Spec => PoolSpec
<1>1. Init => Pool!Init
  BY InitIInv DEF Init, Pool!Init
<1>2. IInv /\ [Next]_vars => [Pool!Next]_(Pool!poolVars)
  BY NextKeeps
<1> QED
  BY <1>1, <1>2, Invariance, PTL DEF Spec, PoolSpec, Pool!Spec
-----------------------------------------------------------------------------
(* The list as a stack.  StackUpTo satisfies the equation that defines it.  *)
Link(t) == TableOf(t).s_free[0]
StackRow(g, d, t) ==
  IF d = 0 \/ Link(t) \notin Blocks THEN TableSeq(t) ELSE g[d - 1][Link(t)] \o TableSeq(t)
StackRows(g, n) == g = [d \in 0 .. n |-> [t \in Blocks \cup {0} |-> StackRow(g, d, t)]]

LEMMA StackIsRows == StackUpTo = CHOOSE g : StackRows(g, Cardinality(Blocks))
BY DEF StackUpTo, StackRows, StackRow, Link

LEMMA RowsDefined ==
  ASSUME NEW m \in Nat
  PROVE  \E g : StackRows(g, m)
<1> DEFINE Missing == {n \in 0 .. m : ~\E g : StackRows(g, n)}
<1>1. SUFFICES ASSUME Missing # {}
               PROVE  FALSE
  <2>1. m \in 0 .. m
    OBVIOUS
  <2> QED
    BY <2>1
<1>2. PICK n \in Missing : \A k \in Missing : n <= k
  <2>1. Missing \subseteq Nat
    OBVIOUS
  <2> HIDE DEF Missing
  <2> QED
    BY <1>1, <2>1, LeastNumber
<1>3. n \in 0 .. m /\ ~\E g : StackRows(g, n)
  OBVIOUS
<1>4. n # 0
  <2> DEFINE g == [d \in 0 .. 0 |-> [t \in Blocks \cup {0} |-> TableSeq(t)]]
  <2>1. \A d \in 0 .. 0, t \in Blocks \cup {0} : StackRow(g, d, t) = TableSeq(t)
    BY DEF StackRow
  <2>2. [d \in 0 .. 0 |-> [t \in Blocks \cup {0} |-> TableSeq(t)]]
          = [d \in 0 .. 0 |-> [t \in Blocks \cup {0} |-> StackRow(g, d, t)]]
    <3> HIDE DEF g
    <3> QED
      BY <2>1
  <2>3. StackRows(g, 0)
    <3>1. g = [d \in 0 .. 0 |-> [t \in Blocks \cup {0} |-> TableSeq(t)]]
      OBVIOUS
    <3> HIDE DEF g
    <3> QED
      BY <2>2, <3>1 DEF StackRows
  <2> HIDE DEF g
  <2> QED
    BY <1>3, <2>3
<1>5. n - 1 \in 0 .. m /\ n - 1 \notin Missing
  <2>1. n - 1 \in 0 .. m /\ ~(n <= n - 1)
    BY <1>3, <1>4
  <2> HIDE DEF Missing
  <2> QED
    BY <1>2, <2>1
<1>6. PICK g : StackRows(g, n - 1)
  BY <1>5
<1> HIDE DEF Missing
<1> DEFINE h == [d \in 0 .. n |-> [t \in Blocks \cup {0} |-> StackRow(g, d, t)]]
<1>7. ASSUME NEW d \in 0 .. n - 1
      PROVE  h[d] = g[d]
  <2>1. d \in 0 .. n
    BY <1>3
  <2>2. h[d] = [t \in Blocks \cup {0} |-> StackRow(g, d, t)]
    BY <2>1
  <2>3. g = [e \in 0 .. n - 1 |-> [t \in Blocks \cup {0} |-> StackRow(g, e, t)]]
    BY <1>6 DEF StackRows
  <2>4. g[d] = [t \in Blocks \cup {0} |-> StackRow(g, d, t)]
    BY <2>3
  <2> QED
    BY <2>2, <2>4
<1>8. ASSUME NEW d \in 0 .. n, NEW t \in Blocks \cup {0}
      PROVE  StackRow(h, d, t) = StackRow(g, d, t)
  <2>1. d # 0 => d - 1 \in 0 .. n - 1
    BY <1>3
  <2>2. d # 0 => h[d - 1] = g[d - 1]
    BY <1>7, <2>1
  <2> HIDE DEF h
  <2> QED
    BY <2>2 DEF StackRow
<1>9. StackRows(h, n)
  <2>1. h = [d \in 0 .. n |-> [t \in Blocks \cup {0} |-> StackRow(g, d, t)]]
    OBVIOUS
  <2> HIDE DEF h
  <2>2. [d \in 0 .. n |-> [t \in Blocks \cup {0} |-> StackRow(g, d, t)]]
          = [d \in 0 .. n |-> [t \in Blocks \cup {0} |-> StackRow(h, d, t)]]
    BY <1>8
  <2> QED
    BY <2>1, <2>2 DEF StackRows
<1> HIDE DEF h
<1> QED
  BY <1>3, <1>9

LEMMA StackStep ==
  \A d \in 0 .. Cardinality(Blocks), t \in Blocks \cup {0} :
    StackUpTo[d][t] = StackRow(StackUpTo, d, t)
<1>1. Cardinality(Blocks) \in Nat
  BY CountBound, GeometryAssumption
<1>2. PICK g : g = StackUpTo
  OBVIOUS
<1>3. StackRows(g, Cardinality(Blocks))
  BY <1>1, <1>2, RowsDefined, StackIsRows
<1>4. ASSUME NEW d \in 0 .. Cardinality(Blocks), NEW t \in Blocks \cup {0}
      PROVE  g[d][t] = StackRow(g, d, t)
  <2>1. g = [e \in 0 .. Cardinality(Blocks) |-> [u \in Blocks \cup {0} |-> StackRow(g, e, u)]]
    BY <1>3 DEF StackRows
  <2>2. g[d] = [u \in Blocks \cup {0} |-> StackRow(g, d, u)]
    BY <2>1
  <2> QED
    BY <2>2
<1> QED
  BY <1>2, <1>4
-----------------------------------------------------------------------------
(* The chain of tables from the superblock's on, table by table.            *)
Chain(c, m) ==
  /\ c[0] = 0
  /\ \A i \in 1 .. m : c[i] \in Spilled /\ c[i] = Link(c[i - 1])
  /\ Link(c[m]) \notin Blocks
  /\ m <= Cardinality(Spilled)
Chained == \E c : \E m \in Nat : Chain(c, m)

(* What the last k tables of the chain hold, and its first one.             *)
Part(c, m, k) == StackUpTo[k][c[m - k]]
Stack         == StackUpTo[Cardinality(Blocks)][0]
Under(c, m)   == IF m = 0 THEN <<>> ELSE Part(c, m, m - 1)

LEMMA TableSeqTyped ==
  ASSUME IInv, NEW t \in Tables
  PROVE  TableSeq(t) \in Seq(Nat)
<1> DEFINE lowest == IF TableOf(t).s_free[0] = 0 THEN 1 ELSE 0
<1>1. /\ TableOf(t).s_nfree \in 1 .. FREE_INDEX_PER_BLOCK
      /\ TableOf(t).s_free \in [Slots -> Nat]
  BY Shape DEF Table
<1>2. PICK n \in Nat : n = TableOf(t).s_nfree - lowest /\ n + lowest <= FREE_INDEX_PER_BLOCK
  BY <1>1, GeometryAssumption
<1>3. \A i \in 1 .. n : lowest + i - 1 \in Slots
  BY <1>2, GeometryAssumption DEF Slots
<1>4. PICK l : l = lowest
  OBVIOUS
<1>5. TableSeq(t) = [i \in 1 .. n |-> TableOf(t).s_free[l + i - 1]]
  BY <1>2, <1>4 DEF TableSeq
<1>6. \A i \in 1 .. n : TableOf(t).s_free[l + i - 1] \in Nat
  BY <1>1, <1>3, <1>4
<1> HIDE DEF lowest
<1> QED
  BY <1>5, <1>6

PartsJoin(c, m) ==
  /\ \A k \in 0 .. m :
       /\ Part(c, m, k) \in Seq(Nat)
       /\ Part(c, m, k) = IF k = 0 THEN TableSeq(c[m])
                          ELSE Part(c, m, k - 1) \o TableSeq(c[m - k])
  /\ Stack = Part(c, m, m)

LEMMA ChainParts ==
  ASSUME IInv, NEW m \in Nat, NEW c, Chain(c, m)
  PROVE  PartsJoin(c, m)
<1>1. PICK D \in Nat : D = Cardinality(Blocks) /\ m <= D
  <2>1. /\ Cardinality(Blocks) \in Nat /\ Cardinality(Spilled) \in Nat
        /\ Cardinality(Spilled) <= Cardinality(Blocks)
    BY Shape, Geometry, FS_Subset, FS_CardinalityType
  <2> QED
    BY <2>1 DEF Chain
<1>2. /\ \A i \in 0 .. m : c[i] \in Tables /\ c[i] \in Blocks \cup {0}
      /\ \A i \in 0 .. m - 1 : Link(c[i]) = c[i + 1] /\ c[i + 1] \in Blocks
      /\ Link(c[m]) \notin Blocks
  <2>1. \A i \in 1 .. m : c[i] \in Spilled /\ c[i] \in Blocks
    BY Shape DEF Chain
  <2>2. \A i \in 0 .. m : c[i] \in Tables /\ c[i] \in Blocks \cup {0}
    BY <2>1 DEF Chain, Tables
  <2>3. ASSUME NEW i \in 0 .. m - 1
        PROVE  Link(c[i]) = c[i + 1] /\ c[i + 1] \in Blocks
    <3>1. i + 1 \in 1 .. m /\ (i + 1) - 1 = i
      OBVIOUS
    <3> QED
      BY <2>1, <3>1 DEF Chain
  <2> QED
    BY <2>2, <2>3 DEF Chain
<1> DEFINE Deep(k) == \A d \in k .. D : StackUpTo[d][c[m - k]] = Part(c, m, k)
           Joint(k) == /\ Part(c, m, k) \in Seq(Nat)
                       /\ Part(c, m, k) = IF k = 0 THEN TableSeq(c[m])
                                          ELSE Part(c, m, k - 1) \o TableSeq(c[m - k])
<1>3. Deep(0) /\ Joint(0)
  <2>1. m - 0 = m /\ m \in 0 .. m
    OBVIOUS
  <2>2. \A d \in 0 .. D : StackUpTo[d][c[m]] = TableSeq(c[m])
    BY <1>1, <1>2, <2>1, StackStep DEF StackRow
  <2>3. TableSeq(c[m]) \in Seq(Nat)
    BY <1>2, <2>1, TableSeqTyped
  <2>4. Part(c, m, 0) = TableSeq(c[m])
    BY <1>1, <2>1, <2>2 DEF Part
  <2> QED
    BY <2>1, <2>2, <2>3, <2>4
<1>4. ASSUME NEW k \in 1 .. m, Deep(k - 1), Joint(k - 1)
      PROVE  Deep(k) /\ Joint(k)
  <2>1. /\ m - k \in 0 .. m - 1 /\ (m - k) + 1 = m - (k - 1)
        /\ k \in 0 .. D /\ m - k \in 0 .. m
    BY <1>1
  <2>2. PICK t : t = c[m - k]
    OBVIOUS
  <2>3. /\ t \in Tables /\ t \in Blocks \cup {0} /\ Link(t) \in Blocks
        /\ Link(t) = c[m - (k - 1)]
    BY <1>2, <2>1, <2>2
  <2>4. ASSUME NEW d \in k .. D
        PROVE  StackUpTo[d][t] = Part(c, m, k - 1) \o TableSeq(t)
    <3>1. d \in 0 .. D /\ d # 0 /\ d - 1 \in k - 1 .. D
      OBVIOUS
    <3>2. StackUpTo[d][t] = StackUpTo[d - 1][Link(t)] \o TableSeq(t)
      BY <1>1, <2>3, <3>1, StackStep DEF StackRow
    <3>3. StackUpTo[d - 1][Link(t)] = Part(c, m, k - 1)
      BY <1>4, <2>3, <3>1
    <3> QED
      BY <3>2, <3>3
  <2>5. Part(c, m, k) = Part(c, m, k - 1) \o TableSeq(t)
    <3>1. k \in k .. D
      BY <2>1
    <3> QED
      BY <2>2, <2>4, <3>1 DEF Part
  <2>6. TableSeq(t) \in Seq(Nat)
    BY <2>3, TableSeqTyped
  <2>7. Part(c, m, k) \in Seq(Nat)
    BY <1>4, <2>5, <2>6, ConcatProperties
  <2> QED
    BY <2>2, <2>4, <2>5, <2>7
<1>5. \A k \in 0 .. m : Deep(k) /\ Joint(k)
  <2> HIDE DEF Deep, Joint
  <2> DEFINE Bad == {k \in 0 .. m : ~(Deep(k) /\ Joint(k))}
  <2>1. SUFFICES ASSUME Bad # {}
                 PROVE  FALSE
    OBVIOUS
  <2>2. PICK k \in Bad : \A j \in Bad : k <= j
    <3>1. Bad \subseteq Nat
      OBVIOUS
    <3> HIDE DEF Bad
    <3> QED
      BY <2>1, <3>1, LeastNumber
  <2>3. k \in 1 .. m
    BY <1>3
  <2>4. k - 1 \notin Bad /\ k - 1 \in 0 .. m
    <3>1. k - 1 \in 0 .. m /\ ~(k <= k - 1)
      BY <2>3
    <3> HIDE DEF Bad
    <3> QED
      BY <2>2, <3>1
  <2> QED
    BY <1>4, <2>3, <2>4
<1>6. Stack = Part(c, m, m)
  <2>1. m \in 0 .. m /\ D \in m .. D /\ m - m = 0
    BY <1>1
  <2>2. Deep(m)
    BY <1>5, <2>1
  <2>3. StackUpTo[D][c[0]] = Part(c, m, m)
    BY <2>1, <2>2
  <2> QED
    BY <1>1, <2>3 DEF Stack, Chain
<1> QED
  BY <1>5, <1>6 DEF PartsJoin

LEMMA ChainPartsNow == IInv => \A c : \A m \in Nat : Chain(c, m) => PartsJoin(c, m)
BY ChainParts

LEMMA ChainPartsNext == IInv' => \A c : \A m \in Nat : Chain(c, m)' => PartsJoin(c, m)'
<1>1. (IInv => \A c : \A m \in Nat : Chain(c, m) => PartsJoin(c, m))'
  BY ChainPartsNow, PTL
<1> QED
  BY <1>1

(* Two chains that end with tables of the same entries, now and after a     *)
(* step, hold the same in these tables.                                     *)
LEMMA SameEnd ==
  ASSUME NEW c, NEW e, NEW m \in Nat, NEW n \in Nat, PartsJoin(c, m), PartsJoin(e, n)',
         NEW p \in 0 .. m, p <= n,
         \A k \in 0 .. p : TableSeq(e[n - k])' = TableSeq(c[m - k])
  PROVE  Part(e, n, p)' = Part(c, m, p)
<1> DEFINE Bad == {k \in 0 .. p : Part(e, n, k)' # Part(c, m, k)}
<1>1. SUFFICES ASSUME Bad # {}
               PROVE  FALSE
  <2>1. p \in 0 .. p
    OBVIOUS
  <2> QED
    BY <2>1
<1>2. PICK k \in Bad : \A j \in Bad : k <= j
  <2>1. Bad \subseteq Nat
    OBVIOUS
  <2> HIDE DEF Bad
  <2> QED
    BY <1>1, <2>1, LeastNumber
<1>3. k \in 0 .. p /\ k \in 0 .. m /\ k \in 0 .. n /\ Part(e, n, k)' # Part(c, m, k)
  OBVIOUS
<1>4. Part(c, m, k) = IF k = 0 THEN TableSeq(c[m]) ELSE Part(c, m, k - 1) \o TableSeq(c[m - k])
  BY <1>3 DEF PartsJoin
<1>5. Part(e, n, k)' = IF k = 0 THEN TableSeq(e[n])'
                       ELSE Part(e, n, k - 1)' \o TableSeq(e[n - k])'
  BY <1>3 DEF PartsJoin
<1>6. TableSeq(e[n - k])' = TableSeq(c[m - k]) /\ n - 0 = n /\ m - 0 = m
  BY <1>3
<1>7. k # 0 => Part(e, n, k - 1)' = Part(c, m, k - 1)
  <2> SUFFICES ASSUME k # 0
               PROVE  Part(e, n, k - 1)' = Part(c, m, k - 1)
    OBVIOUS
  <2>1. k - 1 \in 0 .. p /\ ~(k <= k - 1)
    BY <1>3
  <2>2. k - 1 \notin Bad
    <3> HIDE DEF Bad
    <3> QED
      BY <1>2, <2>1
  <2> QED
    BY <2>1, <2>2
<1> QED
  <2> HIDE DEF Bad
  <2>1. CASE k = 0
    BY <1>3, <1>4, <1>5, <1>6, <2>1
  <2>2. CASE k # 0
    BY <1>3, <1>4, <1>5, <1>6, <1>7, <2>2
  <2> QED
    BY <2>1, <2>2

(* The superblock's table is the top of the stack.                          *)
LEMMA StackTop ==
  ASSUME IInv, NEW m \in Nat, NEW c, Chain(c, m)
  PROVE  /\ Under(c, m) \in Seq(Nat) /\ TableSeq(0) \in Seq(Nat)
         /\ Stack = Under(c, m) \o TableSeq(0)
         /\ Stack \in Seq(Nat)
<1>1. PartsJoin(c, m)
  BY ChainParts
<1>2. m \in 0 .. m /\ c[m - m] = 0
  BY DEF Chain
<1>3. TableSeq(0) \in Seq(Nat)
  BY TableSeqTyped DEF Tables
<1>4. CASE m = 0
  <2>1. Stack = TableSeq(0) /\ Under(c, m) = <<>>
    BY <1>1, <1>2, <1>4 DEF PartsJoin, Under
  <2>2. <<>> \in Seq(Nat)
    BY EmptySeq
  <2>3. <<>> \o TableSeq(0) = TableSeq(0)
    BY <1>3, ConcatEmptySeq
  <2> QED
    BY <1>3, <2>1, <2>2, <2>3
<1>5. CASE m # 0
  <2>1. m - 1 \in 0 .. m
    BY <1>5
  <2>2. Part(c, m, m - 1) \in Seq(Nat) /\ Under(c, m) = Part(c, m, m - 1)
    BY <1>1, <1>5, <2>1 DEF PartsJoin, Under
  <2>3. Stack = Part(c, m, m - 1) \o TableSeq(0) /\ Stack \in Seq(Nat)
    BY <1>1, <1>2, <1>5 DEF PartsJoin
  <2> QED
    BY <1>3, <2>2, <2>3
<1> QED
  BY <1>4, <1>5

(* What a table holds depends on nothing but the table.                     *)
LEMMA SameTable ==
  ASSUME NEW t, NEW u, TableOf(t)' = TableOf(u)
  PROVE  TableSeq(t)' = TableSeq(u) /\ Link(t)' = Link(u)
BY DEF TableSeq, Link

(* Steps that change no table but the superblock's.                         *)
LEMMA SameChainUnder ==
  ASSUME IInv, IInv', NEW m \in Nat, NEW c, Chain(c, m), Spilled' = Spilled,
         \A t \in Spilled : TableOf(t)' = TableOf(t), Link(0)' = Link(0)
  PROVE  Chain(c, m)' /\ Under(c, m)' = Under(c, m)
<1>1. \A i \in 1 .. m : c[i] \in Spilled /\ c[i] = Link(c[i - 1])
  BY DEF Chain
<1>2. \A t \in Spilled : TableSeq(t)' = TableSeq(t) /\ Link(t)' = Link(t)
  BY SameTable
<1>3. \A i \in 0 .. m : Link(c[i])' = Link(c[i])
  <2>1. c[0] = 0
    BY DEF Chain
  <2>2. \A i \in 1 .. m : Link(c[i])' = Link(c[i])
    BY <1>1, <1>2
  <2> QED
    BY <2>1, <2>2
<1>4. Chain(c, m)'
  <2>1. \A i \in 1 .. m : c[i] \in Spilled' /\ c[i] = Link(c[i - 1])'
    <3> SUFFICES ASSUME NEW i \in 1 .. m
                 PROVE  c[i] \in Spilled' /\ c[i] = Link(c[i - 1])'
      OBVIOUS
    <3>1. i - 1 \in 0 .. m
      OBVIOUS
    <3> QED
      BY <1>1, <1>3, <3>1
  <2>2. m \in 0 .. m
    OBVIOUS
  <2> QED
    BY <1>3, <2>1, <2>2 DEF Chain
<1>5. CASE m = 0
  BY <1>4, <1>5 DEF Under
<1>6. CASE m # 0
  <2>1. PartsJoin(c, m)
    BY ChainParts
  <2>2. PartsJoin(c, m)'
    BY <1>4, ChainPartsNext
  <2>3. m - 1 \in 0 .. m
    BY <1>6
  <2>4. \A k \in 0 .. m - 1 : TableSeq(c[m - k])' = TableSeq(c[m - k])
    <3>1. \A k \in 0 .. m - 1 : m - k \in 1 .. m
      BY <1>6
    <3> QED
      BY <1>1, <1>2, <3>1
  <2>5. Part(c, m, m - 1)' = Part(c, m, m - 1)
    BY <2>1, <2>2, <2>3, <2>4, SameEnd
  <2> QED
    BY <1>4, <1>6, <2>5 DEF Under
<1> QED
  BY <1>4, <1>5, <1>6

LEMMA StackTopNow ==
  IInv => \A c : \A m \in Nat : Chain(c, m) =>
            Stack = Under(c, m) \o TableSeq(0) /\ Stack \in Seq(Nat)
BY StackTop

LEMMA StackTopNext ==
  IInv' => \A c : \A m \in Nat : Chain(c, m)' =>
             Stack' = Under(c, m)' \o TableSeq(0)' /\ Stack' \in Seq(Nat)
<1>1. (IInv => \A c : \A m \in Nat : Chain(c, m) =>
               Stack = Under(c, m) \o TableSeq(0) /\ Stack \in Seq(Nat))'
  BY StackTopNow, PTL
<1> QED
  BY <1>1

LEMMA StackTypedNext == IInv' /\ Chained' => Stack' \in Seq(Nat)
BY StackTopNext DEF Chained

LEMMA AppendTop ==
  ASSUME NEW u \in Seq(Nat), NEW t \in Seq(Nat), NEW b \in Nat
  PROVE  u \o Append(t, b) = Append(u \o t, b)
BY AppendIsConcat, ConcatAssociative, ConcatProperties

LEMMA FunctionIsSeq ==
  ASSUME NEW T, NEW k \in Nat, NEW s \in [1 .. k -> T]
  PROVE  s \in Seq(T) /\ Len(s) = k
OBVIOUS

(* The entry that stands behind all others in the superblock's table.       *)
LEMMA LastEntry ==
  ASSUME NEW s, NEW t, NEW n \in Nat, NEW f \in [Slots -> Nat], NEW g \in [Slots -> Nat],
         n > 0, n < FREE_INDEX_PER_BLOCK, \A i \in 0 .. n - 1 : g[i] = f[i], NEW l \in {0, 1},
         s = [i \in 1 .. n - l |-> f[l + i - 1]],
         t = [i \in 1 .. (n + 1) - l |-> g[l + i - 1]]
  PROVE  t = Append(s, g[n])
<1>1. n - l \in Nat /\ (n + 1) - l = (n - l) + 1 /\ l + ((n - l) + 1) - 1 = n
  OBVIOUS
<1>2. PICK k \in Nat : k = n - l
  BY <1>1
<1>3. \A i \in 1 .. k : l + i - 1 \in 0 .. n - 1 /\ l + i - 1 \in Slots
  BY <1>2, GeometryAssumption DEF Slots
<1>4. s \in Seq(Nat) /\ Len(s) = k /\ \A i \in 1 .. k : s[i] = g[l + i - 1]
  <2>1. \A i \in 1 .. k : f[l + i - 1] \in Nat /\ f[l + i - 1] = g[l + i - 1]
    BY <1>3
  <2>2. s = [i \in 1 .. k |-> f[l + i - 1]]
    BY <1>2
  <2>3. s \in [1 .. k -> Nat]
    BY <2>1, <2>2
  <2>4. s \in Seq(Nat) /\ Len(s) = k
    BY <2>3, FunctionIsSeq
  <2> QED
    BY <2>1, <2>2, <2>4
<1>5. /\ t \in Seq(Nat) /\ Len(t) = k + 1 /\ t[k + 1] = g[n]
      /\ \A i \in 1 .. k : t[i] = g[l + i - 1]
  <2>1. t = [i \in 1 .. k + 1 |-> g[l + i - 1]]
    BY <1>1, <1>2
  <2>2. \A i \in 1 .. k + 1 : g[l + i - 1] \in Nat
    <3>1. \A i \in 1 .. k + 1 : l + i - 1 \in Slots
      BY <1>2, GeometryAssumption DEF Slots
    <3> QED
      BY <3>1
  <2>3. l + (k + 1) - 1 = n /\ k + 1 \in 1 .. k + 1
    BY <1>2
  <2>4. t \in [1 .. k + 1 -> Nat]
    BY <2>1, <2>2
  <2>5. t \in Seq(Nat) /\ Len(t) = k + 1
    <3>1. PICK j \in Nat : j = k + 1
      OBVIOUS
    <3>2. t \in [1 .. j -> Nat]
      BY <2>4, <3>1
    <3> QED
      BY <3>1, <3>2, FunctionIsSeq
  <2> QED
    BY <2>1, <2>3, <2>5
<1>6. /\ Append(s, g[n]) \in Seq(Nat) /\ Len(Append(s, g[n])) = k + 1
      /\ Append(s, g[n])[k + 1] = g[n]
      /\ \A i \in 1 .. k : Append(s, g[n])[i] = s[i]
  <2>1. n \in Slots /\ g[n] \in Nat
    BY GeometryAssumption DEF Slots
  <2> QED
    BY <1>4, <2>1, AppendProperties
<1>7. \A i \in 1 .. k + 1 : t[i] = Append(s, g[n])[i]
  <2>1. \A i \in 1 .. k + 1 : i \in 1 .. k \/ i = k + 1
    OBVIOUS
  <2> QED
    BY <1>4, <1>5, <1>6, <2>1
<1> QED
  BY <1>5, <1>6, <1>7, SeqEqual

(* release_block, first branch.                                             *)
LEMMA IntoTablePushes ==
  ASSUME IInv, IInv', NEW b \in held, ReleaseIntoTable(b), Chained
  PROVE  Chained' /\ Stack' = Append(Stack, b)
<1>1. PICK c : \E m \in Nat : Chain(c, m)
  BY DEF Chained
<1>2. PICK m \in Nat : Chain(c, m)
  BY <1>1
<1>3. Spilled' = Spilled /\ disk' = disk
  BY IntoTableKeeps
<1>4. PICK n \in Nat : n = s_nfree /\ n > 0 /\ n < FREE_INDEX_PER_BLOCK
  BY GeometryAssumption DEF IInv, TypeOK, ReleaseIntoTable
<1>5. /\ s_free \in [Slots -> Nat] /\ n \in Slots /\ 0 \in Slots
      /\ s_free' = [s_free EXCEPT ![n] = b] /\ s_nfree' = n + 1
      /\ s_free' \in [Slots -> Nat]
  BY <1>4, GeometryAssumption DEF IInv, TypeOK, ReleaseIntoTable, Slots
<1>6. /\ TableOf(0) = [s_nfree |-> n, s_free |-> s_free]
      /\ TableOf(0)' = [s_nfree |-> n + 1, s_free |-> s_free']
      /\ \A t \in Spilled : TableOf(t)' = TableOf(t)
  <2>1. 0 \notin Spilled
    BY Shape, Geometry
  <2> QED
    BY <1>3, <1>4, <1>5, <2>1 DEF TableOf
<1>7. PICK g : g = s_free' /\ g[0] = s_free[0] /\ g[n] = b /\ g \in [Slots -> Nat]
               /\ \A i \in 0 .. n - 1 : g[i] = s_free[i]
  <2>1. \A i \in 0 .. n - 1 : i \in Slots /\ i # n
    BY <1>4, GeometryAssumption DEF Slots
  <2> QED
    BY <1>4, <1>5, <2>1
<1>8. Link(0)' = Link(0) /\ Link(0) = s_free[0]
  BY <1>6, <1>7 DEF Link
<1>9. Chain(c, m)' /\ Under(c, m)' = Under(c, m)
  BY <1>2, <1>3, <1>6, <1>8, SameChainUnder
<1>10. TableSeq(0)' = Append(TableSeq(0), b)
  <2>1. PICK l \in {0, 1} : l = IF s_free[0] = 0 THEN 1 ELSE 0
    OBVIOUS
  <2>2. TableSeq(0) = [i \in 1 .. n - l |-> s_free[l + i - 1]]
    BY <1>6, <2>1 DEF TableSeq
  <2>3. TableSeq(0)' = [i \in 1 .. (n + 1) - l |-> g[l + i - 1]]
    BY <1>6, <1>7, <2>1 DEF TableSeq
  <2>4. PICK s, t, f : s = TableSeq(0) /\ t = TableSeq(0)' /\ f = s_free
    OBVIOUS
  <2>5. /\ f \in [Slots -> Nat] /\ \A i \in 0 .. n - 1 : g[i] = f[i]
        /\ s = [i \in 1 .. n - l |-> f[l + i - 1]]
        /\ t = [i \in 1 .. (n + 1) - l |-> g[l + i - 1]]
    BY <1>5, <1>7, <2>2, <2>3, <2>4
  <2>6. t = Append(s, g[n])
    BY <1>4, <1>7, <2>1, <2>5, LastEntry
  <2> QED
    BY <1>7, <2>4, <2>6
<1>11. b \in Nat
  BY Geometry DEF IInv, TypeOK
<1>12. Stack' = Append(Stack, b)
  <2>1. PICK u, t : /\ u = Under(c, m) /\ t = TableSeq(0) /\ u \in Seq(Nat) /\ t \in Seq(Nat)
                    /\ Stack = u \o t
    BY <1>2, StackTop
  <2>2. Stack' = u \o Append(t, b)
    BY <1>9, <1>10, <2>1, StackTopNext
  <2> QED
    BY <1>11, <2>1, <2>2, AppendTop
<1> QED
  BY <1>9, <1>12 DEF Chained

(* release_block, second branch: the full table goes under the new one.     *)
LEMMA SpillingPushes ==
  ASSUME IInv, IInv', NEW b \in held, ReleaseSpilling(b), Chained
  PROVE  Chained' /\ Stack' = Append(Stack, b)
<1>1. PICK c : \E m \in Nat : Chain(c, m)
  BY DEF Chained
<1>2. PICK m \in Nat : Chain(c, m)
  BY <1>1
<1>3. /\ b \in Blocks /\ b \in Nat /\ b # 0 /\ b \notin Spilled /\ 0 \notin Spilled
      /\ Spilled \subseteq Blocks /\ 0 \notin Blocks /\ 0 \in Slots
  BY Shape, Geometry DEF IInv, TypeOK
<1>4. Spilled' = Spilled \cup {b}
  BY SpillingKeeps
<1>5. /\ s_nfree' = 1 /\ s_free' = [ZeroSlots EXCEPT ![0] = b] /\ s_free'[0] = b
      /\ disk' = [disk EXCEPT ![b] = [s_nfree |-> s_nfree, s_free |-> s_free]]
      /\ disk \in [Blocks -> Table]
  BY <1>3 DEF IInv, TypeOK, ReleaseSpilling, ZeroSlots
<1>6. /\ TableOf(b)' = TableOf(0)
      /\ TableOf(0)' = [s_nfree |-> 1, s_free |-> s_free']
      /\ \A t \in Spilled : TableOf(t)' = TableOf(t)
  BY <1>3, <1>5 DEF TableOf
<1>a. TableOf(0)'.s_nfree = 1 /\ TableOf(0)'.s_free[0] = b
  <2>1. PICK g : g = s_free' /\ g[0] = b
    BY <1>5
  <2>2. TableOf(0)' = [s_nfree |-> 1, s_free |-> g]
    BY <1>6, <2>1
  <2> QED
    BY <2>1, <2>2
<1>7. Link(0)' = b /\ Link(b)' = Link(0) /\ \A t \in Spilled : Link(t)' = Link(t)
  BY <1>6, <1>a DEF Link
<1>8. TableSeq(0)' = <<b>>
  <2>1. TableOf(0)'.s_free[0] = b /\ TableOf(0)'.s_nfree = 1
    BY <1>a
  <2>2. TableSeq(0)' = [i \in 1 .. 1 - 0 |-> TableOf(0)'.s_free[0 + i - 1]]
    BY <1>3, <2>1 DEF TableSeq
  <2>3. \A i \in 1 .. 1 : 0 + i - 1 = 0
    OBVIOUS
  <2>4. TableSeq(0)' = [i \in 1 .. 1 |-> b]
    BY <2>1, <2>2, <2>3
  <2> QED
    BY <2>4
<1>9. /\ c[0] = 0 /\ \A i \in 1 .. m : c[i] \in Spilled /\ c[i] = Link(c[i - 1])
      /\ Link(c[m]) \notin Blocks /\ m <= Cardinality(Spilled)
  BY <1>2 DEF Chain
<1>10. PICK e : e[0] = 0 /\ e[1] = b /\ \A i \in 1 .. m : e[i + 1] = c[i]
  <2> DEFINE e == [i \in 0 .. m + 1 |-> IF i = 0 THEN 0 ELSE IF i = 1 THEN b ELSE c[i - 1]]
  <2>1. /\ 0 \in 0 .. m + 1 /\ 1 \in 0 .. m + 1
        /\ \A i \in 1 .. m : i + 1 \in 0 .. m + 1 /\ i + 1 # 0 /\ i + 1 # 1 /\ (i + 1) - 1 = i
    OBVIOUS
  <2>2. e[0] = 0 /\ e[1] = b /\ \A i \in 1 .. m : e[i + 1] = c[i]
    BY <2>1
  <2> QED
    BY <2>2
<1>11. Chain(e, m + 1)'
  <2>1. ASSUME NEW i \in 1 .. m + 1
        PROVE  e[i] \in Spilled' /\ e[i] = Link(e[i - 1])'
    <3>1. CASE i = 1
      BY <1>4, <1>7, <1>10, <3>1
    <3>2. CASE i = 2
      <4>1. 1 \in 1 .. m /\ 1 + 1 = 2 /\ 2 - 1 = 1 /\ 1 - 1 = 0
        BY <3>2
      <4>2. e[2] = c[1] /\ c[1] = Link(0) /\ c[1] \in Spilled
        BY <1>9, <1>10, <4>1
      <4> QED
        BY <1>4, <1>7, <1>10, <3>2, <4>1, <4>2
    <3>3. CASE i # 1 /\ i # 2
      <4>1. PICK j \in 1 .. m : j = i - 1 /\ j - 1 \in 1 .. m /\ j + 1 = i /\ (j - 1) + 1 = i - 1
        BY <3>3
      <4>2. e[i] = c[j] /\ e[i - 1] = c[j - 1]
        BY <1>10, <4>1
      <4>3. c[j] = Link(c[j - 1]) /\ c[j] \in Spilled /\ c[j - 1] \in Spilled
        BY <1>9, <4>1
      <4> QED
        BY <1>4, <1>7, <4>2, <4>3
    <3> QED
      BY <3>1, <3>2, <3>3
  <2>2. Link(e[m + 1])' \notin Blocks
    <3>1. CASE m = 0
      BY <1>7, <1>9, <1>10, <3>1
    <3>2. CASE m # 0
      <4>1. m \in 1 .. m
        BY <3>2
      <4> QED
        BY <1>7, <1>9, <1>10, <4>1
    <3> QED
      BY <3>1, <3>2
  <2>3. m + 1 <= Cardinality(Spilled')
    <3>1. IsFiniteSet(Spilled) /\ Cardinality(Spilled) \in Nat
      BY <1>3, CountBound
    <3>2. Cardinality(Spilled') = Cardinality(Spilled) + 1
      BY <1>3, <1>4, <3>1, FS_AddElement
    <3> QED
      BY <1>9, <3>1, <3>2
  <2> QED
    BY <1>10, <2>1, <2>2, <2>3 DEF Chain
<1>12. Under(e, m + 1)' = Stack
  <2>1. PICK n \in Nat : n = m + 1 /\ n # 0 /\ n - 1 = m
    OBVIOUS
  <2>2. PartsJoin(c, m) /\ PartsJoin(e, n)'
    BY <1>2, <1>11, <2>1, ChainParts, ChainPartsNext
  <2>3. ASSUME NEW k \in 0 .. m
        PROVE  TableSeq(e[n - k])' = TableSeq(c[m - k])
    <3>1. CASE k = m
      <4>1. n - k = 1 /\ m - k = 0
        BY <2>1, <3>1
      <4>2. TableSeq(b)' = TableSeq(0)
        BY <1>6, SameTable
      <4> QED
        BY <1>9, <1>10, <4>1, <4>2
    <3>2. CASE k # m
      <4>1. PICK j \in 1 .. m : j = m - k /\ j + 1 = n - k
        BY <2>1, <3>2
      <4>2. e[n - k] = c[j] /\ c[j] \in Spilled
        BY <1>9, <1>10, <4>1
      <4>3. TableSeq(c[j])' = TableSeq(c[j])
        BY <1>6, <4>2, SameTable
      <4> QED
        BY <4>1, <4>2, <4>3
    <3> QED
      BY <3>1, <3>2
  <2>4. m \in 0 .. m /\ m <= n
    BY <2>1
  <2>5. Part(e, n, m)' = Part(c, m, m)
    BY <2>2, <2>3, <2>4, SameEnd
  <2>6. Part(c, m, m) = Stack
    BY <2>2 DEF PartsJoin
  <2> QED
    BY <2>1, <2>5, <2>6 DEF Under
<1>13. Stack' = Append(Stack, b)
  <2>1. m + 1 \in Nat
    OBVIOUS
  <2>2. Stack' = Stack \o <<b>>
    BY <1>8, <1>11, <1>12, <2>1, StackTopNext
  <2>3. Stack \in Seq(Nat)
    BY <1>2, StackTop
  <2> QED
    BY <1>3, <2>2, <2>3, AppendIsConcat
<1> QED
  <2>1. m + 1 \in Nat
    OBVIOUS
  <2> QED
    BY <1>11, <1>13, <2>1 DEF Chained

LEMMA SpilledNotHeld == IInv => Spilled \cap held = {}
BY Shape

LEMMA TableSeqTypedNow == IInv => TableSeq(0) \in Seq(Nat)
BY TableSeqTyped DEF Tables

LEMMA TableSeqTypedNext == IInv' => TableSeq(0)' \in Seq(Nat)
<1>1. (IInv => TableSeq(0) \in Seq(Nat))'
  BY TableSeqTypedNow, PTL
<1> QED
  BY <1>1

LEMMA SpilledNotHeldNext == IInv' => Spilled' \cap held' = {}
<1>1. (IInv => Spilled \cap held = {})'
  BY SpilledNotHeld, PTL
<1> QED
  BY <1>1

(* allocate_block while entries remain.                                     *)
LEMMA FromTablePops ==
  ASSUME IInv, IInv', NEW zero \in BOOLEAN, AllocateFromTable(zero), Chained
  PROVE  Chained' /\ \E b \in Nat : Stack = Append(Stack', b) /\ held' = held \cup {b}
<1>1. PICK c : \E m \in Nat : Chain(c, m)
  BY DEF Chained
<1>2. PICK m \in Nat : Chain(c, m)
  BY <1>1
<1>3. PICK n \in Nat : n = s_nfree - 1 /\ n > 0 /\ n < FREE_INDEX_PER_BLOCK /\ s_nfree = n + 1
  BY GeometryAssumption DEF IInv, TypeOK, AllocateFromTable
<1>4. /\ s_free \in [Slots -> Nat] /\ n \in Slots /\ 0 \in Slots
      /\ s_free' = s_free /\ s_nfree' = n
  BY <1>3, GeometryAssumption DEF IInv, TypeOK, AllocateFromTable, Slots
<1>5. PICK b \in Nat : b = s_free[n]
  BY <1>4
<1>6. Spilled' = Spilled /\ held' = held \cup {b} /\ b \in Blocks
  BY <1>3, <1>5, FromTableKeeps, Shape
<1>7. b \notin Spilled /\ disk' = Cleared(b, zero)
  BY <1>3, <1>5, <1>6, SpilledNotHeldNext DEF AllocateFromTable
<1>8. \A t \in Spilled : TableOf(t)' = TableOf(t)
  BY <1>6, <1>7, ClearedWrite
<1>9. /\ TableOf(0) = [s_nfree |-> n + 1, s_free |-> s_free]
      /\ TableOf(0)' = [s_nfree |-> n, s_free |-> s_free]
  BY <1>3, <1>4 DEF TableOf
<1>10. Chain(c, m)' /\ Under(c, m)' = Under(c, m)
  <2>1. Link(0)' = Link(0)
    BY <1>9 DEF Link
  <2> QED
    BY <1>2, <1>6, <1>8, <2>1, SameChainUnder
<1>11. TableSeq(0) = Append(TableSeq(0)', b)
  <2>1. PICK l \in {0, 1} : l = IF s_free[0] = 0 THEN 1 ELSE 0
    OBVIOUS
  <2>2. TableSeq(0) = [i \in 1 .. (n + 1) - l |-> s_free[l + i - 1]]
    BY <1>9, <2>1 DEF TableSeq
  <2>3. TableSeq(0)' = [i \in 1 .. n - l |-> s_free[l + i - 1]]
    BY <1>9, <2>1 DEF TableSeq
  <2>4. PICK s, t, f : s = TableSeq(0)' /\ t = TableSeq(0) /\ f = s_free
    OBVIOUS
  <2>5. /\ f \in [Slots -> Nat] /\ s = [i \in 1 .. n - l |-> f[l + i - 1]]
        /\ t = [i \in 1 .. (n + 1) - l |-> f[l + i - 1]]
    BY <1>4, <2>2, <2>3, <2>4
  <2>6. t = Append(s, f[n])
    BY <1>3, <2>1, <2>5, LastEntry
  <2> QED
    BY <1>5, <2>4, <2>6
<1>12. Stack = Append(Stack', b)
  <2>1. PICK u : u = Under(c, m) /\ u \in Seq(Nat) /\ Stack = u \o TableSeq(0)
    BY <1>2, StackTop
  <2>2. PICK t : t = TableSeq(0)' /\ t \in Seq(Nat)
    BY TableSeqTypedNext
  <2>3. Stack' = u \o t /\ Stack = u \o Append(t, b)
    BY <1>10, <1>11, <2>1, <2>2, StackTopNext
  <2> QED
    BY <2>1, <2>2, <2>3, AppendTop
<1> QED
  BY <1>6, <1>10, <1>12 DEF Chained

(* allocate_block on the last entry: the table under it comes to the top.   *)
LEMMA ReloadingPops ==
  ASSUME IInv, IInv', NEW zero \in BOOLEAN, AllocateReloading(zero), ~NoFreeBlock, Chained
  PROVE  Chained' /\ \E b \in Nat : Stack = Append(Stack', b) /\ held' = held \cup {b}
<1>1. PICK c : \E m \in Nat : Chain(c, m)
  BY DEF Chained
<1>2. PICK m \in Nat : Chain(c, m)
  BY <1>1
<1>3. PICK b : b = s_free[0]
  OBVIOUS
<1>4. b \in Blocks /\ b \in Nat /\ b # 0 /\ Spilled' = Spilled \ {b} /\ held' = held \cup {b}
  BY <1>3, ReloadingKeeps, Shape, Geometry
<1>5. /\ s_nfree = 1 /\ disk \in [Blocks -> Table] /\ s_nfree' = disk[b].s_nfree
      /\ s_free' = disk[b].s_free /\ disk' = Cleared(b, zero)
      /\ Spilled \subseteq Blocks /\ 0 \notin Spilled /\ 0 \notin Blocks /\ 0 \in Tables
  BY <1>3, Shape, Geometry DEF IInv, TypeOK, AllocateReloading, Tables
<1>6. TableOf(0)' = TableOf(b) /\ \A t \in Spilled \ {b} : TableOf(t)' = TableOf(t)
  <2>1. disk[b] \in Table
    BY <1>4, <1>5
  <2>2. TableOf(0)' = TableOf(b)
    BY <1>4, <1>5, <2>1 DEF TableOf, Table
  <2>3. \A t \in Spilled \ {b} : disk'[t] = disk[t]
    BY <1>5 DEF Cleared
  <2> QED
    BY <1>5, <2>2, <2>3 DEF TableOf
<1>7. Link(0) = b /\ Link(0)' = Link(b) /\ \A t \in Spilled \ {b} : Link(t)' = Link(t)
  BY <1>3, <1>6 DEF Link, TableOf
<1>8. TableSeq(0) = <<b>>
  <2>1. TableOf(0).s_free[0] = b /\ TableOf(0).s_nfree = 1
    BY <1>3, <1>5 DEF TableOf
  <2>2. TableSeq(0) = [i \in 1 .. 1 - 0 |-> TableOf(0).s_free[0 + i - 1]]
    BY <1>4, <2>1 DEF TableSeq
  <2>3. \A i \in 1 .. 1 : 0 + i - 1 = 0
    OBVIOUS
  <2>4. TableSeq(0) = [i \in 1 .. 1 |-> b]
    BY <2>1, <2>2, <2>3
  <2> QED
    BY <2>4
<1>9. /\ c[0] = 0 /\ \A i \in 1 .. m : c[i] \in Spilled /\ c[i] = Link(c[i - 1])
      /\ Link(c[m]) \notin Blocks /\ m <= Cardinality(Spilled)
  BY <1>2 DEF Chain
<1>10. PICK n \in Nat : m = n + 1 /\ c[1] = b
  <2>1. m # 0
    BY <1>4, <1>7, <1>9
  <2>2. m - 1 \in Nat /\ m = (m - 1) + 1 /\ 1 \in 1 .. m /\ 1 - 1 = 0
    BY <2>1
  <2> QED
    BY <1>7, <1>9, <2>2
<1>11. ASSUME NEW i \in 2 .. m
       PROVE  c[i] \in Spilled \ {b}
  <2>1. i \in 1 .. m /\ i - 1 \in 1 .. m
    OBVIOUS
  <2>2. c[i] \in Spilled /\ c[i - 1] \in Spilled /\ c[i] = Link(c[i - 1])
    BY <1>9, <2>1
  <2>3. 0 \in Live(0) /\ 0 \in Live(c[i - 1])
    BY <1>5, <2>2, Shape DEF Tables
  <2> QED
    BY <1>5, <1>7, <2>2, <2>3 DEF IInv, ListedOnce, Link, Tables
<1>12. PICK e : e[0] = 0 /\ \A i \in 1 .. n : e[i] = c[i + 1]
  <2> DEFINE e == [i \in 0 .. n |-> IF i = 0 THEN 0 ELSE c[i + 1]]
  <2>1. e[0] = 0 /\ \A i \in 1 .. n : e[i] = c[i + 1]
    OBVIOUS
  <2> QED
    BY <2>1
<1>13. \A i \in 0 .. n : Link(e[i])' = Link(c[i + 1])
  <2>1. Link(e[0])' = Link(c[0 + 1])
    BY <1>7, <1>10, <1>12
  <2>2. ASSUME NEW i \in 1 .. n
        PROVE  Link(e[i])' = Link(c[i + 1])
    <3>1. i + 1 \in 2 .. m
      BY <1>10
    <3> QED
      BY <1>7, <1>11, <1>12, <3>1
  <2> QED
    BY <2>1, <2>2
<1>14. Chain(e, n)'
  <2>1. ASSUME NEW i \in 1 .. n
        PROVE  e[i] \in Spilled' /\ e[i] = Link(e[i - 1])'
    <3>1. i + 1 \in 2 .. m /\ i + 1 \in 1 .. m /\ (i + 1) - 1 = (i - 1) + 1 /\ i - 1 \in 0 .. n
      BY <1>10
    <3>2. c[i + 1] \in Spilled \ {b} /\ c[i + 1] = Link(c[(i - 1) + 1])
      BY <1>9, <1>11, <3>1
    <3> QED
      BY <1>4, <1>12, <1>13, <3>1, <3>2
  <2>2. Link(e[n])' \notin Blocks
    <3>1. n \in 0 .. n
      OBVIOUS
    <3> QED
      BY <1>9, <1>10, <1>13, <3>1
  <2>3. n <= Cardinality(Spilled')
    <3>1. IsFiniteSet(Spilled) /\ Cardinality(Spilled) \in Nat
      BY <1>5, CountBound
    <3>2. b \in Spilled
      BY <1>9, <1>10
    <3>3. Cardinality(Spilled') = Cardinality(Spilled) - 1
      BY <1>4, <3>1, <3>2, FS_RemoveElement
    <3> QED
      BY <1>9, <1>10, <3>1, <3>3
  <2> QED
    BY <1>12, <2>1, <2>2, <2>3 DEF Chain
<1>15. Under(c, m) = Stack'
  <2>1. PartsJoin(c, m) /\ PartsJoin(e, n)'
    BY <1>2, <1>14, ChainParts, ChainPartsNext
  <2>2. ASSUME NEW k \in 0 .. n
        PROVE  TableSeq(e[n - k])' = TableSeq(c[m - k])
    <3>1. CASE k = n
      <4>1. n - k = 0 /\ m - k = 1
        BY <1>10, <3>1
      <4>2. TableSeq(0)' = TableSeq(b)
        BY <1>6, SameTable
      <4> QED
        BY <1>10, <1>12, <4>1, <4>2
    <3>2. CASE k # n
      <4>1. PICK j \in 1 .. n : j = n - k /\ j + 1 = m - k /\ j + 1 \in 2 .. m
        BY <1>10, <3>2
      <4>2. e[n - k] = c[j + 1] /\ c[j + 1] \in Spilled \ {b}
        BY <1>11, <1>12, <4>1
      <4>3. TableSeq(c[j + 1])' = TableSeq(c[j + 1])
        BY <1>6, <4>2, SameTable
      <4> QED
        BY <4>1, <4>2, <4>3
    <3> QED
      BY <3>1, <3>2
  <2>3. n \in 0 .. m /\ n <= n /\ m # 0 /\ m - 1 = n
    BY <1>10
  <2>4. Part(e, n, n)' = Part(c, m, n)
    BY <2>1, <2>2, <2>3, SameEnd
  <2>5. Stack' = Part(e, n, n)'
    BY <2>1 DEF PartsJoin
  <2> QED
    BY <2>3, <2>4, <2>5 DEF Under
<1>16. Stack = Append(Stack', b)
  <2>1. PICK u : u = Under(c, m) /\ u \in Seq(Nat) /\ Stack = u \o TableSeq(0)
    BY <1>2, StackTop
  <2> QED
    BY <1>4, <1>8, <1>15, <2>1, AppendIsConcat
<1> QED
  BY <1>4, <1>14, <1>16 DEF Chained

LEMMA FrontOf ==
  ASSUME NEW s \in Seq(Nat), NEW n \in Nat, n <= Len(s)
  PROVE  /\ SubSeq(s, 1, n) \in Seq(Nat) /\ Len(SubSeq(s, 1, n)) = n
         /\ \A i \in 1 .. n : SubSeq(s, 1, n)[i] = s[i]
<1>1. \A i \in 1 .. n : s[i] \in Nat
  <2>1. \A i \in 1 .. n : i \in 1 .. Len(s)
    OBVIOUS
  <2> QED
    BY <2>1, ElementOfSeq
<1>2. /\ SubSeq(s, 1, n) \in Seq(Nat)
      /\ Len(SubSeq(s, 1, n)) = IF 1 <= n THEN n - 1 + 1 ELSE 0
      /\ \A i \in 1 .. n - 1 + 1 : SubSeq(s, 1, n)[i] = s[1 + i - 1]
  BY <1>1, SubSeqProperties
<1>3. n - 1 + 1 = n /\ \A i \in 1 .. n : 1 + i - 1 = i
  OBVIOUS
<1> QED
  BY <1>2, <1>3

LEMMA PopOfAppend ==
  ASSUME NEW s, NEW t \in Seq(Nat), NEW b \in Nat, s = Append(t, b)
  PROVE  s # <<>> /\ s[Len(s)] = b /\ SubSeq(s, 1, Len(s) - 1) = t
<1>1. PICK n \in Nat : n = Len(t)
  OBVIOUS
<1>2. /\ s \in Seq(Nat) /\ s # <<>> /\ Len(s) = n + 1 /\ s[n + 1] = b
      /\ \A i \in 1 .. n : s[i] = t[i]
  BY <1>1, AppendProperties
<1>3. PICK u : u = SubSeq(s, 1, n)
  OBVIOUS
<1>4. u \in Seq(Nat) /\ Len(u) = n /\ \A i \in 1 .. n : u[i] = t[i]
  BY <1>2, <1>3, FrontOf
<1>5. u = t
  BY <1>1, <1>4, SeqEqual
<1>6. Len(s) - 1 = n
  BY <1>2
<1> QED
  BY <1>2, <1>3, <1>5, <1>6

LEMMA StackInit == Init => Chained /\ Stack = <<>>
<1> SUFFICES ASSUME Init
             PROVE  Chained /\ Stack = <<>>
  OBVIOUS
<1>1. IInv
  BY InitIInv
<1>2. /\ TableOf(0) = [s_nfree |-> 1, s_free |-> ZeroSlots] /\ ZeroSlots[0] = 0 /\ 0 \notin Blocks
  BY Geometry DEF Init, TableOf, ZeroSlots
<1>3. PICK c : c[0] = 0
  <2>1. [i \in {0} |-> 0][0] = 0
    OBVIOUS
  <2> QED
    BY <2>1
<1>4. Chain(c, 0)
  <2>1. IsFiniteSet(Spilled) /\ Cardinality(Spilled) \in Nat
    BY <1>1, Shape, CountBound
  <2>2. 1 .. 0 = {} /\ 0 <= Cardinality(Spilled)
    BY <2>1
  <2> QED
    BY <1>2, <1>3, <2>2 DEF Chain, Link
<1>5. TableSeq(0) = <<>>
  <2>1. TableSeq(0) = [i \in 1 .. 1 - 1 |-> ZeroSlots[1 + i - 1]]
    BY <1>2 DEF TableSeq
  <2> QED
    BY <2>1
<1>6. Stack = <<>>
  <2>1. Stack = Part(c, 0, 0) /\ Part(c, 0, 0) = TableSeq(c[0])
    BY <1>1, <1>4, ChainParts DEF PartsJoin
  <2> QED
    BY <1>3, <1>5, <2>1
<1> QED
  BY <1>4, <1>6 DEF Chained

LEMMA StackNext ==
  ASSUME IInv, Chained, [Next]_vars
  PROVE  Chained' /\ [Lifo!Next]_(Lifo!stackVars)
<1>1. IInv'
  BY NextKeeps
<1>2. PICK c : \E m \in Nat : Chain(c, m)
  BY DEF Chained
<1>3. PICK m \in Nat : Chain(c, m)
  BY <1>2
<1>4. ASSUME NEW b \in held, ReleaseBlock(b)
      PROVE  Chained' /\ Lifo!Push(b)
  <2>1. Chained' /\ Stack' = Append(Stack, b)
    BY <1>1, <1>4, IntoTablePushes, SpillingPushes DEF ReleaseBlock
  <2>2. held' = held \ {b}
    BY <1>4 DEF ReleaseBlock
  <2> QED
    BY <2>1, <2>2 DEF Lifo!Push, Stack
<1>5. CASE FormatStep
  <2>1. next \in held /\ ReleaseBlock(next)
    BY <1>5, GeometryAssumption DEF IInv, TypeOK, FormatStep, Formatted
  <2>2. Chained' /\ Lifo!Push(next) /\ next \in Blocks
    BY <1>4, <2>1 DEF IInv, TypeOK
  <2> QED
    BY <2>2 DEF Lifo!Next
<1>6. ASSUME NEW b \in Blocks, Release(b)
      PROVE  Chained' /\ [Lifo!Next]_(Lifo!stackVars)
  BY <1>4, <1>6 DEF Release, Lifo!Next
<1>7. ASSUME NEW zero \in BOOLEAN, Allocate(zero)
      PROVE  Chained' /\ [Lifo!Next]_(Lifo!stackVars)
  <2>1. Chained' /\ \E b \in Nat : Stack = Append(Stack', b) /\ held' = held \cup {b}
    BY <1>1, <1>7, FromTablePops, ReloadingPops DEF Allocate
  <2>2. PICK b \in Nat : Stack = Append(Stack', b) /\ held' = held \cup {b}
    BY <2>1
  <2>3. Stack' \in Seq(Nat)
    BY <1>1, <2>1, StackTypedNext
  <2>4. PICK s, t : s = Stack /\ t = Stack'
    OBVIOUS
  <2>5. s # <<>> /\ s[Len(s)] = b /\ SubSeq(s, 1, Len(s) - 1) = t
    BY <2>2, <2>3, <2>4, PopOfAppend
  <2>6. Lifo!Pop
    BY <2>2, <2>4, <2>5 DEF Lifo!Pop, Stack
  <2> QED
    BY <2>1, <2>6 DEF Lifo!Next
<1>8. ASSUME Spilled' = Spilled, \A t \in Spilled : TableOf(t)' = TableOf(t),
             TableOf(0)' = TableOf(0), held' = held
      PROVE  Chained' /\ [Lifo!Next]_(Lifo!stackVars)
  <2>1. TableSeq(0)' = TableSeq(0) /\ Link(0)' = Link(0)
    BY <1>8, SameTable
  <2>2. Chain(c, m)' /\ Under(c, m)' = Under(c, m)
    BY <1>1, <1>3, <1>8, <2>1, SameChainUnder
  <2>3. Stack' = Stack
    <3>1. Stack = Under(c, m) \o TableSeq(0)
      BY <1>3, StackTop
    <3>2. Stack' = Under(c, m)' \o TableSeq(0)'
      BY <1>1, <2>2, StackTopNext
    <3> QED
      BY <2>1, <2>2, <3>1, <3>2
  <2> QED
    BY <1>8, <2>2, <2>3 DEF Chained, Stack, Lifo!stackVars
<1>9. ASSUME NEW b \in Blocks, NEW data \in ClientData, ClientWrite(b, data)
      PROVE  Chained' /\ [Lifo!Next]_(Lifo!stackVars)
  <2>1. /\ b \in Blocks \ Spilled /\ data \in Table /\ disk' = [disk EXCEPT ![b] = data]
        /\ s_nfree' = s_nfree /\ s_free' = s_free /\ held' = held
    BY <1>9, Shape, ClientDataAssumption DEF ClientWrite
  <2>2. \A t \in Spilled : TableOf(t)' = TableOf(t)
    BY <2>1, OffChainWrite
  <2>3. TableOf(0)' = TableOf(0)
    BY <2>1 DEF TableOf
  <2>4. Spilled' = Spilled
    BY <2>2, <2>3, SameChain DEF Tables
  <2> QED
    BY <1>8, <2>1, <2>2, <2>3, <2>4
<1>10. CASE UNCHANGED vars
  <2>1. \A t \in Tables : TableOf(t)' = TableOf(t)
    BY <1>10 DEF vars, TableOf
  <2>2. Spilled' = Spilled
    BY <2>1, SameChain
  <2> QED
    BY <1>8, <1>10, <2>1, <2>2 DEF vars, Tables
<1> QED
  BY <1>5, <1>6, <1>7, <1>9, <1>10 DEF Next

(* The block released last is allocated next: spilling a full table into a  *)
(* free block and reading it back are not visible in the order.             *)
THEOREM ImplementsStack == Spec => LifoSpec
<1>1. Init => IInv /\ Chained /\ Lifo!Init
  <2>1. Init => held = Blocks
    BY DEF Init
  <2> QED
    BY <2>1, InitIInv, StackInit DEF Lifo!Init, Stack
<1>2. IInv /\ Chained /\ [Next]_vars => IInv' /\ Chained' /\ [Lifo!Next]_(Lifo!stackVars)
  BY NextKeeps, StackNext
<1> QED
  BY <1>1, <1>2, PTL DEF Spec, LifoSpec, Lifo!Spec
=============================================================================
