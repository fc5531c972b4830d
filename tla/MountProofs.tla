----------------------------- MODULE MountProofs -----------------------------
(***************************************************************************)
(* Proofs about Mount for every size of disk and of table, any number of   *)
(* inodes and any data of the callers: a torn superblock is never trusted, *)
(* and without a crash a mount continues with the list that the unmount    *)
(* left.                                                                   *)
(***************************************************************************)
EXTENDS Mount, FreeBlocksProofs

(* What the store may hold of the superblock: a hash is only ever one that *)
(* a flush computed.                                                       *)
IsTable(f)  == f = [s_nfree |-> f.s_nfree, s_free |-> f.s_free]
IsSecond(s) ==
  /\ s.counts = [bfree |-> s.counts.bfree, ffree |-> s.counts.ffree]
  /\ s.hash = NoHash \/ s.hash \in whole

Flushed ==
  /\ \A f \in left.first : IsTable(f)
  /\ IsTable(first)
  /\ \A s \in left.second : IsSecond(s)
  /\ IsSecond(second)

(* What is in memory after an unmount is what has been written.            *)
Kept ==
  phase = "unmounted" /\ ~crashed =>
    /\ first = InMemory
    /\ second.hash # NoHash => second.counts = Counts

StoreInv == Flushed /\ Kept

(* A flush leaves a superblock and its hash in the store. *)
LEMMA FlushIsWhole ==
  ASSUME FlushSuperblock, Pair' \in whole'
  PROVE  IsTable(first)' /\ IsSecond(second)'
BY DEF FlushSuperblock, IsTable, IsSecond, InMemory, Counts, Pair, Hash

LEMMA BlankIsNoFlush == IsSecond(Blank) /\ IsTable(ZeroTable)
BY DEF IsSecond, IsTable, Blank, ZeroTable

(* The history of flushes grows, or its end is the only superblock left.   *)
LEMMA FlushedGrows ==
  ASSUME Flushed, Written, whole \subseteq whole',
         IsTable(first)', IsSecond(second)'
  PROVE  Flushed'
BY DEF Flushed, Written, IsTable, IsSecond

LEMMA FlushedSettles ==
  ASSUME Settled, IsTable(first)', IsSecond(second)'
  PROVE  Flushed'
BY DEF Flushed, Settled, IsTable, IsSecond

LEMMA FlushedStays ==
  ASSUME Flushed, UNCHANGED storeVars
  PROVE  Flushed'
BY DEF Flushed, storeVars, IsTable, IsSecond

LEMMA StoreInit == MountInit => StoreInv
BY DEF MountInit, StoreInv, Flushed, Kept, IsTable, IsSecond, Blank, ZeroTable

LEMMA StoreNext ==
  ASSUME StoreInv, [MountNext]_mountVars
  PROVE  StoreInv'
<1> USE DEF StoreInv
<1>1. CASE Format
  BY <1>1, FlushedSettles, BlankIsNoFlush DEF Format, Kept, IsSecond, IsTable, Blank
<1>2. CASE FormatBlock
  BY <1>2, FlushedStays DEF FormatBlock, Kept
<1>3. CASE EndFormat
  <2>1. Flushed'
    BY <1>3, FlushIsWhole, FlushedSettles DEF EndFormat
  <2> QED
    BY <1>3, <2>1 DEF EndFormat, Kept, FlushSuperblock
<1>4. CASE MountTrusting
  BY <1>4, FlushedStays DEF MountTrusting, Load, Kept
<1>5. CASE MountCounting
  BY <1>5, FlushedStays DEF MountCounting, Load, Kept
<1>6. CASE RecountStep
  BY <1>6, FlushedStays DEF RecountStep, Kept
<1>7. CASE RecountEnd
  BY <1>7, FlushIsWhole, FlushedGrows DEF RecountEnd, Kept
<1>8. CASE BlockCall
  BY <1>8, FlushedGrows DEF BlockCall, Kept, Flushed, IsTable, IsSecond
<1>9. CASE \E i \in Inodes : InodeCall(i)
  BY <1>9, FlushedGrows DEF InodeCall, Kept, Flushed, IsTable, IsSecond
<1>10. CASE Flush
  BY <1>10, FlushIsWhole, FlushedGrows DEF Flush, Kept
<1>11. CASE Unmount
  <2>1. Flushed'
    BY <1>11, FlushIsWhole, FlushedSettles DEF Unmount
  <2> QED
    BY <1>11, <2>1 DEF Unmount, Kept, FlushSuperblock
<1>12. CASE Foreign
  <2>1. IsTable(first)' /\ IsSecond(second)'
    BY <1>12 DEF Foreign, Flushed, IsTable, IsSecond, Blank
  <2>2. Flushed'
    BY <1>12, <2>1, FlushedSettles DEF Foreign
  <2> QED
    BY <1>12, <2>2 DEF Foreign, Kept, InMemory, Blank, vars
<1>13. CASE Crash
  <2>1. IsTable(first)' /\ IsSecond(second)'
    BY <1>13 DEF Crash, Flushed, IsTable, IsSecond
  <2> QED
    BY <1>13, <2>1, FlushedSettles DEF Crash, Kept
<1>14. CASE UNCHANGED mountVars
  BY <1>14, FlushedStays DEF mountVars, storeVars, Kept, InMemory, Counts
<1> QED
  BY <1>1, <1>2, <1>3, <1>4, <1>5, <1>6, <1>7, <1>8, <1>9, <1>10, <1>11,
     <1>12, <1>13, <1>14 DEF MountNext

(* The store holds only superblocks that a flush wrote, and after a clean  *)
(* unmount the one that is in memory.                                      *)
THEOREM StoreInvariance == MountSpec => []StoreInv
<1> QED
  BY StoreInit, StoreNext, PTL DEF MountSpec

(* A mount that trusts the hash has found the two blocks of one flush. *)
THEOREM TornNeverTrusted == MountSpec => TornIsRecounted
<1>1. ASSUME StoreInv, [MountNext]_mountVars, phase = "unmounted", phase' = "mounted"
      PROVE  <<InMemory', Counts'>> \in whole
  <2>1. MountTrusting
    BY <1>1 DEF MountNext, mountVars, Format, FormatBlock, EndFormat, MountCounting,
                RecountStep, RecountEnd, BlockCall, InodeCall, Flush, Unmount,
                Foreign, Crash
  <2>2. second.hash = <<first, second.counts>> /\ second.hash # NoHash
    BY <2>1 DEF MountTrusting, HashFits, Hash, NoHash
  <2>3. <<first, second.counts>> \in whole
    BY <1>1, <2>2 DEF StoreInv, Flushed, IsSecond
  <2>4. InMemory' = first
    BY <1>1, <2>1 DEF MountTrusting, Load, InMemory, StoreInv, Flushed, IsTable
  <2>5. Counts' = second.counts
    BY <1>1, <2>1 DEF MountTrusting, Counts, StoreInv, Flushed, IsSecond
  <2> QED
    BY <2>3, <2>4, <2>5
<1> QED
  BY <1>1, StoreInvariance, PTL DEF MountSpec, TornIsRecounted

(* What a mount finds is what the unmount before it left, entry by entry,  *)
(* whether it trusts the counts or not.                                    *)
THEOREM MountContinues == MountSpec => RemountKeepsList
<1>1. ASSUME StoreInv, [MountNext]_mountVars,
             phase = "unmounted", phase' \in {"mounted", "recount"}, ~crashed
      PROVE  UNCHANGED <<s_nfree, s_free, disk, held, ialloc>>
  <2>1. Load
    BY <1>1 DEF MountNext, mountVars, Format, FormatBlock, EndFormat, MountCounting,
                MountTrusting, RecountStep, RecountEnd, BlockCall, InodeCall, Flush,
                Unmount, Foreign, Crash
  <2> QED
    BY <1>1, <2>1 DEF Load, StoreInv, Kept, InMemory
<1> QED
  BY <1>1, StoreInvariance, PTL DEF MountSpec, RemountKeepsList
-----------------------------------------------------------------------------
(* The walk of recount.  ListPart is the invariant of the list but for the *)
(* count, which is under construction; Ahead(i) are the blocks whose       *)
(* tables are still to come when the walk has reached block i.             *)

ListPart ==
  /\ s_nfree \in 1 .. FREE_INDEX_PER_BLOCK
  /\ s_free \in [Slots -> Nat]
  /\ disk \in [Blocks -> Table]
  /\ held \in SUBSET Blocks
  /\ Formatted
  /\ ListedOnce
  /\ SpilledFull
  /\ Partition

LEMMA PartOfIInv ==
  ASSUME IInv, Formatted
  PROVE  ListPart
BY DEF IInv, TypeOK, ListPart

LEMMA CountCompletes == ListPart /\ CountExact => IInv
<1> SUFFICES ASSUME ListPart, CountExact
             PROVE  IInv
  OBVIOUS
<1>1. Listed \subseteq Blocks
  BY DEF ListPart, Partition
<1>2. bfree \in 0 .. DISK_BLOCKS
  BY <1>1, CountBound DEF CountExact
<1>3. next \in DATA_START .. DISK_BLOCKS /\ next .. DISK_BLOCKS - 1 = {}
  BY GeometryAssumption DEF ListPart, Formatted
<1> QED
  BY <1>2, <1>3 DEF ListPart, IInv, TypeOK

ClosedFrom(i, L) ==
  /\ i \in Blocks => i \in L
  /\ \A t \in L : disk[t].s_free[0] \in Blocks => disk[t].s_free[0] \in L

Ahead(i) == {b \in Blocks : \A L \in SUBSET Blocks : ClosedFrom(i, L) => b \in L}

Behind(i) == Tables \ Ahead(i)

LEMMA AheadClosed ==
  ASSUME NEW i
  PROVE  Ahead(i) \subseteq Blocks /\ ClosedFrom(i, Ahead(i))
BY DEF Ahead, ClosedFrom

LEMMA AheadLeast ==
  ASSUME NEW i, NEW L \in SUBSET Blocks, ClosedFrom(i, L)
  PROVE  Ahead(i) \subseteq L
BY DEF Ahead

LEMMA AheadAtEnd == Ahead(0) = {}
<1>1. ClosedFrom(0, {})
  BY Geometry DEF ClosedFrom
<1> QED
  BY <1>1, AheadLeast

LEMMA AheadAtStart == Ahead(s_free[0]) = Spilled
<1>1. \A L \in SUBSET Blocks : ClosedFrom(s_free[0], L) <=> Closed(L)
  BY Geometry DEF ClosedFrom, Closed, TableOf
<1> QED
  BY <1>1 DEF Ahead, Spilled

LEMMA AheadStep ==
  ASSUME NEW b \in Blocks
  PROVE  Ahead(b) = Ahead(disk[b].s_free[0]) \cup {b}
<1> DEFINE rest == Ahead(disk[b].s_free[0])
<1>1. b \in Ahead(b) /\ Ahead(b) \in SUBSET Blocks
  BY AheadClosed DEF ClosedFrom
<1>2. ClosedFrom(disk[b].s_free[0], Ahead(b))
  BY <1>1, AheadClosed DEF ClosedFrom
<1>3. rest \subseteq Ahead(b)
  BY <1>1, <1>2, AheadLeast
<1>4. ClosedFrom(b, rest \cup {b})
  BY AheadClosed DEF ClosedFrom
<1>5. Ahead(b) \subseteq rest \cup {b}
  BY <1>4, AheadClosed, AheadLeast
<1> QED
  BY <1>1, <1>3, <1>5

(* A block ahead of the walk is next, or is named by one that is ahead. *)
LEMMA AheadIsLink ==
  ASSUME NEW i, NEW b \in Ahead(i), b # i
  PROVE  \E u \in Ahead(i) : disk[u].s_free[0] = b
<1> DEFINE L == {x \in Ahead(i) : x = i \/ \E u \in Ahead(i) : disk[u].s_free[0] = x}
<1>1. L \in SUBSET Blocks
  BY AheadClosed
<1>2. ClosedFrom(i, L)
  BY AheadClosed DEF ClosedFrom
<1> QED
  BY <1>1, <1>2, AheadLeast

(* The sizes of the tables. *)
LEMMA TableShape ==
  ASSUME ListPart, NEW t \in Tables
  PROVE  /\ TableOf(t).s_nfree \in Nat \ {0}
         /\ 0 \in Live(t)
         /\ t \in Spilled => TableOf(t) = disk[t]
<1>1. TableOf(t).s_nfree \in Nat \ {0}
  BY GeometryAssumption DEF ListPart, SpilledFull, Tables, TableOf
<1>2. t \in Spilled => t # 0
  BY Geometry DEF Spilled
<1> QED
  BY <1>1, <1>2 DEF Live, TableOf

LEMMA EntriesCount ==
  ASSUME ListPart, NEW t \in Tables
  PROVE  /\ IsFiniteSet(Entries(t))
         /\ Cardinality(Entries(t)) = TableOf(t).s_nfree
<1> DEFINE f == [i \in Live(t) |-> TableOf(t).s_free[i]]
<1>1. /\ TableOf(t).s_nfree \in Nat \ {0}
      /\ Live(t) = 0 .. TableOf(t).s_nfree - 1
  BY TableShape DEF Live
<1>2. IsFiniteSet(Live(t)) /\ Cardinality(Live(t)) = TableOf(t).s_nfree
  BY <1>1, FS_Interval
<1>3. \A i, j \in Live(t) : f[i] = f[j] => i = j
  BY DEF ListPart, ListedOnce
<1>4. f \in Bijection(Live(t), Entries(t))
  <2>1. f \in [Live(t) -> Entries(t)] /\ \A e \in Entries(t) : \E i \in Live(t) : f[i] = e
    BY DEF Entries
  <2> QED
    BY <1>3, <2>1 DEF Bijection, Injection, Surjection, IsInjective
<1>5. ExistsBijection(Live(t), Entries(t))
  BY <1>4 DEF ExistsBijection
<1> QED
  BY <1>2, <1>5, FS_Bijection

(* When recount has reached block i and counted n, these are the entries   *)
(* of the tables behind it, and one of these tables names i.               *)
Walk(i, n) ==
  /\ i \in Spilled \cup {0}
  /\ Ahead(i) \subseteq Spilled
  /\ \E t \in Behind(i) : TableOf(t).s_free[0] = i
  /\ IsFiniteSet(UNION {Entries(t) : t \in Behind(i)})
  /\ n = Cardinality(UNION {Entries(t) : t \in Behind(i)})

LEMMA WalkStarts ==
  ASSUME ListPart
  PROVE  Walk(s_free[0], s_nfree)
<1>1. Ahead(s_free[0]) = Spilled /\ 0 \notin Spilled
  BY AheadAtStart, Geometry DEF Spilled
<1>2. Behind(s_free[0]) = {0} /\ 0 \in Tables
  BY <1>1 DEF Behind, Tables
<1>3. TableOf(0) = [s_nfree |-> s_nfree, s_free |-> s_free]
  BY DEF TableOf
<1>4. s_free[0] \in Blocks \cup {0}
  BY <1>2, <1>3, TableShape DEF ListPart, ListedOnce
<1>5. s_free[0] \in Spilled \cup {0}
  BY <1>1, <1>4, AheadClosed DEF ClosedFrom
<1>6. UNION {Entries(t) : t \in {0}} = Entries(0)
  OBVIOUS
<1>7. IsFiniteSet(Entries(0)) /\ Cardinality(Entries(0)) = s_nfree
  BY <1>2, <1>3, EntriesCount
<1>8. \E t \in Behind(s_free[0]) : TableOf(t).s_free[0] = s_free[0]
  BY <1>2, <1>3
<1>9. UNION {Entries(t) : t \in Behind(s_free[0])} = Entries(0)
  BY <1>2, <1>6
<1> QED
  BY <1>1, <1>5, <1>7, <1>8, <1>9 DEF Walk

(* The chain does not come back to a block that the walk has passed.       *)
LEMMA NoCycle ==
  ASSUME ListPart, NEW b \in Spilled, NEW n, Walk(b, n)
  PROVE  b \notin Ahead(disk[b].s_free[0])
<1> SUFFICES ASSUME b \in Ahead(disk[b].s_free[0])
             PROVE  FALSE
  OBVIOUS
<1>0. b \in Blocks
  BY DEF Spilled
<1>1. PICK u \in Ahead(b) : disk[u].s_free[0] = b
  <2>1. CASE b = disk[b].s_free[0]
    BY <1>0, <2>1, AheadStep
  <2>2. CASE b # disk[b].s_free[0]
    BY <1>0, <2>2, AheadIsLink, AheadStep
  <2> QED
    BY <2>1, <2>2
<1>2. PICK t \in Behind(b) : TableOf(t).s_free[0] = b
  BY DEF Walk
<1>3. /\ u \in Spilled /\ u \in Tables /\ t \in Tables /\ t # u
      /\ TableOf(u) = disk[u] /\ 0 \in Live(t) /\ 0 \in Live(u)
  BY <1>1, <1>2, TableShape DEF Walk, Behind, Tables
<1> QED
  BY <1>1, <1>2, <1>3 DEF ListPart, ListedOnce

LEMMA WalkGoesOn ==
  ASSUME ListPart, NEW b \in Blocks, NEW n, Walk(b, n)
  PROVE  Walk(disk[b].s_free[0], n + disk[b].s_nfree)
<1> DEFINE i == disk[b].s_free[0]
           U == UNION {Entries(t) : t \in Behind(b)}
<1>1. b \in Spilled /\ b \in Tables /\ TableOf(b) = disk[b] /\ 0 \in Live(b)
  BY TableShape, Geometry DEF Walk, Tables
<1>2. Ahead(b) = Ahead(i) \cup {b} /\ b \notin Ahead(i)
  BY <1>1, AheadStep, NoCycle
<1>3. Behind(i) = Behind(b) \cup {b} /\ b \notin Behind(b)
  BY <1>1, <1>2 DEF Behind
<1>4. i \in Spilled \cup {0} /\ Ahead(i) \subseteq Spilled
  <2>1. Ahead(i) \subseteq Spilled
    BY <1>2 DEF Walk
  <2>2. i \in Blocks \cup {0}
    BY <1>1 DEF ListPart, ListedOnce
  <2>3. i \in Blocks => i \in Ahead(i)
    BY AheadClosed DEF ClosedFrom
  <2> QED
    BY <2>1, <2>2, <2>3
<1>5. UNION {Entries(t) : t \in Behind(i)} = U \cup Entries(b)
  BY <1>3
<1>6. U \cap Entries(b) = {}
  BY <1>1, <1>3 DEF Behind, Entries, ListPart, ListedOnce
<1>7. /\ IsFiniteSet(U) /\ n = Cardinality(U)
      /\ IsFiniteSet(Entries(b)) /\ Cardinality(Entries(b)) = disk[b].s_nfree
  BY <1>1, EntriesCount DEF Walk
<1>8. /\ IsFiniteSet(U \cup Entries(b))
      /\ Cardinality(U \cup Entries(b)) = n + disk[b].s_nfree - Cardinality({})
  BY <1>6, <1>7, FS_Union
<1>9. /\ IsFiniteSet(U \cup Entries(b))
      /\ Cardinality(U \cup Entries(b)) = n + disk[b].s_nfree
  <2>1. n \in Nat /\ disk[b].s_nfree \in Nat /\ Cardinality({}) = 0
    BY <1>7, FS_CardinalityType, FS_EmptySet
  <2> QED
    BY <1>8, <2>1
<1> QED
  BY <1>1, <1>3, <1>4, <1>5, <1>9 DEF Walk

(* At the end mark every entry has been counted, and the mark itself.      *)
LEMMA WalkEnds ==
  ASSUME ListPart, NEW n, Walk(0, n)
  PROVE  n - 1 = Cardinality(Listed)
<1> DEFINE U == UNION {Entries(t) : t \in Tables}
<1>1. Behind(0) = Tables
  BY AheadAtEnd DEF Behind
<1>2. IsFiniteSet(U) /\ n = Cardinality(U) /\ n \in Nat
  BY <1>1, FS_CardinalityType DEF Walk
<1>3. 0 \in U
  <2>1. PICK t \in Tables : TableOf(t).s_free[0] = 0
    BY <1>1 DEF Walk
  <2> QED
    BY <2>1, TableShape DEF Entries
<1>4. Listed = U \ {0}
  BY DEF Listed
<1> QED
  BY <1>2, <1>3, <1>4, FS_RemoveElement
-----------------------------------------------------------------------------
(* The invariant of the counts while no crash has come.                    *)

InodesCounted ==
  /\ ialloc \subseteq Inodes
  /\ phase # "recount" => ffree = Cardinality(Inodes \ ialloc)

CountInv ==
  ~crashed =>
    /\ phase # "recount" => IInv
    /\ phase = "recount" => ListPart /\ Walk(index, bfree)
    /\ phase # "format" => Formatted
    /\ InodesCounted

LEMMA InodesFinite ==
  ASSUME NEW S
  PROVE  IsFiniteSet(Inodes \ S) /\ Cardinality(Inodes \ {}) = INODE_COUNT - 1
<1>1. IsFiniteSet(Inodes) /\ Cardinality(Inodes) = INODE_COUNT - 1
  BY MountAssumption, FS_Interval DEF Inodes
<1>2. Inodes \ S \in SUBSET Inodes /\ Inodes \ {} = Inodes
  OBVIOUS
<1> QED
  BY <1>1, <1>2, FS_Subset

(* The list is the same when its variables are, whatever happens to the    *)
(* count.                                                                  *)
LEMMA ListStays ==
  ASSUME UNCHANGED <<s_nfree, s_free, disk, held, next>>
  PROVE  /\ ListPart => ListPart'
         /\ Listed' = Listed
         /\ \A t : TableOf(t)' = TableOf(t) /\ Entries(t)' = Entries(t)
         /\ Spilled' = Spilled /\ Tables' = Tables
<1>1. \A t : TableOf(t)' = TableOf(t)
  BY DEF TableOf
<1>2. \A t : Live(t)' = Live(t) /\ Entries(t)' = Entries(t)
  BY <1>1 DEF Live, Entries
<1>3. \A L : Closed(L)' = Closed(L)
  BY <1>1 DEF Closed
<1>4. Spilled' = Spilled /\ Tables' = Tables
  BY <1>3 DEF Spilled, Tables
<1>5. Listed' = Listed
  BY <1>2, <1>4 DEF Listed
<1>6. ListedOnce => ListedOnce'
  BY <1>1, <1>2, <1>4 DEF ListedOnce
<1>7. SpilledFull => SpilledFull'
  BY <1>1, <1>4 DEF SpilledFull
<1>8. ListPart => ListPart'
  BY <1>5, <1>6, <1>7 DEF ListPart, Partition, Formatted
<1> QED
  BY <1>1, <1>2, <1>4, <1>5, <1>8

LEMMA WalkMoves ==
  ASSUME UNCHANGED <<s_nfree, s_free, disk, held, next>>,
         NEW i, NEW n, index' = i, bfree' = n, Walk(i, n)
  PROVE  Walk(index, bfree)'
<1>1. Ahead(index)' = Ahead(i)
  BY DEF Ahead, ClosedFrom
<1>2. Behind(index)' = Behind(i)
  BY <1>1, ListStays DEF Behind
<1>3. (UNION {Entries(t) : t \in Behind(index)})' = UNION {Entries(t) : t \in Behind(i)}
  BY <1>2, ListStays
<1> QED
  BY <1>1, <1>2, <1>3, ListStays DEF Walk

LEMMA IInvStays ==
  ASSUME IInv, UNCHANGED vars
  PROVE  IInv' /\ Formatted' = Formatted
BY UnchangedKeeps DEF vars, Formatted

LEMMA CountInit == MountInit => CountInv
BY InitIInv, InodesFinite DEF MountInit, CountInv, InodesCounted

LEMMA FormattedAnew ==
  ASSUME Format
  PROVE  IInv'
<1>1. Init' => IInv'
  BY InitIInv, PTL
<1> QED
  BY <1>1 DEF Format, Init

LEMMA CountedAnew == (ListPart /\ CountExact)' => IInv'
BY CountCompletes, PTL

LEMMA CountNext ==
  ASSUME StoreInv, CountInv, [MountNext]_mountVars
  PROVE  CountInv'
<1>1. CASE Format
  <2>1. ialloc' = {} /\ ffree' = INODE_COUNT - 1 /\ phase' = "format"
    BY <1>1 DEF Format
  <2> QED
    BY <1>1, <2>1, FormattedAnew, InodesFinite DEF CountInv, InodesCounted
<1>2. CASE FormatBlock
  BY <1>2, FormatStepKeeps DEF FormatBlock, CountInv, InodesCounted, inodeVars
<1>3. CASE EndFormat
  BY <1>3, IInvStays DEF EndFormat, CountInv, InodesCounted, inodeVars
<1>4. CASE MountTrusting
  <2> SUFFICES ASSUME ~crashed
               PROVE  CountInv'
    BY <1>4 DEF MountTrusting, Load, CountInv
  <2>1. phase = "unmounted" /\ phase' = "mounted" /\ crashed' = crashed
    BY <1>4 DEF MountTrusting, Load
  <2>2. second.counts = Counts /\ first = InMemory
    BY <1>4, <2>1 DEF MountTrusting, HashFits, Hash, NoHash, StoreInv, Kept
  <2>3. UNCHANGED vars /\ ffree' = ffree /\ ialloc' = ialloc
    BY <1>4, <2>2 DEF MountTrusting, Load, Counts, InMemory, vars
  <2> QED
    BY <2>1, <2>3, IInvStays DEF CountInv, InodesCounted
<1>5. CASE MountCounting
  <2> SUFFICES ASSUME ~crashed
               PROVE  CountInv'
    BY <1>5 DEF MountCounting, Load, CountInv
  <2>1. phase = "unmounted" /\ phase' = "recount" /\ crashed' = crashed
    BY <1>5 DEF MountCounting, Load
  <2>2. first = InMemory
    BY <2>1 DEF StoreInv, Kept
  <2>3. /\ UNCHANGED <<s_nfree, s_free, disk, held, next>> /\ ialloc' = ialloc
        /\ index' = s_free[0] /\ bfree' = s_nfree
    BY <1>5, <2>2 DEF MountCounting, Load, InMemory, EntriesInMemory
  <2>4. ListPart /\ Walk(s_free[0], s_nfree)
    BY <2>1, PartOfIInv, WalkStarts DEF CountInv
  <2>5. ListPart' /\ Walk(index, bfree)'
    BY <2>3, <2>4, ListStays, WalkMoves
  <2> QED
    BY <2>1, <2>3, <2>5 DEF CountInv, InodesCounted, ListPart
<1>6. CASE RecountStep
  <2> SUFFICES ASSUME ~crashed
               PROVE  CountInv'
    BY <1>6 DEF RecountStep, CountInv
  <2>1. /\ phase = "recount" /\ phase' = "recount" /\ crashed' = crashed
        /\ UNCHANGED <<s_nfree, s_free, disk, held, next>> /\ ialloc' = ialloc
        /\ index \in Blocks
        /\ index' = disk[index].s_free[0] /\ bfree' = bfree + disk[index].s_nfree
    BY <1>6 DEF RecountStep, inodeVars
  <2>2. ListPart /\ Walk(index, bfree)
    BY <2>1 DEF CountInv
  <2>3. Walk(disk[index].s_free[0], bfree + disk[index].s_nfree)
    BY <2>1, <2>2, WalkGoesOn
  <2>4. ListPart' /\ Walk(index, bfree)'
    BY <2>1, <2>2, <2>3, ListStays, WalkMoves
  <2> QED
    BY <2>1, <2>4 DEF CountInv, InodesCounted, ListPart
<1>7. CASE RecountEnd
  <2> SUFFICES ASSUME ~crashed
               PROVE  CountInv'
    BY <1>7 DEF RecountEnd, CountInv
  <2>1. /\ phase = "recount" /\ phase' = "mounted" /\ crashed' = crashed
        /\ UNCHANGED <<s_nfree, s_free, disk, held, next>> /\ ialloc' = ialloc
        /\ index = 0 /\ bfree' = bfree - 1
        /\ ffree' = Cardinality(Inodes \ ialloc)
    BY <1>7 DEF RecountEnd
  <2>2. ListPart /\ bfree - 1 = Cardinality(Listed)
    BY <2>1, WalkEnds DEF CountInv
  <2>3. ListPart' /\ CountExact'
    BY <2>1, <2>2, ListStays DEF CountExact
  <2>4. IInv'
    BY <2>3, CountedAnew
  <2> QED
    BY <2>1, <2>3, <2>4 DEF CountInv, InodesCounted, ListPart
<1>8. CASE BlockCall
  <2>1. [Next]_vars /\ next' = next
    BY <1>8 DEF BlockCall, Next, Allocate, Release, ClientWrite
  <2> QED
    BY <1>8, <2>1, NextKeeps DEF BlockCall, CountInv, InodesCounted, inodeVars, Formatted
<1>9. CASE \E i \in Inodes : InodeCall(i)
  <2> SUFFICES ASSUME ~crashed
               PROVE  CountInv'
    BY <1>9 DEF InodeCall, CountInv
  <2>1. PICK i \in Inodes : InodeCall(i)
    BY <1>9
  <2>2. InodesCounted'
    <3> DEFINE F == Inodes \ ialloc
    <3>1. /\ IsFiniteSet(F) /\ Cardinality(F) \in Nat /\ ffree = Cardinality(F)
          /\ ialloc \subseteq Inodes
      BY <2>1, InodesFinite, FS_CardinalityType DEF InodeCall, CountInv, InodesCounted
    <3>2. CASE i \notin ialloc /\ ialloc' = ialloc \cup {i} /\ ffree' = ffree - 1
      <4>1. Inodes \ ialloc' = F \ {i} /\ i \in F
        BY <3>2
      <4> QED
        BY <3>1, <3>2, <4>1, FS_RemoveElement DEF InodesCounted
    <3>3. CASE i \in ialloc /\ ialloc' = ialloc \ {i} /\ ffree' = ffree + 1
      <4>1. Inodes \ ialloc' = F \cup {i} /\ i \notin F
        BY <3>1, <3>3
      <4> QED
        BY <3>1, <3>3, <4>1, FS_AddElement DEF InodesCounted
    <3> QED
      BY <2>1, <3>2, <3>3 DEF InodeCall
  <2> QED
    BY <2>1, <2>2, IInvStays DEF InodeCall, CountInv
<1>10. CASE Flush
  BY <1>10, IInvStays DEF Flush, CountInv, InodesCounted, inodeVars
<1>11. CASE Unmount
  BY <1>11, IInvStays DEF Unmount, CountInv, InodesCounted, inodeVars
<1>12. CASE Foreign
  BY <1>12, IInvStays DEF Foreign, CountInv, InodesCounted, inodeVars
<1>13. CASE Crash
  BY <1>13 DEF Crash, CountInv
<1>14. CASE UNCHANGED mountVars
  <2> SUFFICES ASSUME ~crashed
               PROVE  CountInv'
    BY <1>14 DEF mountVars, CountInv
  <2>1. UNCHANGED vars /\ UNCHANGED <<inodeVars, phase, index, crashed>>
    BY <1>14 DEF mountVars, vars, inodeVars
  <2>2. CASE phase = "recount"
    <3>1. ListPart' /\ Walk(index, bfree)'
      BY <2>1, <2>2, ListStays, WalkMoves DEF CountInv, vars
    <3> QED
      BY <2>1, <2>2, <3>1 DEF CountInv, InodesCounted, inodeVars, ListPart
  <2>3. CASE phase # "recount"
    BY <2>1, <2>3, IInvStays DEF CountInv, InodesCounted, inodeVars
  <2> QED
    BY <2>2, <2>3
<1> QED
  BY <1>1, <1>2, <1>3, <1>4, <1>5, <1>6, <1>7, <1>8, <1>9, <1>10, <1>11,
     <1>12, <1>13, <1>14 DEF MountNext

(* Without a crash, the counts and the list of every mounted disk are      *)
(* right: recount gives what the count would have been.                    *)
THEOREM CountsRight == MountSpec => []CountsHold
<1>1. MountInit => StoreInv /\ CountInv
  BY StoreInit, CountInit
<1>2. StoreInv /\ CountInv /\ [MountNext]_mountVars => (StoreInv /\ CountInv)'
  BY StoreNext, CountNext
<1>3. CountInv => CountsHold
  BY DEF CountInv, InodesCounted, CountsHold, IInv, CountExact
<1> QED
  BY <1>1, <1>2, <1>3, PTL DEF MountSpec
-----------------------------------------------------------------------------
(* Type correctness. *)

InLeft ==
  phase # "format" =>
    /\ first \in left.first
    /\ second \in left.second
    /\ <<held, ialloc>> \in left.inodes
    /\ \A b \in Blocks : disk[b] \in left.data[b]

TypeInv ==
  /\ phase \in {"format", "unmounted", "recount", "mounted"}
  /\ crashed \in BOOLEAN
  /\ InLeft
  /\ phase # "recount" => index = 0
  /\ ~crashed =>
       /\ ffree \in 0 .. INODE_COUNT - 1
       /\ second.counts.ffree \in 0 .. INODE_COUNT - 1

LEMMA WrittenInLeft ==
  ASSUME Written \/ Settled
  PROVE  InLeft'
BY DEF InLeft, Written, Settled

LEMMA InLeftStays ==
  ASSUME InLeft, UNCHANGED storeVars, UNCHANGED <<disk, held, ialloc>>,
         phase # "format"
  PROVE  InLeft'
BY DEF InLeft, storeVars

LEMMA FreeInodesBound ==
  ASSUME NEW S
  PROVE  Cardinality(Inodes \ S) \in 0 .. INODE_COUNT - 1
<1>1. IsFiniteSet(Inodes) /\ Cardinality(Inodes) = INODE_COUNT - 1
  BY MountAssumption, FS_Interval DEF Inodes
<1>2. /\ Cardinality(Inodes \ S) <= INODE_COUNT - 1
      /\ Cardinality(Inodes \ S) \in Nat
  <2>1. Inodes \ S \in SUBSET Inodes
    OBVIOUS
  <2> QED
    BY <1>1, <2>1, FS_Subset, FS_CardinalityType
<1> QED
  BY <1>2, MountAssumption

(* A recount never counts more than the blocks and the end mark. *)
LEMMA WalkBound ==
  ASSUME ListPart, NEW i, NEW n, Walk(i, n)
  PROVE  i \in Blocks \cup {0} /\ n \in 0 .. DISK_BLOCKS
<1> DEFINE U == UNION {Entries(t) : t \in Behind(i)}
<1>1. Listed \subseteq Blocks
  BY DEF ListPart, Partition
<1>2. U \in SUBSET (Blocks \cup {0})
  BY <1>1 DEF Behind, Listed
<1>3. IsFiniteSet(Blocks) /\ Cardinality(Blocks) = DISK_BLOCKS - DATA_START
  <2>1. /\ DATA_START \in Int /\ DISK_BLOCKS - 1 \in Int
        /\ ~(DATA_START > DISK_BLOCKS - 1)
        /\ (DISK_BLOCKS - 1) - DATA_START + 1 = DISK_BLOCKS - DATA_START
    BY GeometryAssumption
  <2> QED
    BY <2>1, FS_Interval DEF Blocks
<1>4. /\ IsFiniteSet(Blocks \cup {0})
      /\ Cardinality(Blocks \cup {0}) <= DISK_BLOCKS
  BY <1>3, GeometryAssumption, FS_AddElement
<1>5. n \in Nat /\ n <= Cardinality(Blocks \cup {0}) /\ Cardinality(Blocks \cup {0}) \in Nat
  BY <1>2, <1>4, FS_Subset, FS_CardinalityType DEF Walk
<1> QED
  BY <1>4, <1>5, GeometryAssumption DEF Walk, Spilled

LEMMA CountsOfNew ==
  /\ INODE_COUNT - 1 \in 0 .. INODE_COUNT - 1
  /\ Blank.counts.ffree \in 0 .. INODE_COUNT - 1
BY MountAssumption DEF Blank

LEMMA TypeInit == MountInit => TypeInv
BY CountsOfNew DEF MountInit, TypeInv, InLeft

LEMMA TypeNext ==
  ASSUME TypeInv, CountInv, CountInv', [MountNext]_mountVars
  PROVE  TypeInv'
<1>1. ~crashed' /\ phase' # "recount" => ffree' \in 0 .. INODE_COUNT - 1
  BY FreeInodesBound DEF CountInv, InodesCounted
<1>2. CASE Format
  <2>1. /\ phase = "unmounted" /\ phase' = "format" /\ crashed' = FALSE
        /\ ffree' = INODE_COUNT - 1 /\ second' = Blank /\ index' = 0
    BY <1>2 DEF Format, TypeInv
  <2> QED
    BY <1>2, <2>1, CountsOfNew DEF TypeInv, InLeft
<1>3. CASE FormatBlock
  BY <1>3 DEF FormatBlock, TypeInv, InLeft, inodeVars, storeVars
<1>4. CASE EndFormat
  BY <1>1, <1>4, WrittenInLeft DEF EndFormat, TypeInv, FlushSuperblock, Counts
<1>5. CASE MountTrusting
  BY <1>5, InLeftStays DEF MountTrusting, Load, TypeInv, storeVars
<1>6. CASE MountCounting
  BY <1>6, InLeftStays DEF MountCounting, Load, TypeInv, storeVars
<1>7. CASE RecountStep
  BY <1>7, InLeftStays DEF RecountStep, TypeInv, inodeVars, storeVars
<1>8. CASE RecountEnd
  BY <1>1, <1>8, WrittenInLeft DEF RecountEnd, TypeInv, FlushSuperblock, Counts
<1>9. CASE BlockCall
  BY <1>9, WrittenInLeft DEF BlockCall, TypeInv, inodeVars
<1>10. CASE \E i \in Inodes : InodeCall(i)
  BY <1>1, <1>10, WrittenInLeft DEF InodeCall, TypeInv
<1>11. CASE Flush
  BY <1>1, <1>11, WrittenInLeft DEF Flush, TypeInv, FlushSuperblock, Counts
<1>12. CASE Unmount
  BY <1>1, <1>12, WrittenInLeft DEF Unmount, TypeInv, FlushSuperblock, Counts
<1>13. CASE Foreign
  BY <1>13, WrittenInLeft, CountsOfNew DEF Foreign, TypeInv, inodeVars
<1>14. CASE Crash
  BY <1>14, WrittenInLeft DEF Crash, TypeInv
<1>15. CASE UNCHANGED mountVars
  BY <1>15 DEF mountVars, TypeInv, InLeft
<1> QED
  BY <1>2, <1>3, <1>4, <1>5, <1>6, <1>7, <1>8, <1>9, <1>10, <1>11, <1>12,
     <1>13, <1>14, <1>15 DEF MountNext

(* The types of all fields, and the bounds of the counts and of the walk   *)
(* while no crash has come.                                                *)
THEOREM MountTypes == MountSpec => []MountTypeOK
<1>1. MountInit => StoreInv /\ CountInv /\ TypeInv
  BY StoreInit, CountInit, TypeInit
<1>2. StoreInv /\ CountInv /\ TypeInv /\ [MountNext]_mountVars
        => (StoreInv /\ CountInv /\ TypeInv)'
  BY StoreNext, CountNext, TypeNext
<1>3. CountInv /\ TypeInv => MountTypeOK
  <2> SUFFICES ASSUME CountInv, TypeInv
               PROVE  MountTypeOK
    OBVIOUS
  <2>1. ~crashed => held \subseteq Blocks /\ ialloc \subseteq Inodes
    BY DEF CountInv, InodesCounted, IInv, TypeOK, ListPart
  <2>2. ~crashed /\ phase = "recount" => index \in Blocks \cup {0} /\ bfree \in 0 .. DISK_BLOCKS
    BY WalkBound DEF CountInv
  <2>3. ~crashed /\ phase # "recount" => index \in Blocks \cup {0} /\ bfree \in 0 .. DISK_BLOCKS
    BY DEF CountInv, TypeInv, IInv, TypeOK
  <2> QED
    BY <2>1, <2>2, <2>3 DEF TypeInv, InLeft, MountTypeOK
<1> QED
  BY <1>1, <1>2, <1>3, PTL DEF MountSpec
=============================================================================
