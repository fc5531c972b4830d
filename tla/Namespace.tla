------------------------------ MODULE Namespace ------------------------------
(***************************************************************************)
(* Directories (disk.py, dir_block.py): create, unlink, link and rename on *)
(* a tree of inodes.  A directory's blocks hold entries, an entry with     *)
(* inode number 0 is a hole.  Adding fills the first hole of any block, or *)
(* starts a new block; removing leaves a hole, and directories never       *)
(* shrink.  A block list ends where d_size says (Inode.__init__).          *)
(*                                                                         *)
(* Callers keep to what a kernel lets through to mount.py: the parent is a *)
(* directory, directories are not hard-linked and not moved into           *)
(* themselves.  Inode numbers are taken as exact here (FreeInodes says     *)
(* when they are), and so is the free list (FreeBlocks) and the index of a *)
(* file's blocks (FileIndex).                                              *)
(***************************************************************************)
EXTENDS Integers, FiniteSets, SequencesExt

CONSTANTS
  Names,               \* file names
  INODE_COUNT,         \* inodes of the disk; inode 0 is the root directory
  BLOCK_COUNT,         \* data blocks of the disk
  DIRECTORY_PER_BLOCK, \* entries of a directory block (16 in constants.py)
  MAX_DEPTH            \* bound: names in a path

ASSUME NamespaceAssumption ==
  /\ INODE_COUNT \in Nat \ {0}
  /\ BLOCK_COUNT \in Nat
  /\ DIRECTORY_PER_BLOCK \in Nat \ {0}
  /\ MAX_DEPTH \in Nat

ASSUME NamesAssumption == "" \notin Names   \* the name of a hole

Inodes == 0 .. INODE_COUNT - 1
Blocks == 1 .. BLOCK_COUNT
Paths  == UNION {[1 .. n -> Names] : n \in 0 .. MAX_DEPTH}

Empty == [m_ino |-> 0, m_name |-> ""]
Fresh(type) == [type |-> type, d_nlink |-> 1, d_size |-> 0, blocks |-> <<>>]

VARIABLES
  inode,    \* every inode: its type, link count, size and list of blocks.
            \* The size of a directory counts entries, that of a file blocks.
  ialloc,   \* the inodes in use
  entry,    \* the entries of every directory, block after block
  free,     \* the blocks of the free list
  pending,  \* the path that a rename under way still has to unlink, or <<>>
  leaked,   \* history: inodes taken by a create that failed afterwards
  damaged   \* history: whether an inode was deleted that had another entry

vars == <<inode, ialloc, entry, free, pending, leaked, damaged>>

Init ==
  /\ inode = [i \in Inodes |-> [Fresh("DIR") EXCEPT !.d_nlink = IF i = 0 THEN 0 ELSE 1]]
  /\ ialloc = {0}
  /\ entry = [i \in Inodes |-> <<>>]
  /\ free = Blocks
  /\ pending = <<>>
  /\ leaked = {}
  /\ damaged = FALSE
-----------------------------------------------------------------------------
(* The blocks of a directory, as many as block_count makes of d_size.      *)
Ceil(n) == (n + DIRECTORY_PER_BLOCK - 1) \div DIRECTORY_PER_BLOCK
BlockCount(d) ==
  IF inode[d].type = "DIR" THEN Ceil(inode[d].d_size) ELSE inode[d].d_size

(* The places of a directory that the loops over its block list look at.   *)
Places(d) == 1 .. BlockCount(d) * DIRECTORY_PER_BLOCK
Holes(d) == {p \in Places(d) : entry[d][p].m_ino = 0}

(* Fault: a name is looked for in the first block only. *)
FaultyNamed(d, name) ==
  {p \in Places(d) : p <= DIRECTORY_PER_BLOCK /\ entry[d][p].m_name = name}

Named(d, name) == {p \in Places(d) : entry[d][p].m_name = name}

(* _get_inode: the inode at a path, from the root, if there is one.        *)
Lookup(d, name) ==
  IF inode[d].type # "DIR" \/ Named(d, name) = {} THEN {}
  ELSE {entry[d][Min(Named(d, name))].m_ino}

Found(path) ==
  LET reached[n \in 0 .. Len(path)] ==
        IF n = 0 THEN {0} ELSE UNION {Lookup(d, path[n]) : d \in reached[n - 1]}
  IN  reached[Len(path)]

GetInode(path) == CHOOSE i \in Found(path) : TRUE
Exists(path) == Found(path) # {}

(* os.path.split, and what callers have checked of the parent.             *)
Parent(path) == Front(path)
Name(path) == Last(path)
ParentIsDir(path) ==
  /\ path # <<>>
  /\ \E d \in Found(Parent(path)) : inode[d].type = "DIR"

(* Paths at which something is, and at which something may be put.         *)
Taken  == {path \in Paths : Exists(path)}
Vacant == {path \in Paths : ~Exists(path) /\ ParentIsDir(path)}

(* Fault: filling a hole sets the size to the entries up to that block. *)
FaultySizeAfterFill(size, supposed) == supposed

(* _add_to_dir grows the size only if the entry went past it.              *)
SizeAfterFill(size, supposed) == IF supposed > size THEN supposed ELSE size

(* _add_to_dir into a hole; the size follows the number of entries of the  *)
(* block that took it.  nodes are the inodes with the new one flushed.     *)
FillHole(nodes, d, name, i) ==
  LET p == Min(Holes(d))           \* DirBlock.add: the first with number 0
      before == ((p - 1) \div DIRECTORY_PER_BLOCK) * DIRECTORY_PER_BLOCK
      block == before + 1 .. before + DIRECTORY_PER_BLOCK
      length == 1 + Cardinality(block \ Holes(d))
  IN  /\ Holes(d) # {}
      /\ entry' = [entry EXCEPT ![d][p] = [m_ino |-> i, m_name |-> name]]
      /\ inode' = [nodes EXCEPT ![d].d_size = SizeAfterFill(@, before + length)]
      /\ UNCHANGED free

(* _add_to_dir without a hole: a new block whose first entry it is.        *)
StartBlock(nodes, d, name, i) ==
  /\ Holes(d) = {}
  /\ \E b \in free :
       /\ \A c \in free : b <= c      \* any free block; numbers do not matter
       /\ free' = free \ {b}
       /\ entry' = [entry EXCEPT ![d] =
                      @ \o [p \in 1 .. DIRECTORY_PER_BLOCK |->
                             IF p = 1 THEN [m_ino |-> i, m_name |-> name] ELSE Empty]]
       /\ inode' = [nodes EXCEPT ![d].blocks = Append(@, b), ![d].d_size = @ + 1]

AddToDir(nodes, d, name, i) == FillHole(nodes, d, name, i) \/ StartBlock(nodes, d, name, i)
DirIsFull(d) == Holes(d) = {} /\ free = {}

(* create takes an inode and flushes it before it adds the entry.  Which   *)
(* unused inode allocate_inode returns makes no difference here, so it is  *)
(* the first.                                                              *)
Created(i, type) == [inode EXCEPT ![i] = Fresh(type)]
NewInode(i) == i \in Inodes \ ialloc /\ \A j \in Inodes \ ialloc : i <= j

Create(path, type) ==
  /\ \E i \in Inodes :
       /\ NewInode(i)
       /\ AddToDir(Created(i, type), GetInode(Parent(path)), Name(path), i)
       /\ ialloc' = ialloc \cup {i}
  /\ UNCHANGED <<pending, leaked, damaged>>

(* "No free block" for the directory: the inode has been flushed already.  *)
CreateFails(path, type) ==
  /\ DirIsFull(GetInode(Parent(path)))
  /\ \E i \in Inodes :
       /\ NewInode(i)
       /\ inode' = Created(i, type)
       /\ ialloc' = ialloc \cup {i}
       /\ leaked' = leaked \cup {i}
  /\ UNCHANGED <<entry, free, pending, damaged>>

(* The inodes in and under a directory, which unlink visits, and how many  *)
(* entries an inode has.                                                   *)
Children(d) == UNION {Lookup(d, name) : name \in Names}

Subtree(i) ==
  LET grown[n \in 0 .. MAX_DEPTH] ==
        IF n = 0 THEN {i}
        ELSE grown[n - 1] \cup UNION {Children(d) : d \in grown[n - 1]}
  IN  grown[MAX_DEPTH]

EntriesOf(i) ==
  {e \in UNION {{d} \X Places(d) : d \in {j \in ialloc : inode[j].type = "DIR"}} :
     entry[e[1]][e[2]].m_ino = i}

(* Fault: a directory goes without its children. *)
FaultyDeleted(i) == IF inode[i].d_nlink - 1 = 0 THEN {i} ELSE {}

(* The inodes that unlink deletes: d_nlink reaches 0 for the one at the    *)
(* path, and unlink calls itself for what it holds.                        *)
Deleted(i) == IF inode[i].d_nlink - 1 = 0 THEN Subtree(i) ELSE {}

BlocksOf(S) == UNION {Range(inode[i].blocks) : i \in S}

(* Fault: only the first block of each is released. *)
FaultyReleased_FirstOnly(gone) ==
  {inode[i].blocks[1] : i \in {j \in gone : inode[j].blocks # <<>>}}

(* Fault: an empty list is popped as well, and block 0 released. *)
FaultyReleased_OneMore(gone) == BlocksOf(gone) \cup {0}

(* The blocks that unlink pops and releases, block_count of each inode.    *)
Released(gone) == BlocksOf(gone)

(* Fault: the entry is removed from the first block or not at all. *)
FaultyEntryRemoved(d, p) ==
  IF p <= DIRECTORY_PER_BLOCK THEN [entry EXCEPT ![d][p] = Empty] ELSE entry

(* Fault: another entry moves into the hole, but not its name. *)
FaultyEntryRemoved_Compacted(d, p) ==
  LET others == Places(d) \ (Holes(d) \cup {p})
  IN  IF others = {} THEN [entry EXCEPT ![d][p] = Empty]
      ELSE [entry EXCEPT ![d][p].m_ino = entry[d][Min(others)].m_ino,
                         ![d][Min(others)] = Empty]

(* DirBlock.remove leaves a hole.                                          *)
EntryRemoved(d, p) == [entry EXCEPT ![d][p] = Empty]

(* unlink of the entry at a path: release the blocks and the inodes, or    *)
(* flush the link count, and remove the entry from the parent.  Blocks and *)
(* inodes that are no longer used keep nothing that is read again.  When   *)
(* `damaged' becomes true a block may also be released twice; those states *)
(* are not continued (MCNamespace), so the set of free blocks will do.     *)
UnlinkEntry(path) ==
  LET i    == GetInode(path)
      d    == GetInode(Parent(path))
      gone == Deleted(i)
      left == EntryRemoved(d, Min(Named(d, Name(path))))
  IN  /\ ialloc' = ialloc \ gone
      /\ free' = free \cup Released(gone)
      /\ inode' = [j \in Inodes |->
                     IF j \in gone THEN Fresh("DIR")
                     ELSE IF j = i THEN [inode[j] EXCEPT !.d_nlink = @ - 1]
                     ELSE inode[j]]
      /\ entry' = [j \in Inodes |-> IF j \in gone THEN <<>> ELSE left[j]]
      /\ damaged' = (damaged \/ \E j \in gone : Cardinality(EntriesOf(j)) > 1)

Unlink(path) ==
  /\ path # <<>>
  /\ UnlinkEntry(path)
  /\ UNCHANGED <<pending, leaked>>

(* link adds an entry and leaves d_nlink alone.                            *)
Link(src, dst) ==
  /\ inode[GetInode(src)].type = "FILE"
  /\ AddToDir(inode, GetInode(Parent(dst)), Name(dst), GetInode(src))
  /\ UNCHANGED <<ialloc, pending, leaked, damaged>>

(* rename is link followed by unlink, which deletes what was just linked.  *)
Rename(src, dst) ==
  /\ src # <<>>
  /\ ~IsPrefix(src, dst)
  /\ AddToDir(inode, GetInode(Parent(dst)), Name(dst), GetInode(src))
  /\ pending' = src
  /\ UNCHANGED <<ialloc, leaked, damaged>>

EndRename ==
  /\ pending # <<>>
  /\ UnlinkEntry(pending)
  /\ pending' = <<>>
  /\ UNCHANGED leaked

(* write_file of one block at the end of a file (FileIndex has the rest).   *)
AppendBlock(path) ==
  /\ inode[GetInode(path)].type = "FILE"
  /\ \E b \in free :
       /\ \A c \in free : b <= c
       /\ free' = free \ {b}
       /\ inode' = [inode EXCEPT ![GetInode(path)].blocks = Append(@, b),
                                 ![GetInode(path)].d_size = @ + 1]
  /\ UNCHANGED <<ialloc, entry, pending, leaked, damaged>>

Next ==
  \/ /\ pending = <<>>
     /\ \/ \E path \in Vacant, type \in {"FILE", "DIR"} :
             Create(path, type) \/ CreateFails(path, type)
        \/ \E path \in Taken : Unlink(path) \/ AppendBlock(path)
        \/ \E src \in Taken, dst \in Vacant : Link(src, dst) \/ Rename(src, dst)
  \/ EndRename

Spec == Init /\ [][Next]_vars
-----------------------------------------------------------------------------
Directories == {i \in ialloc : inode[i].type = "DIR"}

TypeOK ==
  /\ inode \in [Inodes -> [type : {"DIR", "FILE"}, d_nlink : Nat, d_size : Nat,
                           blocks : Seq(Blocks)]]
  /\ ialloc \subseteq Inodes
  /\ entry \in [Inodes -> Seq([m_ino : Inodes, m_name : Names \cup {""}])]
  /\ free \subseteq Blocks
  /\ pending \in Paths
  /\ leaked \subseteq Inodes
  /\ damaged \in BOOLEAN

(* A directory never holds a name twice, also with holes filled in blocks  *)
(* before the one that has the name: create and link look at all of them.  *)
NamesUnique ==
  ~damaged =>
    \A d \in Directories, name \in Names :
      Cardinality({p \in Places(d) : entry[d][p].m_name = name}) <= 1

(* inode.py:24: the size and the number of blocks of an inode must match.  *)
(* For a directory both are updated apart, through holes and new blocks.   *)
SizeMatchesBlocks ==
  ~damaged => \A i \in ialloc : Len(inode[i].blocks) = BlockCount(i)

(* Every block is free or belongs to one inode in use, however deep the    *)
(* directories that were removed.                                          *)
BlocksOwnedOnce ==
  ~damaged =>
    /\ \A i, j \in ialloc : i # j => BlocksOf({i}) \cap BlocksOf({j}) = {}
    /\ \A i \in ialloc : Cardinality(BlocksOf({i})) = Len(inode[i].blocks)
    /\ BlocksOf(ialloc) \cap free = {}
    /\ BlocksOf(ialloc) \cup free = Blocks

(* An inode in use is the root, has an entry in a directory in use, or was *)
(* leaked by a create that failed: removing a tree leaves no orphans.      *)
NoOrphans ==
  ~damaged => \A i \in ialloc \ leaked : i = 0 \/ EntriesOf(i) # {}

(* disk.py:236: only when no hard link is left is the file deleted.  link  *)
(* does not count, so unlink deletes an inode that an entry still names.   *)
DeletedWithLastLink ==
  \A d \in Directories : \A p \in Places(d) \ Holes(d) : entry[d][p].m_ino \in ialloc

(* The same up to the first inode deleted in that way.                     *)
NoDanglingEntry == ~damaged => DeletedWithLastLink

(* The paths that lead somewhere, with the inode they lead to.             *)
Tree ==
  LET level[n \in 0 .. MAX_DEPTH] ==
        IF n = 0 THEN {<<<<>>, 0>>}
        ELSE UNION {{<<Append(node[1], entry[node[2]][p].m_name), entry[node[2]][p].m_ino>> :
                       p \in IF inode[node[2]].type = "DIR"
                               THEN Places(node[2]) \ Holes(node[2]) ELSE {}} :
                    node \in level[n - 1]}
  IN  UNION {level[n] : n \in 0 .. MAX_DEPTH}

Outside(tree, path) == {node \in tree : ~IsPrefix(path, node[1])}

(* What a call does to the tree, by its path: unlink, also as the second   *)
(* half of a rename, takes away that path with all that is below it and    *)
(* nothing else; create adds that path alone, with a new inode; link and   *)
(* the first half of a rename add that path, to the inode that the source  *)
(* has, and leave every path not below it where it led; a create that      *)
(* fails and a write change no path.                                       *)
TreeChange(old, new) ==
  \/ \E path \in Taken :
       /\ new = Outside(old, path)
       /\ Unlink(path) \/ (path = pending /\ EndRename)
  \/ \E path \in Vacant, type \in {"FILE", "DIR"}, i \in ialloc' \ ialloc :
       new = old \cup {<<path, i>>} /\ Create(path, type)
  \/ \E dst \in Vacant :
       /\ Outside(new, dst) = old
       /\ \E src \in Taken :
            <<dst, GetInode(src)>> \in new /\ (Link(src, dst) \/ Rename(src, dst))
  \/ /\ new = old
     /\ \/ \E path \in Vacant, type \in {"FILE", "DIR"} : CreateFails(path, type)
        \/ \E path \in Taken : AppendBlock(path)

(* Every step is a call that does to the tree what its path says.          *)
TreeStep ==
  [][~damaged' => \E old \in {Tree}, new \in {Tree'} : TreeChange(old, new)]_vars
=============================================================================
