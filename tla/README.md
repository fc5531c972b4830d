# Verification of the UNIX V6++ file system in Python

These TLA+ modules model the file system of this repository: the free lists of
the superblock, the block cache, the block index of an inode, the directory
tree, the content of files, mounting with its crashes, and open files. TLC
checks them on small instances, and TLAPS proves the main results of the lower
parts and of mounting for every size.

    tlc -workers 2 -config FreeBlocks.cfg MCFreeBlocks     # one run
    tlapm FreeBlocksProofs.tla                             # one module of proofs

`PROJECT.json` lists the runs, the code lines behind every definition, the
hazards, the findings and, for every property, a faulty variant of the code
that the property catches (the operators called `Faulty...` in the modules).

## The system

One process holds one disk image. FUSE calls `MyFS` (mount.py), which passes
each call to one method of `Disk`. FUSE is started with `nothreads=True`, so
there is one call at a time and no interleaving between calls. What is hard
instead: states that only a long sequence of calls reaches, calls that fail
half-way, several inode objects of one file inside a call, and a crash between
two writes to the image.

    mount.py (FUSE)   disk_with_handle.py (library use)
            \            /
             Disk (disk.py): paths, directories, file content
               |        \
             Inode        DirBlock, FileIndexBlock       (inode.py, ...)
               |            |
             Superblock     |        free blocks, free inodes
                \           |
              ObjectAccessor          parse and build records of a block
                     |
              CachedBlockDevice       LRU cache over the image file

| Part | State | Operations | What makes it correct | Model |
|---|---|---|---|---|
| Free-block list (superblock.py:105-141) | `s_nfree`, `s_free`, `bfree`; tables spilled into free blocks | `allocate_block`, `release_block`, the format loop | no block lost, shared or listed twice; refuses only when full; count exact | `FreeBlocks` |
| Block cache (block_device.py) | LRU order, data and dirty bit of 15 blocks; the file's own buffer | read, write, evict, write back, flush, close | reads are current, nothing is lost but by a crash, capacity | `BlockCache` |
| Free-inode table (superblock.py:143-179) | `s_ninode`, `s_inode`, `ffree`; IALLOC bits | `allocate_inode` and `Disk.create`, `release_inode`, refill | no inode given out twice; none lost; count | `FreeInodes` |
| Block index (inode.py) | `d_addr`, `block_count`, index blocks | `push_block`, `pop_block`, `block_list`, flush | all three levels agree; index blocks come and go with the data | `FileIndex` |
| Directory tree (disk.py, dir_block.py) | entries with holes, size, link count | create, unlink (recursive), link, rename | names unique, entries lead to inodes in use, no orphans, nothing outside the subtree changes | `Namespace` |
| File content (disk.py:281-369) | size, bytes of the blocks | `write_file`, `truncate`, `read_file` | a file is a sequence of bytes | `FileData` |
| Mounting, superblock on disk (disk.py:72-114, superblock.py:11-103) | hash and counts, in memory and in two blocks of the image | format, mount, recount, flush, unmount | counts and lists continue in the next mount; a torn superblock is noticed; a recount is right and ends | `Mount` |
| Open files (disk_with_handle.py, file.py) | handles and their paths | open, close, unlink, rename, format | a handle keeps its path and goes with it; numbers are not reused | `Handles` |
| FUSE adapter (mount.py) | none | one `Disk` call each | | not modelled |
| Object accessor, layouts, constants, utilities | none | parse, build | | not modelled |

xmp.py is an example of the FUSE binding that nothing imports.

## The modules

### FreeBlocks, FreeBlocksLifo, BlockPool, BlockStack

`FreeBlocks` keeps the superblock's table (`s_nfree`, `s_free`), the count
`bfree`, and the content of every data block read as a table, because that is
where the rest of the list lives. `held` is the environment: the blocks that
callers own, and into which `ClientWrite` may write anything at any time, also
bytes that read as a full table. `Init` and `FormatStep` are
`Superblock.__init__` of a new disk, `ReleaseIntoTable` and `ReleaseSpilling`
the branches of `release_block`, `AllocateFromTable` and `AllocateReloading`
those of `allocate_block`, with `zero` for the clearing of the block.

The free list as a set, `Listed`, is read off the tables that are reached from
the superblock by slot 0. `Spilled` is the least set closed under that step, a
definition without recursion that the provers can use. `PoolSpec` says that the
list implements `BlockPool` (take some free block, give a block back), and
`LifoSpec` that it implements `BlockStack`: spilling is not visible in the
order of the blocks.

Run `free_blocks`: tables of 2 entries (100 in the code) and 4 data blocks, so
that formatting alone spills twice and the chain has three tables at most.
Every branch happens at every depth; larger tables only repeat the first branch.

### BlockCache, BlockStore

`BlockCache` has the operating system's view of the file (`image`), the buffer
of Python's file object (`buffer`), the cached blocks with their dirty bits and
their places in the `OrderedDict`, and `evicted`, the block that `put` has
popped and that is written back in a step of its own. A write to a cached block
marks it dirty; a write to any other block goes to the file at once and enters
the cache clean, since the constructor of a dirty `CacheBlock` flushes it.
`FlushBlock` is one turn of the loop of flush, so that a crash can come between.
`Drain` is the file object emptying its buffer when it likes. `Crash` is the
death of the process and not of the machine: what has reached `image` stays.

`BlockStore` is the promise: a read returns what was written last, and after a
crash each block holds a value it had at some moment since the last flush that
reached the image. `recoverable` keeps these values as a history variable; it
guards nothing. flush does not empty the file object's buffer, so the abstract
`Flush` may leave blocks behind; `Close` may not.

Two properties say that the cache keeps it. `StoreSpec` is the refinement: seen
through `content`, every behaviour is one of the store, crashes included.
`CallsAreExact` is sharper about single calls: each read and write does what the
store does for the same block and the same parts, and writing back, the turns of
a flush and `Drain` change nothing that can be seen. A write-back that is
forgotten could pass for some other write in `StoreSpec`, not here.

Run `block_cache`: 3 blocks of 2 parts, capacity 2: eviction order, hits, moves,
short writes to cached and uncached blocks, with a crash anywhere. Blocks are
symmetric: the code only compares their numbers. `MCBound` keeps it small: a
crash chooses from two values of a block, in two blocks or in one while the
parts of a block differ, and states are followed on only when the last read returned
zeros. The last loses nothing, since no action looks at an old result, and
every result is checked in the step that makes it.

### FreeInodes

The table, the IALLOC bits and `ffree`, with `uses` counting the live files that
an inode was given to. `Create` joins `allocate_inode` with the flush of the
inode, in the order of the code: the refill looks at the bits first. Indices
below zero wrap as Python's do. The run has 5 inodes, a table of 3 and the
limit 2 of `release_inode`, so tables between the limit and the full length
occur, the table is refilled, runs out and goes below zero. `MAX_USES` bounds
the files of one inode at 2.

`TableIsBlank` is what the comments of the code say and the code does not do
(finding 1). Nor does `release_inode` put an inode into every table that has
room, as superblock.py:174 says: it compares with 8, the inodes of a block, and
not with 100. `Remember` and `Forget` have that limit; `UnusedIsBlank` says that
a refill still finds what was forgotten. `ExactBeforeRefill`,
`UnusedIsBlank` and `CountFollowsUses` are what remains true.

### FileIndex, FileBlocks

An operation opens a file (a copy of its inode), pushes or pops block after
block and saves the copy at the end, as `truncate`, `write_file` and `unlink`
do; `GrowFails` is the exception of `allocate_block` or `push_block`, after
which the copy is dropped while the blocks stay taken and what was written into
index blocks stays written. `PushBlock` and `PopBlock` are `push_block` and
`pop_block` at all three levels. `BlockList` is the generator `block_list`,
written as the walk the code does (`_get_index_list` with its stripped zeros,
the planner, the slices), and `ListIsExact` compares it with the path of each
position, for every start and length. `FileBlocks` is a list that grows and
shrinks at its end and comes back unchanged from a failure.

Run `file_index`: one direct entry, two entries for each index level and index
blocks of two, so every boundary is crossed in both directions up to the largest
size (13 blocks). The disk has 22 blocks, one more than a file of that size takes
with its index blocks: a file can be full while a block is free, and the disk is
full before it once an abandoned operation has leaked blocks. `MCBound` lets
the first file go that far alone, with operations abandoned up to 6 blocks; with
the second one, both reach the first level of index blocks (4 blocks together),
and abandon operations while they are small.

The free list is a set here, as `FreeBlocks` proves that it may be, and a block
that is released may be overwritten at once (`Garbage`: the free list may
spill into it).

### Namespace

Inodes with type, link count, size and blocks; every directory's entries block
after block, with holes. `AddToDir` is `_add_to_dir`: the first hole in the
blocks that the size says exist, or a new block. `UnlinkEntry` is `unlink` with
its recursion, `Rename` and `EndRename` the two halves of `rename`.
`CreateFails` is a create that finds no block for the directory.

Two things are kept out on purpose. Inode numbers are taken to be given out
correctly, which `FreeInodes` shows to be true only before the first refill.
And after an unlink has deleted an inode that has another entry (finding 2), a
stale entry leads to whatever gets the inode next; `damaged` records the moment,
the invariants speak of the states before it, and the run does not follow those
after it (`MCUndamaged`). `Link` is the method of `Disk`; through the mount it
never succeeds, because mount.py:108 passes fusepy's arguments in the other order.

Run `namespace`: 3 names, 4 inodes, 3 blocks, 2 entries a block, depth 2. That
is enough for holes in a first and a second block, a subdirectory with
content, and a full disk. Names are symmetric. `TreeStep` ties what a step does to
the tree to the path of the call that took it: unlink takes away its path with all
below it and nothing else, create adds its path alone, link and the first half of
a rename add theirs, to the inode of the source, and leave all paths not below it.
The second half of a rename would have to be an unlink of the source; it never is
one that the property covers, since it deletes an inode that has another entry.

### FileData, FileBytes

One file that needs no index blocks, with its bytes. `WriteFile` computes what
`write_file` does, including what it does wrong: the place inside the first
block (`Position`) is used for the following existing blocks, and a write
behind the end extends another copy of the inode. `WriteFails` is the exception
in the middle, with the overwritten blocks left so. `CallsAreExact` compares
each call with the same call on a sequence of bytes, an action of `FileBytes`,
under `StraightSpec`: writes that start in the file or at its last block's end,
and that either start at a block, stay in one, or start in the last. The others
are what `GapIsFilled` and the hazards are about.

Run `file_data`: blocks of 2 bytes, 3 blocks, writes of up to 3 bytes at offsets
up to 5, the last byte of the disk, and truncation to sizes up to 5; writes
reach behind the disk. So a write covers up to two blocks, and a disk can fill
up in a write. Bytes other than 0 are symmetric: the code never looks at them.

### Mount

`Mount` extends `FreeBlocks`: the table and the count of that module are the
superblock in memory, its `disk` is what a reader of the image gets. Added are
the two blocks of the superblock in the image (`first` with the table, `second`
with the counts and the hash), the IALLOC bits with `ffree`, and a `phase`.
`Format`, `FormatBlock` and `EndFormat` are format_disk; `MountTrusting` and
`MountCounting` the two ways of `Superblock.__init__`, `RecountStep` one turn of
recount's loop, `RecountEnd` the rest with its flush. `BlockCall` is any step of
`FreeBlocks`, `InodeCall` what create and unlink do to the inodes. A Disk.format
of a mounted disk is `Unmount`, `Format` and a mount.

`Crash` is composed with what `BlockStore` allows: flush does not empty the
buffer of the file object, and blocks reach the image in any order, so each
block may be left with any value it had since the image was opened (`left`). This
is more than can happen, since a buffer that was emptied stays written; what
holds under it holds for the code. The inodes are taken to be in one block.
`Foreign` is the system whose images these are: it keeps the table and knows
neither counts nor hash, which is what recount is for.

`whole` collects the superblocks that one flush wrote: `TornIsRecounted` says that
a mount that does not count has found one of them, so that the hash does its
work. `CountsHold` is the promise to statfs through all of it, `RemountKeepsList`
that a mount continues with exactly what the last one left. What a crash breaks
is finding 4: the superblock that is found is whole, and old.

Left out: two superblocks with one hash, a crash during format (a superblock
whose hash fits may then be there before the rest is), the repair of a broken `s_ninode` (superblock.py:40), the
constant count of all inodes, and where the disk starts in the image.

Run `mount`: tables of 2 entries and 3 data blocks, so that a new list has one
table below the one in memory, and one inode besides the root. Callers' data may
read as a full table (`MCForged`). `MCBound` limits how many values a crash
chooses from, and a disk is checked when it is mounted after a crash but not
used further: from then on the list may be anything. `MAX_COUNT` bounds a recount
on a chain that loops, which only a crash can leave.

### Handles

`Handles` extends `Namespace` with the table of `OpenedFiles`. `Open` does not
look whether there is a file; `Pop` removes the first handle of a path. The
class overrides `dir_list` with one that wants a handle, and `Disk.unlink` calls
it with a path: so `UnlinkHere` removes files only, and `EndMove`, the second
half of a rename, leaves a directory with two names. `HandleFollowsPath` says
what holds of the handles in spite of it, and not while a directory has two
names, where it fails, nor after an inode was deleted that another entry names
(`damaged`): its number may be given to a directory, which then has two names
from the start. `seek`, `read_file`, `write_file` and `truncate` through a
handle are not modelled: they change the offset of one handle and are else the
calls of `FileData`, at the offset the handle has then (write_file: already
advanced).

Run `handles`: 2 names, depth 2, 3 inodes besides the root and 2 blocks, so that a
directory with a file can be moved, 2 handles until the next format.

## Findings

1. `free_inodes_blank`: a refill puts the inode that is being handed out back
   into the table (superblock.py:163), so it is handed out twice.
2. `namespace_links`: link does not count, so unlink and every rename delete an
   inode that still has an entry (disk.py:236, :274).
3. `file_data_gap`: a write behind the end leaves no zeros (disk.py:343).
4. `mount_crash`: after a crash the old superblock, with its hash, is trusted over
   newer inodes and data (superblock.py:31).

## Fairness

Only recount gets any: `WF_mountVars(RecountStep \/ RecountEnd)` in `MountSpec`,
for `RecountEnds`. It is a loop inside one call that waits for nothing and reads
from the image; it is only not known to end because the chain is data. Every
other operation is a call that a caller may make or not, and no liveness is
claimed for it.

## What is proved

Assumptions are the named ASSUMEs on the constants: a data area that is not
empty and does not start at block 0, tables and caches of at least one entry,
(for the inode table) more inodes than table entries, at least the root inode, and
no empty file name.

* `FreeBlocksProofs`: the invariants of the run, `PoolSpec` and `LifoSpec`, for any
  disk, any table length and any data of the callers. `IInv` adds to the checked
  invariants that every spilled table is full and that blocks the format
  loop has not reached are held. Without the first, a reload could give a table
  whose slots are not known to be listed. The proof goes by a characterisation
  of `Spilled` after each step: it gains the released block when a table is
  spilled, loses the block whose table is reloaded, and otherwise depends on
  none of the blocks that a caller may write. For `LifoSpec`, `Chained` adds that the
  spilled tables form a finite chain (`Chain`) from the superblock on: a spill puts
  one in front of it and a reload takes one away, and tables further down hold the
  same part of the stack before and after (`SameEnd`).
* `BlockCacheProofs`: the type invariant (capacity included), `PlacesAreAnOrder`,
  that clean blocks are saved, the whole refinement `StoreSpec` with its crashes,
  and `CallsAreExact`. `IInv` adds that at most one evicted block waits, outside
  the cache and never during a flush, and that every copy of a block is
  recoverable.
* `FreeInodesProofs`: all four invariants of the run. The type invariant needs that
  whatever `rank` reaches of the table when it is filled is an inode number
  (`TableInv`); `CountFollowsUses` needs that the count is `INODE_COUNT` minus a sum
  over the inodes, which changes by one where the uses of one inode do.
* `CountingProofs` has what that rests on: every set of numbers has a least one, and
  the sum that `FoldFunction` computes changes by what one value changes by, and what
  `FlattenSeq` joins is row after row. The first takes the place of induction: a set
  of counterexamples has no least one.
* `FileDataProofs`: all five properties of the run, that is of `StraightSpec`, for
  every size of blocks, disk, writes and files. The invariant is `DataInv`: as many
  blocks as the size needs, no more blocks than the disk has, and zeros at every
  place whose offset (`At`) is behind the end while no write has failed. The
  arithmetic is in three lemmas: the place that the loop of write_file finds for a
  byte is the one its offset has (`StrideArithmetic`, which is where `Straight` is
  needed), what it leaves for new blocks is the end of the data (`RestResult`), and
  joined blocks have each byte at its offset (`FlattenResult`).
* `NamespaceProofs`: `NamesUnique`, `SizeMatchesBlocks`, `BlocksOwnedOnce`,
  `NoDanglingEntry`, `NoOrphans`, the action property `TreeStep` and, until an inode
  is deleted that has another entry, `TypeOK`, for any number of names, inodes and
  blocks, any size of a directory block and any depth. `TreeInv` says of each inode
  alone (`Whole`) that its size matches its blocks, that a hole and only a hole has
  no name, and that the size is at least the entries up to the last block, which is
  what keeps the size right when a hole is filled (`FillWhole`) and makes a
  directory without a hole exactly full when a block is started (`StartWhole`). Of
  all inodes together it says that blocks have one owner, that entries name inodes
  in use, and that the path a rename has still to unlink leads somewhere
  (`FoundKept`: a new name leaves every path as it is). What unlink deletes is
  reached from the inode at the path through entries in deleted directories
  (`Below`); without a second entry no other directory keeps one. For `NoOrphans`
  and `TreeStep` this is not enough: unlink looks no deeper than `MAX_DEPTH` levels,
  so what it leaves has to be within reach. `PlaceInv` adds that every inode in use
  that no create lost has a path of at most `MAX_DEPTH` names (`Placed`), and that
  no directory has two entries but the one a rename is moving (`Single`). So a
  directory has one path (`OnePath`), everything under a path that is unlinked is
  deleted with it (`FoundUnder`), and what other paths lead to is not (`FoundCut`).
  A new name gives one path and those through it (`FoundNew`, `FoundBeside`), which
  matters when a directory that has something in it is renamed. `TreeStep` follows,
  call by call, since `Tree` is what the paths lead to (`TreeIsPaths`): the path
  that unlink is given leads nowhere afterwards (`FoundRemoved`), below a path under
  which no name is found there is nothing (`NothingBelow`), and the other paths are
  as they were. Of the handles, over the same tree, it proves `HandlesTypeOK`, with
  nothing assumed of the tree, and `HandleFollowsPath`, for which `TreeInv` is shown
  to hold of what `DiskWithHandle` makes of the calls too (`TreeUnderHandles`). That
  proof found `Aliased` wrong: it had counted the holes of a directory as names of
  the root, so that the property asked nothing of many states.
* `FileIndexProofs`: `TypeOK`, `BlocksAccountedFor`, `NoEmptyIndexBlock`,
  `ListIsExact` and the whole refinement `ListSpec`, for any number of files and
  blocks, any thresholds and any size of an index block. `IndexInv` says of every
  inode, and of the operation's copy, that it is a `Tree`: there is a label for each
  block that says which one place it has, as the data of a position, as the first
  index block of an entry, or as a second one. A turn of push_block or pop_block
  then keeps what every earlier position finds (`PushKeeps`, `PopKeeps`) because an
  index block is started or given back exactly at the first position under it
  (`FirstOuter`, `FirstInner`, which is arithmetic about `GetBlockIndex`). The sizes
  in `BlocksAccountedFor` follow since each turn adds or takes away as many blocks
  as `IndexBlocksFor` says. `Kept` says that while a file grows the inode on disk is
  a tree as well, made of the operation's blocks without those it took: this is what
  is left when the operation is abandoned. `ListIsExact` is proved level by level
  (`BlockRow`, `HugeRow`, `WalkCovers`): a row of block_list has what its positions
  have as far as the file goes (`Covers`), and may be too long or too short only
  behind its end, so that rows can be joined and cut off there.
* `MountProofs`, on top of `FreeBlocksProofs`: `TornIsRecounted`, `RemountKeepsList`,
  `CountsHold` and `MountTypeOK`, crashes included, for any disk. `StoreInv` says of
  the store that every value a crash may leave in `second` has either no hash or
  that of a superblock that was flushed, so a hash that fits names one flush.
  `CountInv` relates memory and store while no crash has come: the invariant of the
  free list holds, the store has what memory had at the last flush, and while the
  recount walks, what it has counted and what lies ahead (`Ahead`, the chain from
  `index` on) make up the list. That the walk never meets a block again rests on
  every table of the chain being listed once.

Only model-checked: `RecountEnds`, that a recount comes to its end. Liveness under
fairness and ENABLED are beyond TLAPS here, and so are the four runs that expect a
violation, which are counterexamples. What is proved of the tree ends, as in the
run, with the first deletion of an inode that has another entry, and so with the
second half of every rename (finding 2). `MAX_DEPTH` bounds the paths that callers
use and how deep unlink looks alike, in the proofs as in the runs; the code has no
such bound, and its recursion ends because no directory comes to be under itself:
callers neither link directories nor rename them to a path under their own. The
induction theorems of the library take an operator as a parameter, which the provers
cannot instantiate; the proofs about sums, joined blocks, stacks and paths go by
least counterexamples instead, each for its own definition.

## Not modelled

Timestamps, permissions, stat records, logging, the encoding of names (a name
is limited in characters, a field in bytes), the size limits of 32-bit fields.
A failure of the image file itself. Of a crash, its effect on the block level
is modelled (BlockCache), and on the superblock with the free lists (Mount); what
it does to directories and files whose blocks reach the image at different times
is not. The geometry of the disk and its place in the image are constants.
The FUSE adapter has no state: each method is one call of `Disk`. The object
accessor and the record layouts only parse and build.

## Plan

Done: the free lists, the cache, the index, the tree, the content, mounting and
the handles, in the order in which the upper ones rely on the lower. Left:

1. Offsets of handles, over `FileData`.
2. A run for writes over several existing blocks (disk.py:348), and inodes that
   are shared, composing `FreeInodes` with `Namespace`.
3. Crashes for the tree: entries and inodes that reach the image apart.
4. Proofs of what these add; every safety property of the present runs is proved.
