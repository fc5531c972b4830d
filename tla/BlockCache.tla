------------------------------ MODULE BlockCache -----------------------------
(***************************************************************************)
(* CachedBlockDevice (block_device.py): an LRU cache of blocks in front of *)
(* the image file.  A write to a cached block only marks it dirty; a write *)
(* to any other block goes to the file at once.  The block that has not    *)
(* been used for longest leaves a full cache and is written back if dirty. *)
(* flush writes the dirty blocks back one by one.                          *)
(*                                                                         *)
(* The image file is a Python file object with a buffer of its own, which  *)
(* it empties when it likes and when it is closed: flush does not flush    *)
(* it.  A crash of the process may come between any two writes to the file *)
(* and loses the cache and that buffer.                                    *)
(***************************************************************************)
EXTENDS Integers, FiniteSets

CONSTANTS
  Blocks,             \* block numbers of the image
  Parts,              \* the parts of a block that a write may address
  Bytes,              \* the values of a part
  LRU_CACHE_LENGTH    \* 15 in constants.py

ASSUME CacheAssumption == LRU_CACHE_LENGTH \in Nat \ {0}

VARIABLES
  image,        \* the blocks as the operating system has them
  buffer,       \* the blocks waiting in the file object
  cache,        \* CachedBlockDevice.cache: the cached blocks
  place,        \* their place in the OrderedDict, 1 the least recently used
  evicted,      \* the block just popped from the cache, not yet written back
  flushing,     \* whether flush is under way, alone or on behalf of close
  result,       \* what the last read_block returned
  recoverable   \* history: values of a block that the image may be left with

vars == <<image, buffer, cache, place, evicted, flushing, result, recoverable>>

Datum == [Parts -> Bytes]
Entry == [data : Datum, dirty : BOOLEAN]
Chunk == UNION {[S -> Bytes] : S \in SUBSET Parts} \ {<<>>}

Nothing == [b \in {} |-> {}]

Cached == DOMAIN cache
Idle == evicted = Nothing /\ flushing = "no"

Init ==
  /\ image \in [Blocks -> Datum]
  /\ buffer = Nothing
  /\ cache = Nothing
  /\ place = Nothing
  /\ evicted = Nothing
  /\ flushing = "no"
  /\ result \in Datum
  /\ recoverable = [b \in Blocks |-> {image[b]}]
-----------------------------------------------------------------------------
(* BlockDevice.read_block: the file object looks through its own buffer.   *)
FileRead(b) == IF b \in DOMAIN buffer THEN buffer[b] ELSE image[b]

With(f, b, v) == [c \in DOMAIN f \cup {b} |-> IF c = b THEN v ELSE f[c]]

(* What a write of some parts makes of a block; other parts stay.          *)
Overlay(old, chunk) ==
  [p \in Parts |-> IF p \in DOMAIN chunk THEN chunk[p] ELSE old[p]]

(* Faults are what a plausible slip in the code would make of the          *)
(* definition that follows them; no specification uses them.               *)

(* Fault: the blocks behind the one moved keep their places. *)
FaultyMovedToEnd(b) == [place EXCEPT ![b] = Cardinality(Cached)]

(* OrderedDict.move_to_end.                                                *)
MovedToEnd(b) ==
  [c \in Cached |->
     IF c = b THEN Cardinality(Cached)
     ELSE IF place[c] > place[b] THEN place[c] - 1 ELSE place[c]]

(* Fault: a full cache counts as having room. *)
FaultyPutInto(b, entry) ==
  /\ Cardinality(Cached) <= LRU_CACHE_LENGTH
  /\ cache' = With(cache, b, entry)
  /\ place' = With(place, b, Cardinality(Cached) + 1)
  /\ UNCHANGED evicted

(* LRUCache.put of a block that is not cached, with room for it.           *)
PutInto(b, entry) ==
  /\ Cardinality(Cached) < LRU_CACHE_LENGTH
  /\ cache' = With(cache, b, entry)
  /\ place' = With(place, b, Cardinality(Cached) + 1)
  /\ UNCHANGED evicted

(* LRUCache.put into a full cache: popitem(last=False) takes the first     *)
(* block, which the caller writes back next.                               *)
PutEvicting(b, entry) ==
  /\ Cardinality(Cached) >= LRU_CACHE_LENGTH
  /\ \E old \in Cached :
       /\ \A c \in Cached : place[old] <= place[c]
       /\ cache' = [c \in (Cached \ {old}) \cup {b} |->
                      IF c = b THEN entry ELSE cache[c]]
       /\ place' = [c \in (Cached \ {old}) \cup {b} |->
                      IF c = b THEN Cardinality(Cached) ELSE place[c] - 1]
       /\ evicted' = [c \in {old} |-> cache[c]]

Put(b, entry) == PutInto(b, entry) \/ PutEvicting(b, entry)

(* read_block_bytes of a cached block.                                     *)
ReadHit(b) ==
  /\ Idle
  /\ b \in Cached
  /\ result' = cache[b].data
  /\ place' = MovedToEnd(b)
  /\ UNCHANGED <<image, buffer, cache, evicted, flushing, recoverable>>

(* read_block_bytes of any other block: it enters the cache clean.         *)
ReadMiss(b) ==
  /\ Idle
  /\ b \notin Cached
  /\ Put(b, [data |-> FileRead(b), dirty |-> FALSE])
  /\ result' = FileRead(b)
  /\ UNCHANGED <<image, buffer, flushing, recoverable>>

(* Fault: modify_bytes forgets to mark the block dirty. *)
FaultyWriteHit(b, chunk) ==
  /\ Idle
  /\ b \in Cached
  /\ cache' = [cache EXCEPT ![b].data = Overlay(@, chunk)]
  /\ place' = MovedToEnd(b)
  /\ recoverable' = [recoverable EXCEPT ![b] = @ \cup {cache'[b].data}]
  /\ UNCHANGED <<image, buffer, evicted, flushing, result>>

(* write_block_bytes of a cached block: the file is not written.           *)
WriteHit(b, chunk) ==
  /\ Idle
  /\ b \in Cached
  /\ cache' = [cache EXCEPT ![b] = [data |-> Overlay(@.data, chunk), dirty |-> TRUE]]
  /\ place' = MovedToEnd(b)
  /\ recoverable' = [recoverable EXCEPT ![b] = @ \cup {cache'[b].data}]
  /\ UNCHANGED <<image, buffer, evicted, flushing, result>>

(* Fault: the parts a short write leaves alone are not read first. *)
FaultyWriteMiss(b, chunk) ==
  /\ Idle
  /\ b \notin Cached
  /\ \E junk \in Datum :
       LET data == Overlay(junk, chunk)
       IN  /\ buffer' = With(buffer, b, data)
           /\ Put(b, [data |-> data, dirty |-> FALSE])
           /\ recoverable' = [recoverable EXCEPT ![b] = @ \cup {data}]
  /\ UNCHANGED <<image, flushing, result>>

(* write_block_bytes of any other block: a write of less than the block    *)
(* reads the rest first; constructing a dirty CacheBlock writes it through.*)
WriteMiss(b, chunk) ==
  /\ Idle
  /\ b \notin Cached
  /\ LET data == Overlay(FileRead(b), chunk)
     IN  /\ buffer' = With(buffer, b, data)
         /\ Put(b, [data |-> data, dirty |-> FALSE])
         /\ recoverable' = [recoverable EXCEPT ![b] = @ \cup {data}]
  /\ UNCHANGED <<image, flushing, result>>

(* popped_block.flush()                                                    *)
WriteBack ==
  /\ \E b \in DOMAIN evicted :
       buffer' = IF evicted[b].dirty
                   THEN With(buffer, b, evicted[b].data)
                   ELSE buffer
  /\ evicted' = Nothing
  /\ UNCHANGED <<image, cache, place, flushing, result, recoverable>>

(* CachedBlockDevice.flush, called by Disk.flush, and by close.            *)
StartFlush(kind) ==
  /\ Idle
  /\ flushing' = kind
  /\ UNCHANGED <<image, buffer, cache, place, evicted, result, recoverable>>

(* Fault: the block is marked clean without being written. *)
FaultyFlushBlock(b) ==
  /\ flushing # "no"
  /\ b \in Cached
  /\ cache[b].dirty
  /\ cache' = [cache EXCEPT ![b].dirty = FALSE]
  /\ UNCHANGED <<image, buffer, place, evicted, flushing, result, recoverable>>

(* One turn of perform_on_all('flush'), in the order of the OrderedDict.   *)
FlushBlock(b) ==
  /\ flushing # "no"
  /\ b \in Cached
  /\ cache[b].dirty
  /\ \A c \in Cached : cache[c].dirty => place[b] <= place[c]
  /\ buffer' = With(buffer, b, cache[b].data)
  /\ cache' = [cache EXCEPT ![b].dirty = FALSE]
  /\ UNCHANGED <<image, place, evicted, flushing, result, recoverable>>

AllClean == \A b \in Cached : ~cache[b].dirty

(* flush returns: the blocks in the file object's buffer are not on the    *)
(* image yet.                                                              *)
EndFlush ==
  /\ flushing = "flush"
  /\ AllClean
  /\ flushing' = "no"
  /\ recoverable' = [b \in Blocks |->
       IF b \in DOMAIN buffer THEN recoverable[b] ELSE {image[b]}]
  /\ UNCHANGED <<image, buffer, cache, place, evicted, result>>

(* close after its flush: closing the file object empties its buffer.  The *)
(* next mount opens the image with a new, empty cache.                     *)
Close ==
  /\ flushing = "close"
  /\ AllClean
  /\ image' = [b \in Blocks |-> FileRead(b)]
  /\ recoverable' = [b \in Blocks |-> {FileRead(b)}]
  /\ buffer' = Nothing
  /\ cache' = Nothing
  /\ place' = Nothing
  /\ flushing' = "no"
  /\ UNCHANGED <<evicted, result>>

(* The file object empties its buffer (on a seek out of it, or when full). *)
Drain ==
  /\ buffer # Nothing
  /\ image' = [b \in Blocks |-> FileRead(b)]
  /\ buffer' = Nothing
  /\ UNCHANGED <<cache, place, evicted, flushing, result, recoverable>>

(* The process dies, at any point of any operation, and the image is       *)
(* mounted again.                                                          *)
Crash ==
  /\ buffer' = Nothing
  /\ cache' = Nothing
  /\ place' = Nothing
  /\ evicted' = Nothing
  /\ flushing' = "no"
  /\ recoverable' = [b \in Blocks |-> {image[b]}]
  /\ UNCHANGED <<image, result>>

Next ==
  \/ \E b \in Blocks : ReadHit(b) \/ ReadMiss(b) \/ FlushBlock(b)
  \/ \E b \in Blocks, chunk \in Chunk : WriteHit(b, chunk) \/ WriteMiss(b, chunk)
  \/ \E kind \in {"flush", "close"} : StartFlush(kind)
  \/ WriteBack
  \/ EndFlush
  \/ Close
  \/ Drain
  \/ Crash

Spec == Init /\ [][Next]_vars
-----------------------------------------------------------------------------
TypeOK ==
  /\ image \in [Blocks -> Datum]
  /\ DOMAIN buffer \subseteq Blocks
  /\ \A b \in DOMAIN buffer : buffer[b] \in Datum
  /\ Cached \subseteq Blocks /\ IsFiniteSet(Cached)
  /\ \A b \in Cached : cache[b] \in Entry
  /\ Cardinality(Cached) <= LRU_CACHE_LENGTH
  /\ DOMAIN place = Cached
  /\ DOMAIN evicted \subseteq Blocks
  /\ \A b \in DOMAIN evicted : evicted[b] \in Entry
  /\ flushing \in {"no", "flush", "close"}
  /\ result \in Datum
  /\ recoverable \in [Blocks -> SUBSET Datum]

(* The places are those of an ordered dictionary: moving, inserting and    *)
(* popping never give two blocks one place and never leave a gap, so there *)
(* always is one least recently used block to evict.                       *)
PlacesAreAnOrder == {place[b] : b \in Cached} = 1 .. Cardinality(Cached)

(* A block that is cached clean, or was popped clean, equals the file's:   *)
(* dropping it loses nothing.                                              *)
CleanMeansSaved ==
  /\ \A b \in Cached : ~cache[b].dirty => cache[b].data = FileRead(b)
  /\ \A b \in DOMAIN evicted : ~evicted[b].dirty => evicted[b].data = FileRead(b)

(* At most one block is waiting to be written back after its eviction, it  *)
(* has left the cache, and nothing is being flushed then.                  *)
EvictionAlone ==
  \A b \in DOMAIN evicted :
    /\ DOMAIN evicted = {b}
    /\ b \notin Cached
    /\ flushing = "no"

(* The image, the buffer, the cache and the evicted block only hold values *)
(* from which a crash may choose.                                          *)
AllRecoverable ==
  \A b \in Blocks :
    /\ image[b] \in recoverable[b]
    /\ FileRead(b) \in recoverable[b]
    /\ b \in Cached => cache[b].data \in recoverable[b]
    /\ b \in DOMAIN evicted => evicted[b].data \in recoverable[b]

IInv ==
  /\ TypeOK
  /\ CleanMeansSaved
  /\ EvictionAlone
  /\ AllRecoverable

(* The block as a reader would get it.                                     *)
Content(b) ==
  IF b \in Cached THEN cache[b].data
  ELSE IF b \in DOMAIN evicted THEN evicted[b].data
  ELSE FileRead(b)

content == [b \in Blocks |-> Content(b)]

(* The cache implements the block store: a crash leaves every block as it  *)
(* was at some moment since a flush that reached the image, and what a     *)
(* flush leaves in the file object's buffer is all that it may lose.       *)
Store == INSTANCE BlockStore
StoreSpec == Store!Spec

(* Each call does what the store does for the same call, on the blocks and *)
(* parts it names: no read is stale, no write is lost or spreads to other  *)
(* parts, and what goes on behind the calls, writing back, flushing block  *)
(* by block, emptying the buffer, cannot be seen.                          *)
CallsAreExact ==
  [][/\ \A b \in Blocks :
          /\ ReadHit(b) \/ ReadMiss(b) => Store!Read(b)
          /\ FlushBlock(b) => UNCHANGED Store!storeVars
     /\ \A b \in Blocks, chunk \in Chunk :
          WriteHit(b, chunk) \/ WriteMiss(b, chunk) => Store!Write(b, chunk)
     /\ WriteBack \/ Drain => UNCHANGED Store!storeVars
     /\ EndFlush => Store!Flush(DOMAIN buffer)
     /\ Close => Store!Close
     /\ Crash => Store!Crash]_vars
=============================================================================
