--------------------------- MODULE BlockCacheProofs --------------------------
(***************************************************************************)
(* For every number of blocks and every size of the cache: the cache keeps *)
(* its invariant and implements BlockStore.                                *)
(***************************************************************************)
EXTENDS BlockCache, FiniteSetTheorems, TLAPS

LEMMA OverlayIsDatum ==
  ASSUME NEW old \in Datum, NEW chunk \in Chunk
  PROVE  Overlay(old, chunk) \in Datum
<1>1. \A p \in DOMAIN chunk : chunk[p] \in Bytes
  BY DEF Chunk
<1>2. \A p \in Parts : old[p] \in Bytes
  BY DEF Datum
<1> QED
  BY <1>1, <1>2 DEF Overlay, Datum

LEMMA FileReadIsDatum ==
  ASSUME TypeOK, NEW b \in Blocks
  PROVE  FileRead(b) \in Datum
BY DEF TypeOK, FileRead

(* What a put leaves in the cache and what it evicts. *)
LEMMA PutFacts ==
  ASSUME TypeOK, Idle, NEW b \in Blocks \ Cached, NEW entry \in Entry,
         Put(b, entry)
  PROVE  /\ Cached' \subseteq Blocks /\ IsFiniteSet(Cached')
         /\ Cardinality(Cached') <= LRU_CACHE_LENGTH
         /\ DOMAIN place' = Cached'
         /\ b \in Cached' /\ cache'[b] = entry
         /\ \A c \in Cached' \ {b} : c \in Cached /\ cache'[c] = cache[c]
         /\ DOMAIN evicted' \subseteq Cached \ Cached'
         /\ Cached \subseteq Cached' \cup DOMAIN evicted'
         /\ \A c \in DOMAIN evicted' : /\ evicted'[c] = cache[c]
                                      /\ DOMAIN evicted' = {c}
<1>0. /\ Cached \subseteq Blocks /\ IsFiniteSet(Cached) /\ DOMAIN place = Cached
      /\ Cardinality(Cached) \in Nat /\ Cardinality(Cached) <= LRU_CACHE_LENGTH
      /\ LRU_CACHE_LENGTH \in Nat
  BY CacheAssumption, FS_CardinalityType DEF TypeOK
<1>1. CASE PutInto(b, entry)
  <2>1. Cached' = Cached \cup {b} /\ DOMAIN place' = Cached \cup {b}
    BY <1>0, <1>1 DEF PutInto, With, Cached
  <2>2. IsFiniteSet(Cached') /\ Cardinality(Cached') = Cardinality(Cached) + 1
    BY <1>0, <2>1, FS_AddElement
  <2>3. Cardinality(Cached') <= LRU_CACHE_LENGTH
    BY <1>0, <1>1, <2>2 DEF PutInto
  <2>4. DOMAIN evicted' = {}
    BY <1>1 DEF PutInto, Idle, Nothing
  <2>5. cache'[b] = entry /\ \A c \in Cached : cache'[c] = cache[c]
    BY <1>1 DEF PutInto, With, Cached
  <2> QED
    BY <1>0, <2>1, <2>2, <2>3, <2>4, <2>5
<1>2. CASE PutEvicting(b, entry)
  <2>1. PICK old \in Cached :
          /\ cache' = [c \in (Cached \ {old}) \cup {b} |->
                         IF c = b THEN entry ELSE cache[c]]
          /\ place' = [c \in (Cached \ {old}) \cup {b} |->
                         IF c = b THEN Cardinality(Cached) ELSE place[c] - 1]
          /\ evicted' = [c \in {old} |-> cache[c]]
    BY <1>2 DEF PutEvicting
  <2>2. /\ Cached' = (Cached \ {old}) \cup {b} /\ DOMAIN place' = Cached'
        /\ DOMAIN evicted' = {old} /\ evicted'[old] = cache[old]
    BY <2>1 DEF Cached
  <2>3. IsFiniteSet(Cached') /\ Cardinality(Cached') = Cardinality(Cached)
    <3>1. /\ IsFiniteSet(Cached \ {old})
          /\ Cardinality(Cached \ {old}) = Cardinality(Cached) - 1
      BY <1>0, FS_RemoveElement
    <3>2. /\ IsFiniteSet((Cached \ {old}) \cup {b})
          /\ Cardinality((Cached \ {old}) \cup {b}) = Cardinality(Cached \ {old}) + 1
      BY <3>1, FS_AddElement
    <3> QED
      BY <1>0, <2>2, <3>1, <3>2
  <2>4. cache'[b] = entry /\ \A c \in Cached' \ {b} : cache'[c] = cache[c]
    BY <2>1, <2>2
  <2> QED
    BY <1>0, <2>2, <2>3, <2>4
<1> QED
  BY <1>1, <1>2 DEF Put
-----------------------------------------------------------------------------
(* One lemma per action: it keeps the invariant and does what BlockStore   *)
(* promises, or nothing that a caller could see.                           *)

LEMMA ReadHitKeeps ==
  ASSUME IInv, NEW b \in Blocks, ReadHit(b)
  PROVE  IInv' /\ Store!Read(b)
<1>1. TypeOK'
  BY DEF IInv, TypeOK, ReadHit, MovedToEnd, Cached, Entry
<1>2. CleanMeansSaved' /\ EvictionAlone' /\ AllRecoverable'
  BY DEF IInv, ReadHit, CleanMeansSaved, EvictionAlone, AllRecoverable, FileRead, Cached
<1>3. \A c \in Blocks : Content(c)' = Content(c)
  BY DEF ReadHit, Content, FileRead, Cached
<1>4. Store!Read(b)
  BY <1>3 DEF ReadHit, Content, content, Store!Read
<1> QED
  BY <1>1, <1>2, <1>4 DEF IInv

LEMMA ReadMissKeeps ==
  ASSUME IInv, NEW b \in Blocks, ReadMiss(b)
  PROVE  IInv' /\ Store!Read(b)
<1> DEFINE entry == [data |-> FileRead(b), dirty |-> FALSE]
<1>1. /\ TypeOK /\ Idle /\ b \in Blocks \ Cached /\ Put(b, entry)
      /\ result' = FileRead(b)
      /\ UNCHANGED <<image, buffer, flushing, recoverable>>
  BY DEF IInv, ReadMiss
<1>2. FileRead(b) \in Datum /\ entry \in Entry
  BY <1>1, FileReadIsDatum DEF Entry
<1>3. entry.data = FileRead(b) /\ entry.dirty = FALSE
  OBVIOUS
<1> HIDE DEF entry
<1>4. /\ Cached' \subseteq Blocks /\ IsFiniteSet(Cached')
      /\ Cardinality(Cached') <= LRU_CACHE_LENGTH
      /\ DOMAIN place' = Cached'
      /\ b \in Cached' /\ cache'[b] = entry
      /\ \A c \in Cached' \ {b} : c \in Cached /\ cache'[c] = cache[c]
      /\ DOMAIN evicted' \subseteq Cached \ Cached'
      /\ Cached \subseteq Cached' \cup DOMAIN evicted'
      /\ \A c \in DOMAIN evicted' : evicted'[c] = cache[c]
  BY <1>1, <1>2, PutFacts
<1>alone. \A c \in DOMAIN evicted' : DOMAIN evicted' = {c}
  BY <1>1, <1>2, PutFacts
<1>5. \A c \in Blocks : FileRead(c)' = FileRead(c)
  BY <1>1 DEF FileRead
<1>6. DOMAIN evicted = {} /\ flushing = "no"
  BY <1>1 DEF Idle, Nothing
<1>7. TypeOK'
  BY <1>1, <1>2, <1>4 DEF TypeOK
<1>8. CleanMeansSaved'
  BY <1>1, <1>3, <1>4, <1>5 DEF IInv, CleanMeansSaved, TypeOK
<1>9. EvictionAlone'
  BY <1>1, <1>4, <1>alone, <1>6 DEF EvictionAlone
<1>10. AllRecoverable'
  BY <1>1, <1>3, <1>4, <1>5 DEF IInv, AllRecoverable
<1>11. \A c \in Blocks : Content(c)' = Content(c)
  BY <1>1, <1>3, <1>4, <1>5, <1>6 DEF Content
<1>12. Content(b) = FileRead(b)
  BY <1>1, <1>6 DEF Content
<1>13. Store!Read(b)
  BY <1>1, <1>11, <1>12 DEF content, Store!Read
<1> QED
  BY <1>7, <1>8, <1>9, <1>10, <1>13 DEF IInv

LEMMA WriteHitKeeps ==
  ASSUME IInv, NEW b \in Blocks, NEW chunk \in Chunk, WriteHit(b, chunk)
  PROVE  IInv' /\ Store!Write(b, chunk)
<1> DEFINE new == Overlay(cache[b].data, chunk)
<1>1. /\ b \in Cached /\ Idle
      /\ cache' = [cache EXCEPT ![b] = [data |-> new, dirty |-> TRUE]]
      /\ place' = MovedToEnd(b)
      /\ recoverable' = [recoverable EXCEPT ![b] = @ \cup {cache'[b].data}]
      /\ UNCHANGED <<image, buffer, evicted, flushing, result>>
  BY DEF WriteHit
<1>2. new \in Datum
  <2>1. cache[b].data \in Datum
    BY <1>1 DEF IInv, TypeOK, Entry
  <2> QED
    BY <2>1, OverlayIsDatum
<1> HIDE DEF new
<1>3. /\ Cached' = Cached
      /\ cache'[b] = [data |-> new, dirty |-> TRUE]
      /\ \A c \in Cached \ {b} : cache'[c] = cache[c]
      /\ DOMAIN place' = Cached
  BY <1>1 DEF Cached, MovedToEnd
<1>4. /\ cache'[b].data = new /\ cache'[b].dirty = TRUE
      /\ cache'[b] \in Entry
  BY <1>2, <1>3 DEF Entry
<1>5. /\ recoverable' \in [Blocks -> SUBSET Datum]
      /\ recoverable'[b] = recoverable[b] \cup {new}
      /\ \A c \in Blocks \ {b} : recoverable'[c] = recoverable[c]
  BY <1>1, <1>2, <1>4 DEF IInv, TypeOK
<1>6. \A c \in Blocks : FileRead(c)' = FileRead(c)
  BY <1>1 DEF FileRead
<1>7. DOMAIN evicted = {} /\ DOMAIN evicted' = {} /\ flushing' = "no"
  BY <1>1 DEF Idle, Nothing
<1>8. TypeOK'
  BY <1>1, <1>3, <1>4, <1>5, <1>7 DEF IInv, TypeOK
<1>9. CleanMeansSaved'
  BY <1>3, <1>4, <1>6, <1>7 DEF IInv, CleanMeansSaved, TypeOK
<1>10. EvictionAlone' /\ AllRecoverable'
  BY <1>1, <1>3, <1>4, <1>5, <1>6, <1>7 DEF IInv, EvictionAlone, AllRecoverable
<1>11. /\ Content(b) = cache[b].data /\ Content(b)' = new
       /\ \A c \in Blocks \ {b} : Content(c)' = Content(c)
  BY <1>1, <1>3, <1>4, <1>6, <1>7 DEF Content
<1>12. new = Store!Overlay(content[b], chunk)
  BY <1>11 DEF new, content, Overlay, Store!Overlay
<1>13. Store!Write(b, chunk)
  BY <1>1, <1>4, <1>11, <1>12 DEF content, Store!Write
<1> QED
  BY <1>8, <1>9, <1>10, <1>13 DEF IInv

LEMMA WriteMissKeeps ==
  ASSUME IInv, NEW b \in Blocks, NEW chunk \in Chunk, WriteMiss(b, chunk)
  PROVE  IInv' /\ Store!Write(b, chunk)
<1> DEFINE new == Overlay(FileRead(b), chunk)
           entry == [data |-> new, dirty |-> FALSE]
<1>1. /\ TypeOK /\ Idle /\ b \in Blocks \ Cached /\ Put(b, entry)
      /\ buffer' = With(buffer, b, new)
      /\ recoverable' = [recoverable EXCEPT ![b] = @ \cup {new}]
      /\ UNCHANGED <<image, flushing, result>>
  BY DEF IInv, WriteMiss
<1>2. new \in Datum /\ entry \in Entry
  BY <1>1, FileReadIsDatum, OverlayIsDatum DEF Entry
<1>3. entry.data = new /\ entry.dirty = FALSE
  OBVIOUS
<1> HIDE DEF new, entry
<1>4. /\ Cached' \subseteq Blocks /\ IsFiniteSet(Cached')
      /\ Cardinality(Cached') <= LRU_CACHE_LENGTH
      /\ DOMAIN place' = Cached'
      /\ b \in Cached' /\ cache'[b] = entry
      /\ \A c \in Cached' \ {b} : c \in Cached /\ cache'[c] = cache[c]
      /\ DOMAIN evicted' \subseteq Cached \ Cached'
      /\ Cached \subseteq Cached' \cup DOMAIN evicted'
      /\ \A c \in DOMAIN evicted' : evicted'[c] = cache[c]
  BY <1>1, <1>2, PutFacts
<1>alone. \A c \in DOMAIN evicted' : DOMAIN evicted' = {c}
  BY <1>1, <1>2, PutFacts
<1>5. /\ DOMAIN buffer' = DOMAIN buffer \cup {b}
      /\ buffer'[b] = new
      /\ \A c \in DOMAIN buffer \ {b} : buffer'[c] = buffer[c]
  BY <1>1 DEF With
<1>6. /\ FileRead(b)' = new
      /\ \A c \in Blocks \ {b} : FileRead(c)' = FileRead(c)
  BY <1>1, <1>5 DEF FileRead
<1>7. /\ recoverable' \in [Blocks -> SUBSET Datum]
      /\ recoverable'[b] = recoverable[b] \cup {new}
      /\ \A c \in Blocks \ {b} : recoverable'[c] = recoverable[c]
  BY <1>1, <1>2 DEF TypeOK
<1>8. DOMAIN evicted = {} /\ flushing = "no" /\ b \notin DOMAIN evicted'
  BY <1>1, <1>4 DEF Idle, Nothing
<1>9. TypeOK'
  BY <1>1, <1>2, <1>4, <1>5, <1>7 DEF TypeOK
<1>10. CleanMeansSaved'
  BY <1>1, <1>3, <1>4, <1>6, <1>8 DEF IInv, CleanMeansSaved, TypeOK
<1>11. EvictionAlone' /\ AllRecoverable'
  <2>1. EvictionAlone'
    BY <1>1, <1>4, <1>alone, <1>8 DEF EvictionAlone
  <2>2. AllRecoverable'
    BY <1>1, <1>3, <1>4, <1>6, <1>7, <1>8 DEF IInv, AllRecoverable
  <2> QED
    BY <2>1, <2>2
<1>12. /\ Content(b) = FileRead(b) /\ Content(b)' = new
       /\ \A c \in Blocks \ {b} : Content(c)' = Content(c)
  BY <1>1, <1>3, <1>4, <1>6, <1>8 DEF Content
<1>13. new = Store!Overlay(content[b], chunk)
  BY <1>12 DEF new, content, Overlay, Store!Overlay
<1>14. Store!Write(b, chunk)
  BY <1>1, <1>12, <1>13 DEF content, Store!Write
<1> QED
  BY <1>9, <1>10, <1>11, <1>14 DEF IInv

LEMMA WriteBackKeeps ==
  ASSUME IInv, WriteBack
  PROVE  IInv' /\ UNCHANGED Store!storeVars
<1>1. PICK b \in DOMAIN evicted :
        buffer' = IF evicted[b].dirty
                    THEN With(buffer, b, evicted[b].data)
                    ELSE buffer
  BY DEF WriteBack
<1>2. /\ DOMAIN evicted = {b} /\ DOMAIN evicted' = {}
      /\ b \in Blocks \ Cached /\ evicted[b] \in Entry
      /\ evicted[b].data \in Datum
      /\ UNCHANGED <<image, cache, place, flushing, result, recoverable>>
  BY DEF IInv, TypeOK, EvictionAlone, WriteBack, Nothing, Entry
<1>3. /\ DOMAIN buffer' \subseteq Blocks
      /\ \A c \in DOMAIN buffer' : buffer'[c] \in Datum
  BY <1>1, <1>2 DEF IInv, TypeOK, With
<1>4. FileRead(b)' = evicted[b].data
  <2>1. CASE evicted[b].dirty
    BY <1>1, <2>1 DEF With, FileRead
  <2>2. CASE ~evicted[b].dirty
    <3>1. evicted[b].data = FileRead(b)
      BY <2>2, <1>2 DEF IInv, CleanMeansSaved
    <3> QED
      BY <1>1, <1>2, <2>2, <3>1 DEF FileRead
  <2> QED
    BY <2>1, <2>2
<1>5. \A c \in Blocks \ {b} : FileRead(c)' = FileRead(c)
  BY <1>1, <1>2 DEF With, FileRead
<1>6. TypeOK'
  BY <1>2, <1>3 DEF IInv, TypeOK, Cached
<1>7. CleanMeansSaved' /\ EvictionAlone'
  BY <1>2, <1>5 DEF IInv, CleanMeansSaved, EvictionAlone, TypeOK, Cached
<1>8. AllRecoverable'
  BY <1>2, <1>4, <1>5 DEF IInv, AllRecoverable, Cached
<1>9. \A c \in Blocks : Content(c)' = Content(c)
  BY <1>2, <1>4, <1>5 DEF Content, Cached
<1>10. content' = content
  BY <1>9 DEF content
<1> QED
  BY <1>2, <1>6, <1>7, <1>8, <1>10 DEF IInv, Store!storeVars

LEMMA StartFlushKeeps ==
  ASSUME IInv, NEW kind \in {"flush", "close"}, StartFlush(kind)
  PROVE  IInv' /\ UNCHANGED Store!storeVars
<1>1. DOMAIN evicted' = {}
  BY DEF StartFlush, Idle, Nothing
<1>2. \A c \in Blocks : FileRead(c)' = FileRead(c) /\ Content(c)' = Content(c)
  BY DEF StartFlush, FileRead, Content, Cached
<1>3. TypeOK' /\ CleanMeansSaved' /\ EvictionAlone' /\ AllRecoverable'
  BY <1>1, <1>2 DEF IInv, StartFlush, TypeOK, CleanMeansSaved, EvictionAlone,
                    AllRecoverable, Cached
<1>4. content' = content
  BY <1>2 DEF content
<1> QED
  BY <1>3, <1>4 DEF IInv, StartFlush, Store!storeVars

LEMMA FlushBlockKeeps ==
  ASSUME IInv, NEW b \in Blocks, FlushBlock(b)
  PROVE  IInv' /\ UNCHANGED Store!storeVars
<1>1. /\ flushing # "no" /\ b \in Cached /\ cache[b].dirty
      /\ buffer' = With(buffer, b, cache[b].data)
      /\ cache' = [cache EXCEPT ![b].dirty = FALSE]
      /\ UNCHANGED <<image, place, evicted, flushing, result, recoverable>>
  BY DEF FlushBlock
<1>2. cache[b] \in Entry /\ \A c \in Cached : cache[c] \in Entry
  BY <1>1 DEF IInv, TypeOK
<1>3. /\ Cached' = Cached
      /\ cache'[b] \in Entry
      /\ cache'[b].data = cache[b].data
      /\ \A c \in Cached \ {b} : cache'[c] = cache[c]
  BY <1>1, <1>2 DEF Cached, Entry
<1>4. /\ DOMAIN buffer' = DOMAIN buffer \cup {b}
      /\ buffer'[b] = cache[b].data
      /\ \A c \in DOMAIN buffer \ {b} : buffer'[c] = buffer[c]
  BY <1>1 DEF With
<1>5. /\ FileRead(b)' = cache[b].data
      /\ \A c \in Blocks \ {b} : FileRead(c)' = FileRead(c)
  BY <1>1, <1>4 DEF FileRead
<1>6. DOMAIN evicted = {} /\ DOMAIN evicted' = {}
  BY <1>1 DEF IInv, EvictionAlone
<1>7. TypeOK'
  <2>1. \A c \in DOMAIN buffer' : buffer'[c] \in Datum
    BY <1>2, <1>4 DEF IInv, TypeOK, Entry
  <2>2. DOMAIN buffer' \subseteq Blocks
    BY <1>4 DEF IInv, TypeOK
  <2>3. \A c \in Cached' : cache'[c] \in Entry
    BY <1>2, <1>3
  <2>4. DOMAIN place' = Cached' /\ IsFiniteSet(Cached') /\ Cached' \subseteq Blocks
        /\ Cardinality(Cached') <= LRU_CACHE_LENGTH
    BY <1>1, <1>3 DEF IInv, TypeOK
  <2> QED
    BY <1>1, <1>6, <2>1, <2>2, <2>3, <2>4 DEF IInv, TypeOK
<1>8. CleanMeansSaved'
  BY <1>3, <1>5, <1>6 DEF IInv, CleanMeansSaved, TypeOK
<1>9. EvictionAlone' /\ AllRecoverable'
  BY <1>1, <1>3, <1>5, <1>6 DEF IInv, EvictionAlone, AllRecoverable
<1>10. \A c \in Blocks : Content(c)' = Content(c)
  BY <1>1, <1>3, <1>5, <1>6 DEF Content
<1>11. content' = content
  BY <1>10 DEF content
<1> QED
  BY <1>1, <1>7, <1>8, <1>9, <1>11 DEF IInv, Store!storeVars

LEMMA EndFlushKeeps ==
  ASSUME IInv, EndFlush
  PROVE  IInv' /\ Store!Flush(DOMAIN buffer)
<1>1. /\ flushing = "flush" /\ flushing' = "no" /\ AllClean
      /\ recoverable' = [b \in Blocks |->
           IF b \in DOMAIN buffer THEN recoverable[b] ELSE {image[b]}]
      /\ UNCHANGED <<image, buffer, cache, place, evicted, result>>
  BY DEF EndFlush
<1>2. DOMAIN evicted = {} /\ DOMAIN evicted' = {}
  BY <1>1 DEF IInv, EvictionAlone
<1>3. \A c \in Blocks : FileRead(c)' = FileRead(c) /\ Content(c)' = Content(c)
  BY <1>1, <1>2 DEF FileRead, Content, Cached
<1>4. \A c \in Blocks : Content(c) = FileRead(c)
  BY <1>1, <1>2 DEF IInv, CleanMeansSaved, AllClean, Content
<1>5. ASSUME NEW c \in Blocks
      PROVE  /\ recoverable'[c] \in SUBSET Datum
             /\ image[c] \in recoverable'[c]
             /\ FileRead(c) \in recoverable'[c]
             /\ recoverable'[c] = IF c \in DOMAIN buffer THEN recoverable[c]
                                  ELSE {content[c]}
  BY <1>1, <1>4 DEF IInv, TypeOK, AllRecoverable, FileRead, content
<1>6. TypeOK'
  BY <1>1, <1>5 DEF IInv, TypeOK, Cached
<1>7. CleanMeansSaved' /\ EvictionAlone'
  BY <1>1, <1>2, <1>3 DEF IInv, CleanMeansSaved, EvictionAlone, Cached, TypeOK
<1>8. AllRecoverable'
  BY <1>1, <1>2, <1>3, <1>5 DEF IInv, AllRecoverable, CleanMeansSaved, AllClean, Cached
<1>9. content' = content
  BY <1>3 DEF content
<1>10. recoverable' = [b \in Blocks |->
         IF b \in DOMAIN buffer THEN recoverable[b] ELSE {content[b]}]
  BY <1>1, <1>5
<1>11. Store!Flush(DOMAIN buffer)
  BY <1>1, <1>9, <1>10 DEF Store!Flush
<1> QED
  BY <1>6, <1>7, <1>8, <1>11 DEF IInv

LEMMA CloseKeeps ==
  ASSUME IInv, Close
  PROVE  IInv' /\ Store!Close
<1>1. /\ flushing = "close" /\ flushing' = "no" /\ AllClean
      /\ image' = [b \in Blocks |-> FileRead(b)]
      /\ recoverable' = [b \in Blocks |-> {FileRead(b)}]
      /\ DOMAIN buffer' = {} /\ Cached' = {} /\ DOMAIN place' = {}
      /\ UNCHANGED <<evicted, result>>
  BY DEF Close, Nothing, Cached
<1>2. DOMAIN evicted = {} /\ DOMAIN evicted' = {}
  BY <1>1 DEF IInv, EvictionAlone
<1>3. \A c \in Blocks : Content(c) = FileRead(c) /\ FileRead(c) \in Datum
  BY <1>1, <1>2, FileReadIsDatum DEF IInv, CleanMeansSaved, AllClean, Content
<1>4. \A c \in Blocks : FileRead(c)' = FileRead(c) /\ Content(c)' = FileRead(c)
  BY <1>1, <1>2 DEF FileRead, Content
<1>5. TypeOK'
  BY <1>1, <1>2, <1>3, FS_EmptySet, CacheAssumption DEF IInv, TypeOK
<1>6. CleanMeansSaved' /\ EvictionAlone' /\ AllRecoverable'
  BY <1>1, <1>2, <1>4 DEF CleanMeansSaved, EvictionAlone, AllRecoverable
<1>7. content' = content /\ recoverable' = [b \in Blocks |-> {content[b]}]
  BY <1>1, <1>3, <1>4 DEF content
<1>8. Store!Close
  BY <1>1, <1>7 DEF Store!Close, Store!Flush
<1> QED
  BY <1>5, <1>6, <1>8 DEF IInv

LEMMA DrainKeeps ==
  ASSUME IInv, Drain
  PROVE  IInv' /\ UNCHANGED Store!storeVars
<1>1. /\ image' = [b \in Blocks |-> FileRead(b)]
      /\ DOMAIN buffer' = {}
      /\ UNCHANGED <<cache, place, evicted, flushing, result, recoverable>>
  BY DEF Drain, Nothing
<1>2. \A c \in Blocks : image'[c] = FileRead(c) /\ FileRead(c) \in Datum
  BY <1>1, FileReadIsDatum DEF IInv
<1>3. \A c \in Blocks : FileRead(c)' = FileRead(c)
  BY <1>1, <1>2 DEF FileRead
<1>4. \A c \in Blocks : Content(c)' = Content(c)
  BY <1>1, <1>3 DEF Content, Cached
<1>5. TypeOK'
  BY <1>1, <1>2 DEF IInv, TypeOK, Cached
<1>6. CleanMeansSaved' /\ EvictionAlone' /\ AllRecoverable'
  BY <1>1, <1>2, <1>3 DEF IInv, TypeOK, CleanMeansSaved, EvictionAlone,
                          AllRecoverable, Cached
<1>7. content' = content
  BY <1>4 DEF content
<1> QED
  BY <1>1, <1>5, <1>6, <1>7 DEF IInv, Store!storeVars

LEMMA CrashKeeps ==
  ASSUME IInv, Crash
  PROVE  IInv' /\ Store!Crash
<1>1. /\ DOMAIN buffer' = {} /\ Cached' = {} /\ DOMAIN place' = {}
      /\ DOMAIN evicted' = {} /\ flushing' = "no"
      /\ recoverable' = [b \in Blocks |-> {image[b]}]
      /\ UNCHANGED <<image, result>>
  BY DEF Crash, Nothing, Cached
<1>2. \A c \in Blocks : /\ image[c] \in Datum /\ image[c] \in recoverable[c]
                        /\ FileRead(c)' = image[c] /\ Content(c)' = image[c]
  BY <1>1 DEF IInv, TypeOK, AllRecoverable, FileRead, Content
<1>3. TypeOK'
  BY <1>1, <1>2, FS_EmptySet, CacheAssumption DEF IInv, TypeOK
<1>4. CleanMeansSaved' /\ EvictionAlone' /\ AllRecoverable'
  BY <1>1, <1>2 DEF CleanMeansSaved, EvictionAlone, AllRecoverable
<1>5. content' \in [Blocks -> Datum] /\ \A c \in Blocks : content'[c] = image[c]
  BY <1>2 DEF content
<1>6. recoverable' = [b \in Blocks |-> {content'[b]}]
  BY <1>1, <1>5
<1>7. Store!Crash
  BY <1>1, <1>2, <1>5, <1>6 DEF Store!Crash, Store!Datum, Datum
<1> QED
  BY <1>3, <1>4, <1>7 DEF IInv

LEMMA UnchangedKeeps ==
  ASSUME IInv, UNCHANGED vars
  PROVE  IInv' /\ UNCHANGED Store!storeVars
<1>1. \A c \in Blocks : FileRead(c)' = FileRead(c) /\ Content(c)' = Content(c)
  BY DEF vars, FileRead, Content, Cached
<1>2. TypeOK' /\ CleanMeansSaved' /\ EvictionAlone' /\ AllRecoverable'
  BY <1>1 DEF IInv, vars, TypeOK, CleanMeansSaved, EvictionAlone, AllRecoverable, Cached
<1>3. content' = content
  BY <1>1 DEF content
<1> QED
  BY <1>2, <1>3 DEF IInv, vars, Store!storeVars
-----------------------------------------------------------------------------
LEMMA InitKeeps ==
  ASSUME Init
  PROVE  IInv /\ Store!Init
<1>1. /\ DOMAIN buffer = {} /\ Cached = {} /\ DOMAIN place = {}
      /\ DOMAIN evicted = {} /\ flushing = "no"
      /\ image \in [Blocks -> Datum] /\ result \in Datum
      /\ recoverable = [b \in Blocks |-> {image[b]}]
  BY DEF Init, Nothing, Cached
<1>2. \A c \in Blocks : FileRead(c) = image[c] /\ Content(c) = image[c]
  BY <1>1 DEF FileRead, Content
<1>3. TypeOK
  BY <1>1, FS_EmptySet, CacheAssumption DEF TypeOK
<1>4. CleanMeansSaved /\ EvictionAlone /\ AllRecoverable
  BY <1>1, <1>2 DEF CleanMeansSaved, EvictionAlone, AllRecoverable
<1>5. content \in [Blocks -> Datum] /\ \A c \in Blocks : content[c] = image[c]
  BY <1>1, <1>2 DEF content
<1>6. recoverable = [b \in Blocks |-> {content[b]}]
  BY <1>1, <1>5
<1> QED
  BY <1>1, <1>3, <1>4, <1>5, <1>6 DEF IInv, Store!Init, Store!Datum, Datum

LEMMA NextKeeps ==
  ASSUME IInv, [Next]_vars
  PROVE  IInv' /\ [Store!Next]_(Store!storeVars)
<1>1. ASSUME NEW b \in Blocks, ReadHit(b) \/ ReadMiss(b)
      PROVE  IInv' /\ Store!Next
  BY <1>1, ReadHitKeeps, ReadMissKeeps DEF Store!Next
<1>2. ASSUME NEW b \in Blocks, FlushBlock(b)
      PROVE  IInv' /\ UNCHANGED Store!storeVars
  BY <1>2, FlushBlockKeeps
<1>3. ASSUME NEW b \in Blocks, NEW chunk \in Chunk,
             WriteHit(b, chunk) \/ WriteMiss(b, chunk)
      PROVE  IInv' /\ Store!Next
  <2>1. chunk \in Store!Chunk
    BY DEF Chunk, Store!Chunk
  <2> QED
    BY <1>3, <2>1, WriteHitKeeps, WriteMissKeeps DEF Store!Next
<1>4. ASSUME NEW kind \in {"flush", "close"}, StartFlush(kind)
      PROVE  IInv' /\ UNCHANGED Store!storeVars
  BY <1>4, StartFlushKeeps
<1>5. CASE WriteBack
  BY <1>5, WriteBackKeeps
<1>6. CASE EndFlush
  <2>1. DOMAIN buffer \in SUBSET Blocks
    BY DEF IInv, TypeOK
  <2> QED
    BY <1>6, <2>1, EndFlushKeeps DEF Store!Next
<1>7. CASE Close
  BY <1>7, CloseKeeps DEF Store!Next
<1>8. CASE Drain
  BY <1>8, DrainKeeps
<1>9. CASE Crash
  BY <1>9, CrashKeeps DEF Store!Next
<1>10. CASE UNCHANGED vars
  BY <1>10, UnchangedKeeps
<1> QED
  BY <1>1, <1>2, <1>3, <1>4, <1>5, <1>6, <1>7, <1>8, <1>9, <1>10 DEF Next

(* The conjunction of everything the cache keeps, in every reachable state. *)
THEOREM Invariance == Spec => []IInv
<1>1. Init => IInv
  BY InitKeeps
<1>2. IInv /\ [Next]_vars => IInv'
  BY NextKeeps
<1> QED
  BY <1>1, <1>2, PTL DEF Spec

(* The cache never outgrows LRU_CACHE_LENGTH, and holds blocks only.        *)
THEOREM TypeCorrect == Spec => []TypeOK
<1>1. IInv => TypeOK
  BY DEF IInv
<1> QED
  BY <1>1, Invariance, PTL

(* What is cached clean is what the file holds, so that the blocks dropped  *)
(* without being written lose nothing.                                      *)
THEOREM CleanIsSaved == Spec => []CleanMeansSaved
<1>1. IInv => CleanMeansSaved
  BY DEF IInv
<1> QED
  BY <1>1, Invariance, PTL

(* The cache implements the block store, crashes included.                  *)
THEOREM ImplementsStore == Spec => StoreSpec
<1>1. Init => Store!Init
  BY InitKeeps
<1>2. IInv /\ [Next]_vars => [Store!Next]_(Store!storeVars)
  BY NextKeeps
<1> QED
  BY <1>1, <1>2, Invariance, PTL DEF Spec, StoreSpec, Store!Spec

(* Reads, writes, closing and a crash do exactly what they do to the block  *)
(* store, on the same block and parts, and writing back is invisible.       *)
THEOREM CallsExact == Spec => CallsAreExact
<1> DEFINE Exact ==
      /\ \A b \in Blocks :
           /\ ReadHit(b) \/ ReadMiss(b) => Store!Read(b)
           /\ FlushBlock(b) => UNCHANGED Store!storeVars
      /\ \A b \in Blocks, chunk \in Chunk :
           WriteHit(b, chunk) \/ WriteMiss(b, chunk) => Store!Write(b, chunk)
      /\ WriteBack \/ Drain => UNCHANGED Store!storeVars
      /\ EndFlush => Store!Flush(DOMAIN buffer)
      /\ Close => Store!Close
      /\ Crash => Store!Crash
<1>1. IInv => Exact
  <2> SUFFICES ASSUME IInv PROVE Exact
    OBVIOUS
  <2>1. ASSUME NEW b \in Blocks
        PROVE  /\ ReadHit(b) \/ ReadMiss(b) => Store!Read(b)
               /\ FlushBlock(b) => UNCHANGED Store!storeVars
    BY ReadHitKeeps, ReadMissKeeps, FlushBlockKeeps
  <2>2. ASSUME NEW b \in Blocks, NEW chunk \in Chunk
        PROVE  WriteHit(b, chunk) \/ WriteMiss(b, chunk) => Store!Write(b, chunk)
    BY WriteHitKeeps, WriteMissKeeps
  <2>3. WriteBack \/ Drain => UNCHANGED Store!storeVars
    BY WriteBackKeeps, DrainKeeps
  <2>4. /\ EndFlush => Store!Flush(DOMAIN buffer)
        /\ Close => Store!Close
        /\ Crash => Store!Crash
    BY EndFlushKeeps, CloseKeeps, CrashKeeps
  <2> QED
    BY <2>1, <2>2, <2>3, <2>4
<1>2. [][Exact]_vars => CallsAreExact
  BY DEF CallsAreExact
<1>3. []IInv => [][Exact]_vars
  BY <1>1, PTL
<1> QED
  BY <1>2, <1>3, Invariance
-----------------------------------------------------------------------------
(* The order of the cached blocks.                                         *)

OrderInv ==
  /\ PlacesAreAnOrder
  /\ \A b, c \in Cached : place[b] = place[c] => b = c

LEMMA OrderFacts ==
  ASSUME TypeOK, OrderInv
  PROVE  /\ IsFiniteSet(Cached) /\ Cardinality(Cached) \in Nat
         /\ DOMAIN place = Cached
         /\ \A b \in Cached : place[b] \in 1 .. Cardinality(Cached)
         /\ \A k \in 1 .. Cardinality(Cached) : \E b \in Cached : place[b] = k
BY FS_CardinalityType DEF TypeOK, OrderInv, PlacesAreAnOrder

LEMMA MoveKeepsOrder ==
  ASSUME TypeOK, OrderInv, NEW b \in Cached, Cached' = Cached, place' = MovedToEnd(b)
  PROVE  OrderInv'
<1> DEFINE N == Cardinality(Cached)
<1>1. /\ N \in Nat
      /\ \A c \in Cached : place[c] \in 1 .. N
      /\ \A k \in 1 .. N : \E c \in Cached : place[c] = k
      /\ \A c, d \in Cached : place[c] = place[d] => c = d
  BY OrderFacts DEF OrderInv
<1>2. \A c \in Cached : place'[c] = IF c = b THEN N
                                    ELSE IF place[c] > place[b] THEN place[c] - 1 ELSE place[c]
  BY DEF MovedToEnd
<1> HIDE DEF N
<1>3. \A c \in Cached : place'[c] \in 1 .. N
  BY <1>1, <1>2
<1>4. ASSUME NEW k \in 1 .. N
      PROVE  \E c \in Cached : place'[c] = k
  <2>1. CASE k = N
    BY <1>2, <2>1
  <2>2. CASE k # N /\ k < place[b]
    <3>1. PICK c \in Cached : place[c] = k
      BY <1>1
    <3> QED
      BY <1>1, <1>2, <2>2, <3>1
  <2>3. CASE k # N /\ ~(k < place[b])
    <3>1. PICK c \in Cached : place[c] = k + 1
      BY <1>1, <2>3
    <3> QED
      BY <1>1, <1>2, <2>3, <3>1
  <2> QED
    BY <2>1, <2>2, <2>3
<1>5. ASSUME NEW c \in Cached, NEW d \in Cached, place'[c] = place'[d]
      PROVE  c = d
  BY <1>1, <1>2, <1>5
<1>6. {place'[c] : c \in Cached'} = 1 .. Cardinality(Cached')
  BY <1>3, <1>4 DEF N
<1> QED
  BY <1>5, <1>6 DEF OrderInv, PlacesAreAnOrder

LEMMA PutKeepsOrder ==
  ASSUME TypeOK, OrderInv, NEW b \in Blocks \ Cached, NEW entry, Put(b, entry)
  PROVE  OrderInv'
<1> DEFINE N == Cardinality(Cached)
<1>1. /\ N \in Nat /\ IsFiniteSet(Cached) /\ DOMAIN place = Cached /\ b \notin Cached
      /\ \A c \in Cached : place[c] \in 1 .. N
      /\ \A k \in 1 .. N : \E c \in Cached : place[c] = k
      /\ \A c, d \in Cached : place[c] = place[d] => c = d
  BY OrderFacts DEF OrderInv
<1>2. CASE PutInto(b, entry)
  <2>1. Cached' = Cached \cup {b}
    BY <1>1, <1>2 DEF PutInto, With, Cached
  <2>2. Cardinality(Cached') = N + 1
    BY <1>1, <2>1, FS_AddElement
  <2>3. place' = [c \in Cached \cup {b} |-> IF c = b THEN N + 1 ELSE place[c]]
    BY <1>1, <1>2 DEF PutInto, With
  <2> HIDE DEF N
  <2>4. /\ place'[b] = N + 1
        /\ \A c \in Cached : place'[c] = place[c]
    BY <1>1, <2>3
  <2>5. {place'[c] : c \in Cached'} = 1 .. N + 1
    <3>1. \A c \in Cached' : place'[c] \in 1 .. N + 1
      BY <1>1, <2>1, <2>4
    <3>2. ASSUME NEW k \in 1 .. N + 1
          PROVE  \E c \in Cached' : place'[c] = k
      BY <1>1, <2>1, <2>4
    <3> QED
      BY <3>1, <3>2
  <2>6. \A c, d \in Cached' : place'[c] = place'[d] => c = d
    BY <1>1, <2>1, <2>4
  <2> QED
    BY <2>2, <2>5, <2>6 DEF OrderInv, PlacesAreAnOrder
<1>3. CASE PutEvicting(b, entry)
  <2>1. PICK old \in Cached :
          /\ \A c \in Cached : place[old] <= place[c]
          /\ cache' = [c \in (Cached \ {old}) \cup {b} |->
                         IF c = b THEN entry ELSE cache[c]]
          /\ place' = [c \in (Cached \ {old}) \cup {b} |->
                         IF c = b THEN N ELSE place[c] - 1]
    BY <1>3 DEF PutEvicting
  <2>2. Cached' = (Cached \ {old}) \cup {b}
    BY <2>1 DEF Cached
  <2>3. Cardinality(Cached') = N
    <3>1. /\ IsFiniteSet(Cached \ {old})
          /\ Cardinality(Cached \ {old}) = N - 1
      BY <1>1, FS_RemoveElement
    <3>2. Cardinality((Cached \ {old}) \cup {b}) = Cardinality(Cached \ {old}) + 1
      BY <1>1, <3>1, FS_AddElement
    <3> QED
      BY <1>1, <2>2, <3>1, <3>2
  <2> HIDE DEF N
  <2>4. /\ place'[b] = N
        /\ \A c \in Cached \ {old} : place'[c] = place[c] - 1
    BY <1>1, <2>1
  <2>5. place[old] = 1
    BY <1>1, <2>1
  <2>6. \A c \in Cached \ {old} : place[c] \in 2 .. N
    BY <1>1, <2>5
  <2>7. {place'[c] : c \in Cached'} = 1 .. N
    <3>1. \A c \in Cached' : place'[c] \in 1 .. N
      BY <1>1, <2>2, <2>4, <2>6
    <3>2. ASSUME NEW k \in 1 .. N, k # N
          PROVE  \E c \in Cached' : place'[c] = k
      <4>1. PICK c \in Cached : place[c] = k + 1
        BY <1>1, <3>2
      <4>2. c # old
        BY <2>5, <4>1
      <4> QED
        BY <1>1, <2>2, <2>4, <4>1, <4>2
    <3>3. \E c \in Cached' : place'[c] = N
      BY <2>2, <2>4
    <3> QED
      BY <3>1, <3>2, <3>3
  <2>8. \A c, d \in Cached' : place'[c] = place'[d] => c = d
    BY <1>1, <2>2, <2>4, <2>6
  <2> QED
    BY <2>3, <2>7, <2>8 DEF OrderInv, PlacesAreAnOrder
<1> QED
  BY <1>2, <1>3 DEF Put

LEMMA NextKeepsOrder ==
  ASSUME IInv, OrderInv, [Next]_vars
  PROVE  OrderInv'
<1>1. TypeOK
  BY DEF IInv
<1>2. ASSUME NEW b \in Blocks, ReadHit(b)
      PROVE  OrderInv'
  BY <1>1, <1>2, MoveKeepsOrder DEF ReadHit, Cached
<1>3. ASSUME NEW b \in Blocks, NEW chunk \in Chunk, WriteHit(b, chunk)
      PROVE  OrderInv'
  BY <1>1, <1>3, MoveKeepsOrder DEF WriteHit, Cached
<1>4. ASSUME NEW b \in Blocks, ReadMiss(b)
      PROVE  OrderInv'
  BY <1>1, <1>4, PutKeepsOrder DEF ReadMiss
<1>5. ASSUME NEW b \in Blocks, NEW chunk \in Chunk, WriteMiss(b, chunk)
      PROVE  OrderInv'
  BY <1>1, <1>5, PutKeepsOrder DEF WriteMiss
<1>6. CASE UNCHANGED <<Cached, place>>
  BY <1>6 DEF OrderInv, PlacesAreAnOrder
<1>7. ASSUME cache' = Nothing, place' = Nothing
      PROVE  OrderInv'
  <2>1. Cached' = {}
    BY <1>7 DEF Cached, Nothing
  <2> QED
    BY <2>1, FS_EmptySet DEF OrderInv, PlacesAreAnOrder
<1>8. ASSUME NEW b \in Blocks, FlushBlock(b)
      PROVE  OrderInv'
  BY <1>6, <1>8 DEF FlushBlock, Cached
<1>9. ASSUME NEW kind \in {"flush", "close"}, StartFlush(kind)
      PROVE  OrderInv'
  BY <1>6, <1>9 DEF StartFlush, Cached
<1>10. CASE WriteBack \/ EndFlush \/ Drain
  BY <1>6, <1>10 DEF WriteBack, EndFlush, Drain, Cached
<1>11. CASE Close \/ Crash
  BY <1>7, <1>11 DEF Close, Crash
<1>12. CASE UNCHANGED vars
  BY <1>6, <1>12 DEF vars, Cached
<1> QED
  BY <1>2, <1>3, <1>4, <1>5, <1>8, <1>9, <1>10, <1>11, <1>12 DEF Next

(* The places of the cached blocks are 1 to their number, each once: the    *)
(* LRU order stays an order through hits, misses, evictions and crashes.    *)
THEOREM OrderKept == Spec => []PlacesAreAnOrder
<1>1. Init => OrderInv
  <2>1. Init => Cached = {}
    BY DEF Init, Cached, Nothing
  <2> QED
    BY <2>1, FS_EmptySet DEF OrderInv, PlacesAreAnOrder
<1>2. IInv /\ OrderInv /\ [Next]_vars => OrderInv'
  BY NextKeepsOrder
<1>3. OrderInv => PlacesAreAnOrder
  BY DEF OrderInv
<1> QED
  BY <1>1, <1>2, <1>3, Invariance, PTL DEF Spec
=============================================================================
